---- MODULE Spec2Model ----
(***************************************************************************)
(* mockflow: synthetic OHLCV candle generation (src/mockflow).             *)
(*                                                                         *)
(* Number representation.  The program computes in float64; the model      *)
(* computes in fixed point with floor rounding:                            *)
(*   - rates (trend offsets, volatilities, shocks): units of 1e-4          *)
(*   - multiplicative factors and sines: units of 1e-3                     *)
(*   - prices: currency units                                              *)
(*   - volumes: units of VolumeUnit shares (TLC integers are 32 bit, the   *)
(*     program's volume reaches 7e13)                                      *)
(*   - datetimes: seconds relative to datetime(2024, 1, 1)                 *)
(*   - a double drawn from the generator: 1e-3 (floor)                     *)
(*   - a standard normal deviate: 1e-4 (nearest)                           *)
(* An optional argument (Python None or a value) is <<>> or <<value>>.     *)
(***************************************************************************)
EXTENDS Integers, Sequences, FiniteSets, TLC

VARIABLES
    hashseed,           \* the process's string-hash salt (PYTHONHASHSEED)
    rng,                \* state of the shared generator np.random
    pc,                 \* position of the caller / of generate_mock_data
    args,               \* arguments of the current (or last) call
    timeframe_mins,     \* local of generate_mock_data
    periods,            \* local of generate_mock_data
    actual_start_date,  \* local of generate_mock_data
    scenario,           \* local of generate_mock_data (resolved scenario)
    trend_multipliers,  \* local of generate_mock_data
    volatility_cycles,  \* local of generate_mock_data
    current_vol,        \* local of generate_volatility_cycles
    heap,               \* the arrays allocated by the call, in allocation order
    prices,             \* local of generate_mock_data
    volumes,            \* local of generate_mock_data
    data,               \* local of generate_mock_data (dict of columns)
    table,              \* the returned DataFrame
    error,              \* the message of the ValueError raised, "" if none
    draws,              \* number of draws from np.random made by the call
    kept,               \* what the caller kept of an earlier call
    caps                \* record of one application of apply_performance_caps

vars == <<hashseed, rng, pc, args, timeframe_mins, periods, actual_start_date,
          scenario, trend_multipliers, volatility_cycles, prices, volumes,
          data, table, error, draws, kept, caps, current_vol, heap>>

(***************************************************************************)
(* Bounds of the model.                                                    *)
(***************************************************************************)
MaxPeriods == 3
MaxHashSeed == 2
MaxVolPeriods == 10
MaxOhlcPeriods == 2

(***************************************************************************)
(* Arithmetic helpers.                                                     *)
(***************************************************************************)
None == <<>>
Some(v) == <<v>>
IsNone(o) == o = <<>>
Val(o) == o[1]

Abs(x) == IF x < 0 THEN -x ELSE x
Max2(a, b) == IF a >= b THEN a ELSE b
Min2(a, b) == IF a <= b THEN a ELSE b
Max3(a, b, c) == Max2(a, Max2(b, c))
Min3(a, b, c) == Min2(a, Min2(b, c))

\* floor(a * b / d) for d > 0 without forming a * b
MulDiv(a, b, d) == LET q == a \div d
                       r == a % d
                   IN q * b + (r * b) \div d

\* 1000 * sin(pi * k / n) for n > 0 (Bhaskara's rational approximation)
Sin1000(k, n) ==
    LET t == ((k % (2 * n)) * 1000) \div n
        h == t % 1000
        p == h * (1000 - h)
        v == MulDiv(p * 1000, 16, 5000000 - 4 * p)
    IN IF t >= 1000 THEN -v ELSE v

(***************************************************************************)
(* The shared pseudo-random generator np.random: numpy's legacy            *)
(* RandomState over the Mersenne Twister.  A state is                      *)
(*   [seed |-> s, pos |-> p, gauss |-> g]:                                 *)
(* the generator was last seeded by np.random.seed(s), has produced p      *)
(* doubles since, and holds the spare normal deviate g (<<>> when          *)
(* has_gauss = 0).  random() takes one double; normal() returns the spare  *)
(* deviate when there is one, and otherwise makes a pair by the polar      *)
(* method from the next doubles (two per attempt), returns one deviate     *)
(* and keeps the other.                                                    *)
(*                                                                         *)
(* MT19937[s] is the stream of seed s.  For p doubles produced so far,     *)
(*   u[p + 1]  is the next double,                                         *)
(*   z[p + 1]  the deviate normal() returns when it makes a pair there,    *)
(*   zc[p + 1] the deviate it keeps,                                       *)
(*   k[p + 1]  the number of doubles the pair takes.                       *)
(* The seeds listed are 42 + hash(label) % 1000 for the labels and salts   *)
(* of StringHash, and the seeds of the caller.                             *)
(***************************************************************************)
MT19937 ==
    (42 :> [u |-> << 374, 950, 731, 598, 156, 155, 58, 866, 601, 708, 20, 969,
                832, 212, 181, 183, 304, 524, 431, 291, 611, 139, 292, 366,
                456, 785, 199, 514, 592, 46, 607, 170, 65, 948, 965, 808,
                304, 97, 684, 440, 122, 495, 34, 909, 258, 662, 311, 520,
                546, 184, 969, 775, 939, 894, 597, 921, 88, 195, 45, 325,
                388, 271, 828, 356 >>,
            z |-> << 4967, -11119, 6477, -11119, -2342, 2790, 15792, 2790, 15792,
                -5809, -4695, -5809, -4695, -5809, -4634, -5714, 2420,
                -26125, -17249, 8164, -10128, -4280, -9080, -7033, 14656,
                -6295, 675, 25595, -5444, 1222, -11510, -6003, -6006, -6003,
                -6006, -6003, -6006, 2910, -6017, -10216, -135, -5336, 8225,
                -2295, 8225, -12651, 2089, 27783, -13282, 2186, 7385, 2186,
                7385, 2186, 7385, -10091, -1156, -10091, -1156, -10091,
                -14785, 7737, -4606, -13467 >>,
            zc |-> << -1383, 3189, 15230, 3189, -2341, 10105, 7674, 10105, 7674,
                -5252, 5426, -5252, 5426, -5252, -4657, -9241, -19133, 9504,
                -5623, -15239, 3142, -7424, -14123, -21396, -2258, 5977,
                -14247, 3942, 1109, -5154, 3757, 9474, -2917, 9474, -2917,
                9474, -2917, -6356, 18523, -1618, -10577, -55, -12208, 3893,
                -12208, 10920, -19597, 11936, 1969, 8818, 1714, 8818, 1714,
                8818, 1714, -15833, -3011, -15833, -3011, -15833, -7198,
                -5381, 10571, -8806 >>,
            k |-> << 2, 4, 2, 2, 2, 4, 4, 2, 2, 6, 4, 4, 2, 2, 2, 2, 2, 2, 2, 2,
                2, 2, 2, 2, 2, 2, 2, 2, 2, 2, 2, 6, 6, 4, 4, 2, 2, 2, 2, 2,
                2, 2, 4, 2, 2, 2, 2, 2, 2, 6, 6, 4, 4, 2, 2, 6, 4, 4, 2, 2,
                2, 2, 2, 2 >>])
    @@ (43 :> [u |-> << 115, 609, 133, 240, 327, 859, 666, 541, 29, 733, 394, 802,
                254, 56, 866, 221, 404, 316, 76, 843, 848, 971, 385, 954,
                445, 669, 82, 897, 298, 262, 5, 543, 475, 636, 978, 908,
                910, 525, 104, 180, 953, 411, 865, 672, 628, 275, 896, 206,
                404, 993, 735, 445, 560, 411, 726, 399, 670, 704, 609, 540,
                206, 199, 795, 290 >>,
            z |-> << 2574, -9922, -3785, -7623, 8581, 4061, 4982, -4714, 12629,
                -6703, 12629, -6312, -3464, -4688, -3464, -4688, -16687,
                -5189, 4929, 2082, 4929, -819, 4929, -705, 19351, -5971,
                -10468, -3080, -10468, -14951, 140, -14951, 22304, 1423,
                544, -9597, 544, -9597, -1080, 10405, -1080, 10405, 3949,
                11005, -14079, 5294, -1383, -4312, -3867, 19943, -3867,
                19943, -20471, 15790, -6790, 16572, 12212, 8265, 8281,
                -14319, -5950, 5780, -6559, 9616 >>,
            zc |-> << -9085, 2952, -5349, -11440, -4130, 8781, 20102, 412, -4392,
                14914, -4392, 7764, 4553, -13765, 4553, -13765, -8621,
                -2254, -1243, 2048, -1243, 3369, -1243, 5903, -6184, 2427,
                -8896, 6055, -8896, 26468, -1608, 26468, -3991, 406, 8842,
                612, 8842, 612, 5556, -2510, 5556, -2510, 8372, 14713, 8078,
                -2995, 1872, -13222, 16590, -18061, 16590, -18061, 13993,
                -6173, 15290, -9818, 10150, 15444, 22663, 1950, -5813,
                -5879, 9251, -12927 >>,
            k |-> << 2, 2, 2, 2, 2, 2, 2, 2, 4, 2, 2, 2, 4, 4, 2, 2, 2, 2, 6, 2,
                4, 2, 2, 2, 2, 2, 4, 2, 2, 4, 2, 2, 2, 2, 4, 4, 2, 2, 4, 4,
                2, 2, 2, 2, 2, 2, 2, 2, 4, 4, 2, 2, 2, 2, 2, 2, 2, 2, 2, 2,
                2, 2, 2, 2 >>])
    @@ (58 :> [u |-> << 365, 451, 496, 75, 571, 289, 308, 374, 815, 968, 788, 380,
                162, 547, 779, 300, 652, 296, 32, 948, 152, 278, 574, 553,
                79, 164, 727, 122, 367, 14, 516, 240, 505, 371, 370, 424,
                578, 599, 542, 843, 284, 82, 658, 220, 824, 397, 675, 908,
                683, 941, 971, 577, 989, 267, 558, 12, 748, 881, 19, 321,
                26, 783, 592, 566, 901, 581, 795, 593, 683, 417, 227, 284,
                320, 872, 509, 102, 656, 64, 909, 570, 757, 940, 43, 53,
                711, 548, 661, 340, 402, 609, 967, 83, 144, 416, 732, 128,
                895, 219, 13, 179, 393, 69, 778, 277, 206, 868, 444, 63,
                703, 716, 130, 126, 842, 937, 458, 921, 525, 615, 968, 998,
                788, 127, 551, 10, 896, 329, 806, 712, 68, 632, 560, 312,
                88, 305, 745, 215, 924, 359, 987, 280, 109, 206, 619, 17,
                341, 467, 910, 735, 920, 580, 770, 253, 419, 909, 701, 890,
                687, 825, 758, 336, 549, 898, 519, 660, 221, 857, 737, 347,
                675, 310, 306, 99, 624, 649, 394, 670, 471, 52 >>,
            z |-> << -7602, -2454, -8098, 1291, -17044, -10108, -9691, 11559,
                -5233, -10909, -5233, -10909, 1724, 14834, -7108, 10063,
                -13142, 5576, -4736, 5576, -4736, 5576, 15252, -8056, -6103,
                5152, -6103, -3141, -16132, 112, -16132, 347, -23275,
                -14239, -11055, 17839, 18387, 9655, 12024, -4853, -4445,
                2393, -11584, 5983, -3745, 16384, 6307, 2724, 3935, 1833,
                693, 1833, -2728, 4188, -2728, 4461, 5094, 4461, 14135,
                4461, 14135, 4461, 14135, 8939, 1772, 13502, 4181, 16782,
                -7821, -14352, -7477, -9729, 7849, 287, -9594, 2915, -5257,
                15272, 1458, 15272, 4058, 932, 4058, 932, 4058, 20001,
                -12501, -10378, 16506, 3879, -2578, 15798, -2578, 15798,
                -6148, -3954, -2022, -3954, -6744, -3954, -6744, -8802,
                -7261, -8802, 3816, -1615, -7081, 1624, 10498, -6791, 8093,
                -680, 8093, -680, 8093, 503, 23444, 3702, -3873, 1472,
                -3873, 1472, -2546, 10431, -3027, 10431, 6185, -3549, 1876,
                9218, -18387, -5794, -2630, 10710, -8076, -5795, -2092,
                -5795, -1865, -5795, -1865, 5112, -1447, 8775, -4277, 8775,
                2333, 3405, 1482, 14515, -7534, -5050, 8333, 2665, 6373,
                3273, 9244, 5334, -7477, 6052, 9309, 454, 21087, -11508,
                4960, 4330, -8161, 13226, -11905, -11167, -6161, 2495,
                14909, -11549, 16277, -3454, -6612, -7678 >>,
            zc |-> << -21016, -30389, -75, -7635, 5814, -11122, -14809, -4579,
                12671, -3859, 12671, -3859, -12272, 2511, 9952, -13165,
                9870, -16546, -7438, -16546, -7438, -16546, 21088, 1032,
                3684, -7589, 3684, -8930, 1001, -3368, 1001, -16181, 1008,
                -14167, -18987, -17079, 14499, 22776, 1478, 7738, -2297,
                -6305, 6570, -5151, 11839, -9580, 2709, 6069, 1635, 292,
                4196, 292, 328, -16623, 328, 13645, 3319, 13645, 19780,
                13645, 19780, 13645, 19780, 1476, 8732, 3732, 13205, 8534,
                17391, -4348, -9455, -11666, -3791, 10849, 238, -7416, 1885,
                4168, 8482, 4168, 17837, -1971, 17837, -1971, 17837, 5958,
                12645, -16893, -14722, 911, -10924, -5697, -10924, -5697,
                3843, -11868, 2851, -11868, -1676, -11868, -1676, -6684,
                9077, -6684, -3037, 10716, -901, -3480, 9862, 3991, -797,
                7164, -797, 7164, -797, 8189, 5280, 910, 2996, -10572, 2996,
                -10572, 270, -5801, 7053, -5801, 8923, 1745, -6120, 20228,
                5919, -2639, -5556, -8478, 6978, -3260, 6308, -3260, -2481,
                -3260, -2481, -12505, 360, -694, -20825, -694, 4077, 1905,
                7769, 4304, 8261, -15393, -1646, 5413, 3289, 6804, 5333,
                6717, 11865, -19846, 1162, 9510, 2495, 6650, -3864, 6511,
                12734, -11449, 11027, -10954, -2979, -8005, 12445, 16401,
                -10073, 20339, -427, 2756 >>,
            k |-> << 2, 2, 2, 2, 2, 2, 2, 2, 4, 4, 2, 2, 2, 2, 2, 2, 2, 6, 4, 4,
                2, 2, 2, 2, 4, 2, 2, 2, 4, 2, 2, 2, 2, 2, 2, 2, 2, 2, 2, 2,
                2, 2, 2, 2, 2, 2, 2, 2, 2, 4, 2, 2, 4, 2, 2, 8, 2, 6, 6, 4,
                4, 2, 2, 2, 2, 2, 2, 2, 2, 2, 2, 2, 2, 2, 2, 2, 2, 4, 2, 2,
                6, 4, 4, 2, 2, 2, 2, 2, 2, 2, 4, 4, 2, 2, 2, 6, 2, 4, 4, 2,
                2, 4, 2, 2, 2, 2, 2, 2, 2, 2, 6, 4, 4, 2, 2, 2, 2, 2, 4, 4,
                2, 2, 2, 4, 2, 2, 2, 2, 2, 2, 2, 2, 2, 2, 2, 6, 2, 4, 4, 2,
                2, 2, 2, 4, 2, 2, 2, 2, 2, 2, 2, 2, 2, 2, 2, 2, 2, 2, 2, 2,
                2, 2, 2, 2, 2, 2, 2, 2, 2, 2, 2, 2, 2, 2, 2, 2, 2, 8 >>])
    @@ (60 :> [u |-> << 300, 186, 323, 665, 566, 398, 379, 10, 170, 123, 692, 874,
                337, 992, 131, 500, 286, 220, 502, 636, 635, 80, 581, 839,
                293, 987, 547, 959, 356, 517, 988, 204, 976, 39, 19, 194,
                11, 446, 651, 711, 255, 763, 966, 534, 430, 499, 766, 324,
                163, 618, 639, 785, 927, 838, 962, 552, 29, 143, 471, 682,
                688, 726, 989, 392, 513, 920, 386, 446, 447, 263, 928, 516,
                664, 832, 3, 583, 488, 273, 277, 802, 443, 325, 620, 603,
                493, 711, 592, 476, 414, 756, 26, 396, 506, 742, 492, 842,
                4, 168, 601, 646, 659, 545, 189, 160, 211, 467, 30, 325,
                373, 910, 224, 150, 661, 833, 237, 482, 771, 952, 190, 994,
                632, 183, 975, 576, 339, 298, 738, 560, 348, 819, 564, 451,
                928, 847, 108, 42, 735, 597, 454, 223, 436, 838, 135, 555,
                190, 971, 852, 224, 689, 232, 13, 127, 20, 824, 413, 204,
                133, 437, 204, 685, 636, 209, 703, 550, 354, 192, 476, 568,
                466, 812, 488, 107, 254, 457, 981, 906, 994, 420, 341, 338,
                361, 676, 789, 548, 785, 471, 972, 160 >>,
            z |-> << -9218, -5648, 11640, 7599, -19852, -16417, 7378, 3723, 7378,
                3723, 7378, -3587, 10, -18456, 10, -18456, -9433, 114,
                22813, 13810, -6746, 1509, 11669, -4994, 5609, 271, 5609,
                -1165, 2650, 3073, -287, 20100, -287, 20100, -287, 20100,
                -287, 20100, 13121, -9992, 8398, -24408, 383, -24408, -42,
                15881, -7388, -9312, 3861, 15297, 12080, -4630, 604, -4630,
                604, -4630, 19749, -907, 19749, 11559, 11189, 3058, 8282,
                3058, 8282, -1927, -9972, -19356, -16618, 2511, 292, 20964,
                9813, -3776, -17763, -3776, -17763, -9449, 8612, -2552,
                -19058, 10534, 13963, -1514, 18539, 7049, -6428, -25335,
                14889, 1529, -750, 1529, 17024, -512, 12318, 3545, 16681,
                3545, 16681, 13450, 5727, -13527, -4278, -4398, -1663,
                -4931, 7435, -10769, 7435, -1149, -5342, 4279, 9858, -5021,
                -1071, 15552, -11323, -18392, -11323, -18392, -11323,
                -18392, 616, -18392, -12766, 10489, 4159, -19663, 10643,
                2578, -16175, 7675, 6298, -10446, 6298, -10446, 6298,
                -10446, -15033, -3365, 12021, -1050, 1661, -13423, -4106,
                7171, -4106, 7171, -10601, -3244, -13378, -3244, -13378,
                -3244, -13378, -3826, -1829, -13903, 6384, 10449, -12055,
                6721, 4511, -20496, -11230, -1040, 26353, -12011, 13566,
                -500, -9837, -2955, -2849, 3647, -12684, -18176, -12684,
                -18176, -12684, -12039, 14054, 10653, 2383, 14584, -1481,
                4711, -6328, -4239 >>,
            zc |-> << -5863, -10001, -12417, 18806, 13067, -13852, 3791, -7288,
                3791, -7288, 3791, 8261, -11050, 29, -11050, 29, -7204,
                -15256, 350, 13850, 2181, -7777, 2801, 8184, 576, 2800, 576,
                3723, -22110, 108, -2635, -7028, -2635, -7028, -2635, -7028,
                -2635, -7028, 9434, 8619, -7795, 12272, 5140, 12272, -28132,
                -6, 11194, -4864, -10971, 12947, 5912, 520, 5288, 520, 5288,
                520, -3044, -11533, -3044, 11176, 9321, -24558, 263, -24558,
                263, 7151, -21314, -19676, -3665, -1386, 7814, 2048, 4847,
                26451, -931, 26451, -931, -9614, -6327, 13681, -6173,
                -15238, 16220, 25017, -550, 16107, 24910, -7091, -4957,
                -25059, -3439, -25059, 443, 17021, -262, -11562, 11555,
                -11562, 11555, 12391, 20227, 1968, -3910, -5168, -14636,
                -345, -2287, -14863, -2287, 1712, -4208, -9266, 4779, 6386,
                -16013, -1003, 4743, 8753, 4743, 8753, 4743, 8753, 3842,
                8753, -10141, -8871, 16334, 7896, -5026, 12815, 21681, -861,
                15144, 22439, 15144, 22439, 15144, 22439, -2484, -14697,
                -2248, 973, -10896, 2415, 5242, -10444, 5242, -10444, 7503,
                12197, -3910, 12197, -3910, 12197, -3910, -3082, -10727,
                -2943, -10179, 14197, 5654, -9587, 18074, 7181, -5299,
                -13863, -8864, 24649, -1453, 13708, -285, -4729, -16465,
                -321, -12471, -9120, -12471, -9120, -12471, -14001, -11097,
                6470, 14390, 2453, 14836, -284, -7016, -4841 >>,
            k |-> << 2, 2, 2, 2, 2, 2, 6, 4, 4, 2, 2, 2, 4, 4, 2, 2, 2, 2, 2, 2,
                2, 2, 2, 2, 4, 2, 2, 2, 2, 2, 8, 8, 6, 6, 4, 4, 2, 2, 2, 2,
                2, 4, 2, 2, 2, 2, 2, 2, 2, 2, 2, 6, 4, 4, 2, 2, 4, 2, 2, 2,
                2, 4, 4, 2, 2, 2, 2, 2, 2, 2, 2, 2, 2, 4, 4, 2, 2, 2, 2, 2,
                2, 2, 2, 2, 2, 2, 2, 2, 2, 4, 2, 2, 2, 2, 2, 4, 4, 2, 2, 2,
                2, 2, 2, 2, 2, 2, 4, 2, 2, 2, 2, 2, 2, 2, 2, 2, 6, 8, 4, 6,
                2, 4, 2, 2, 2, 2, 2, 2, 2, 2, 2, 2, 6, 6, 4, 4, 2, 2, 2, 2,
                2, 2, 2, 2, 4, 4, 2, 2, 2, 6, 6, 4, 4, 2, 2, 2, 2, 2, 2, 2,
                2, 2, 2, 2, 2, 2, 2, 2, 2, 2, 2, 2, 2, 2, 6, 4, 4, 2, 2, 2,
                2, 2, 2, 2, 2, 2, 4, 2 >>])
    @@ (64 :> [u |-> << 379, 567, 595, 449, 457, 311, 313, 294, 530, 396, 718, 548,
                582, 167, 29, 208, 22, 634, 224, 398, 619, 1, 35, 376, 216,
                404, 865, 255, 601, 226, 206, 175, 888, 671, 375, 17, 352,
                306, 423, 394, 569, 575, 623, 249, 130, 245, 989, 956, 711,
                767, 86, 902, 537, 98, 812, 530, 695, 331, 965, 250, 241,
                96, 612, 517, 465, 844, 439, 843, 64, 843, 328, 432, 262,
                650, 78, 107, 285, 45, 960, 16, 603, 673, 941, 710, 325,
                101, 472, 307, 557, 330, 324, 979, 796, 988, 79, 458, 866,
                479, 807, 23, 602, 77, 544, 49, 739, 503, 47, 22, 826, 375,
                7, 50, 822, 968, 526, 161, 475, 487, 151, 224, 303, 275,
                396, 708, 832, 635, 650, 15, 344, 727, 628, 377, 62, 337,
                160, 722, 173, 842, 736, 332, 130, 865, 845, 374, 532, 457,
                103, 871, 606, 73, 642, 723, 369, 202, 9, 402, 126, 363,
                722, 325, 514, 276, 250, 723, 253, 373, 907, 246, 512, 771,
                117, 631, 231, 246, 932, 387, 86, 3, 403, 996, 597, 756,
                573, 121 >>,
            z |-> << 11003, 19741, -11502, -18519, -19014, -11212, -11356, 2783,
                -23720, 15388, 3848, 22229, -11951, -12562, 483, -12562,
                483, -12562, -5050, 16397, -1026, -12718, -1026, -12718,
                -4561, 10229, -3969, 6120, -13779, -6874, -5413, -10867,
                3262, -10867, -1300, -6873, -13499, -6873, -18764, 12806,
                18573, 19030, -13705, -5602, -3746, -2109, 9701, -2109,
                9701, -2109, -9258, 853, -9258, 19057, 1305, 19057, -10636,
                1889, -3498, -8257, -3498, 2264, 3823, -28407, 12075, -2059,
                11814, -4574, -7374, -4574, -7374, -16155, 8138, -6251,
                16353, -3203, 16353, 428, 16353, 428, 16353, 4260, 1275,
                -9939, -6840, -655, -19214, 5422, -19206, -12178, -799,
                10949, -799, 10949, -799, 10949, -630, 13891, -7260, 668,
                -7260, 839, -6256, -6288, 216, -6288, -4262, 282, -4262,
                282, -12391, 282, -12391, 282, -12391, -885, -15518, -11990,
                -4264, -7268, -10825, -7006, 15670, 8355, 4357, 14120,
                12726, 7948, 12726, 7948, -13996, -5976, -1831, -9599, 4989,
                -8002, 3389, 4875, -8521, -8341, -3782, 5823, -3782, 5823,
                -23811, -9482, -6989, 2787, -6989, 2074, 13429, -8174,
                -12002, -9823, -3279, -9823, -3279, 13743, -9308, 1748,
                -17861, -9410, 8444, -9467, -7034, 7598, -2139, 820, 15586,
                -4084, 2987, -12870, -7559, -7563, -1691, -7563, 14470,
                4347, 14470, 4347, 14470, 4347, -10031, -1350 >>,
            zc |-> << -19826, 13856, 21929, -21605, -4339, -11313, -10333, -18552,
                7033, -7300, 17505, 13025, 2951, 6139, -1713, 6139, -1713,
                6139, -13685, -13953, -3866, -5526, -3866, -5526, -13592,
                -2660, 5946, -14739, 5118, -6387, -4909, 15016, 7387, 15016,
                -335, -17392, -10262, -17392, -13583, -19649, 17050, 11605,
                6752, -3799, -5423, 1366, 7669, 1366, 7669, 1366, 866, 9165,
                866, 2936, 13577, 2936, 12340, -682, -2244, -7978, -2244,
                -8136, 24046, 14613, -1216, 11793, -2066, 9187, -18573,
                9187, -18573, -4629, -12813, 2233, 9766, -5862, 9766, -2003,
                9766, -2003, 9766, 1672, 2680, 11968, -2994, -9457, -2748,
                -18290, 6478, -11768, -8163, -1229, -8163, -1229, -8163,
                -1229, 11084, -942, 1759, -3110, 1759, -8021, 613, 42,
                17135, 42, 11191, 5025, 11191, 5025, 961, 5025, 961, 5025,
                961, -12404, -30408, -424, -5403, -10191, -9441, -15231,
                -7784, 5239, 10664, 12695, -8732, 14015, -8732, 14015,
                14772, -1669, -4931, -4586, -7617, 5451, -3237, 7046, 12058,
                -3779, 10447, -22531, 10447, -22531, 18110, -1017, 1743,
                9749, 1743, -6202, 8544, 13992, -5269, -2575, -8980, -2575,
                -8980, -8421, 11882, -20413, 1191, -8444, -9436, 8591,
                -13682, -2358, 3444, -16462, 723, 2898, -8680, 6318, -8001,
                -2058, 6493, -2058, 5512, 15242, 5512, 15242, 5512, 15242,
                1941, -10321 >>,
            k |-> << 2, 2, 2, 2, 2, 2, 2, 2, 2, 2, 2, 2, 2, 6, 4, 4, 2, 2, 2, 2,
                4, 4, 2, 2, 2, 2, 2, 2, 2, 2, 2, 4, 2, 2, 2, 4, 2, 2, 2, 2,
                2, 2, 2, 2, 2, 6, 4, 4, 2, 2, 4, 2, 2, 4, 2, 2, 2, 2, 4, 2,
                2, 2, 2, 2, 2, 2, 2, 4, 4, 2, 2, 2, 2, 2, 8, 2, 6, 4, 4, 2,
                2, 2, 2, 2, 2, 2, 2, 2, 2, 2, 6, 6, 4, 4, 2, 2, 2, 2, 4, 2,
                2, 2, 2, 4, 2, 2, 4, 8, 2, 6, 6, 4, 4, 2, 2, 2, 2, 2, 2, 2,
                2, 2, 2, 2, 2, 2, 4, 4, 2, 2, 2, 2, 2, 2, 2, 2, 2, 2, 2, 2,
                4, 4, 2, 2, 2, 2, 4, 2, 2, 2, 2, 2, 2, 4, 4, 2, 2, 2, 2, 2,
                2, 2, 2, 2, 2, 2, 2, 2, 2, 2, 2, 2, 2, 4, 2, 2, 6, 6, 4, 4,
                2, 2, 2, 2 >>])
    @@ (68 :> [u |-> << 259, 43, 582, 112, 610, 296, 807, 94, 700, 932, 842, 799,
                972, 536, 507, 954, 775, 590, 168, 183, 31, 229, 529, 691,
                289, 90, 985, 773, 548, 158, 750, 524, 805, 716, 15, 513,
                673, 684, 486, 997, 359, 366, 135, 330, 170, 840, 605, 455,
                702, 991, 636, 18, 139, 645, 4, 72, 568, 669, 847, 254, 736,
                997, 24, 994, 100, 796, 74, 282, 85, 909, 722, 784, 163,
                866, 147, 363, 991, 127, 549, 683, 624, 418, 15, 374, 643,
                56, 862, 398 >>,
            z |-> << -9445, 967, -9445, 2553, -15404, 9206, 3948, 2817, 3948,
                6349, 4046, 6349, 350, 6349, 6149, -11830, 4604, -11830,
                -4087, 1716, 19216, 1716, 19216, -11087, -5101, 2698,
                -12051, 2698, -12051, 4811, 1626, 13932, 6208, 20513, 97,
                20513, 12041, -1475, 1231, -9464, -13397, -9464, -3955,
                -9719, 3327, 3445, -9458, 18328, 3754, 1194, 3754, 1194,
                3754, 1194, 18615, 1194, 18615, 9120, -4641, 8608, 762,
                -4546, 762, -4546, 762, -4546, -1945, -4546, 8984, 2541,
                8984, -5432, 1072, 1410, -3815, 1410, 18979, 1410, 18979,
                10088, -12116, -2620, -5043, 14779, -5043, 15723, -2881,
                15723 >>,
            zc |-> << 1999, -5385, 1999, -8930, 8380, -6101, 1825, -5704, 1825,
                31675, 4615, 31675, 4590, 31675, 98, 3235, 14016, 3235,
                -4275, -15509, 2995, -15509, 2995, 10130, -2614, 15108,
                1720, 15108, 1720, -6565, 16492, 1125, 8766, 1563, -3573,
                1563, 11292, 19885, -34, -3473, -14112, -3473, -8479, -5006,
                -3222, 11115, 22358, -4042, -9311, -7481, -9311, -7481,
                -9311, -7481, 7505, -7481, 7505, 4446, 6581, -8923, -1027,
                -2390, -1027, -2390, -1027, -2390, -3797, -2390, 7022, 4674,
                7022, 4597, -983, -10616, -9861, -10616, 5101, -10616, 5101,
                14943, 18398, -442, 1634, -12919, 1634, -15915, 10259,
                -15915 >>,
            k |-> << 4, 2, 2, 2, 2, 2, 4, 2, 2, 6, 2, 4, 2, 2, 2, 4, 2, 2, 2, 4,
                4, 2, 2, 2, 2, 4, 4, 2, 2, 2, 2, 2, 2, 4, 2, 2, 2, 2, 2, 4,
                2, 2, 2, 2, 2, 2, 2, 2, 6, 8, 4, 6, 2, 4, 4, 2, 2, 2, 2, 2,
                6, 8, 4, 6, 2, 4, 2, 2, 4, 2, 2, 2, 2, 6, 2, 4, 4, 2, 2, 2,
                2, 2, 4, 2, 2, 4, 2, 2 >>])
    @@ (74 :> [u |-> << 202, 784, 860, 327, 248, 810, 713, 661, 710, 112, 869, 476,
                80, 148, 324, 6, 716, 65, 423, 804, 29, 525, 787, 811, 341,
                399, 862, 2, 168, 383, 599, 130, 34, 701, 531, 748, 152, 68,
                488, 534, 577, 664, 442, 137, 203, 219, 782, 707, 523, 979,
                266, 728, 372, 483, 775, 948, 666, 734, 645, 19, 913, 384,
                563, 57, 629, 86, 164, 200, 444, 933, 2, 226, 588, 634, 117,
                296, 677, 337, 699, 53, 80, 937 >>,
            z |-> << 6083, 4575, -4089, -11585, 7375, 6031, 9537, 12641, -6247,
                -8316, -696, -8316, -3016, -4400, -3016, -1216, -3016,
                -1216, 13224, 14772, 266, 14772, 5970, -5416, -10588, 10292,
                -3947, 14165, -3947, 14165, -9977, 2933, 16496, 2933, 16496,
                -6441, 30604, -210, 30604, 24336, 18185, -6807, -10992,
                -3252, -6202, 6791, 7057, 2140, 4073, -7864, 9146, -7864,
                -2946, 15380, 12123, 1454, 12123, 8144, -2106, 11134, -2106,
                11134, -6625, 1599, -7241, -2570, -4334, -2570, 7273, 4568,
                17826, 4568, 17826, -8630, -3542, 10296, -11557, 12661,
                -2734, -9998, 560, -9998 >>,
            zc |-> << -6367, 3611, 8525, -7976, -5968, 8770, 12617, 9688, 3397,
                -467, 10917, -467, 1504, -8782, 1504, -6947, 1504, -6947,
                -3303, 1325, -4863, 1325, 5500, 10654, -16732, -2850,
                -11228, -16492, -11228, -16492, 2699, 18688, 2104, 18688,
                2104, 4599, -10542, -7643, -10542, 10766, 8631, 19398,
                -1746, -3976, -6564, -6732, 9592, 18544, 204, 14036, -9333,
                14036, -23092, -911, 8618, 3915, 8618, 13086, 7545, -20250,
                7545, -20250, 949, -5464, 2270, -13836, -4852, -13836, -933,
                -14179, 11707, -14179, 11707, 3021, -6653, -11843, 12638,
                -10279, 1223, 29088, 5772, 29088 >>,
            k |-> << 2, 2, 2, 2, 2, 2, 2, 2, 2, 4, 2, 2, 6, 2, 4, 4, 2, 2, 2, 4,
                2, 2, 2, 2, 2, 2, 4, 4, 2, 2, 2, 4, 4, 2, 2, 2, 4, 2, 2, 2,
                2, 2, 2, 2, 2, 2, 2, 2, 2, 4, 2, 2, 2, 2, 4, 2, 2, 2, 4, 4,
                2, 2, 2, 2, 2, 4, 2, 2, 2, 4, 4, 2, 2, 2, 2, 2, 2, 2, 2, 6,
                4, 4 >>])
    @@ (80 :> [u |-> << 521, 699, 269, 674, 908, 685, 211, 317, 267, 120, 996, 80,
                284, 535, 845, 200, 812, 372, 809, 11, 668, 290, 322, 417,
                486, 942, 732, 975, 578, 514, 445, 865, 621, 529, 66, 475,
                234, 529, 102, 150, 948, 974, 76, 821, 91, 714, 599, 171,
                714, 260, 882, 426, 911, 29, 737, 686, 951, 622, 969, 267,
                826, 969, 654, 575, 915, 915, 5, 591, 15, 210, 724, 143,
                697, 391, 589, 902, 447, 900, 555, 849, 466, 195, 304, 596,
                873, 966, 226, 782, 283, 753, 368, 13, 822, 130, 408, 160 >>,
            z |-> << 18999, -10644, 8952, 6349, 2735, -10345, -6614, -11394,
                -5811, -2208, 2941, -2208, 2941, 11997, -3895, 5479, -4739,
                11722, -12298, -10007, -12298, -10007, -8161, -4365, 6962,
                157, 5018, 624, 5018, -28457, 10861, 3216, 5528, -7479,
                -418, -15802, 1744, -9493, 2632, 7253, 2632, 7253, 2632,
                7253, 2632, 7253, -11761, 5398, -9878, 5406, -1875, 8331,
                8755, 2767, 8755, 2767, 1340, 3319, 9073, 7652, 9073, 702,
                9073, 8064, -7019, -2355, -7019, -2355, -7019, 6837, -7019,
                4388, -8582, 14415, 8544, -1184, 9178, 1269, 11616, -1149,
                -13921, -6151, 8066, 9862, 7044, -7098, 7044, -7098, 9674,
                -6900, -2141, -2507, -2141, -2507, -11481, 4829 >>,
            zc |-> << 2088, 9223, -11807, 2715, 6029, 6642, -10436, -8947, -3564,
                -4301, -17970, -4301, -17970, 1223, 4491, -5266, 11638,
                -4810, 9867, -11825, 9867, -11825, -17582, -26406, -214,
                300, 26584, 3767, 26584, 7708, -1632, 9686, 22895, 506,
                -7504, -1437, -15746, 702, -5005, 15705, -5005, 15705,
                -5005, 15705, -5005, 15705, 3556, -8241, 8851, -3389, 9813,
                -1480, 11166, 1142, 11166, 1142, 4943, 866, 18584, -5458,
                18584, 2136, 18584, 1460, 4418, 445, 4418, 445, 4418, -8824,
                4418, -7922, 15676, -17310, 1908, 9032, -1212, 9151, 1845,
                11838, -1551, -9583, -16352, 2543, -6823, 9250, -6823, 9250,
                -8266, 13269, 1871, -10168, 1871, -10168, -3080, -6324 >>,
            k |-> << 2, 2, 2, 2, 2, 2, 2, 2, 2, 4, 4, 2, 2, 2, 2, 2, 2, 2, 4, 4,
                2, 2, 2, 2, 2, 2, 4, 2, 2, 2, 2, 2, 2, 2, 2, 2, 2, 2, 8, 8,
                6, 6, 4, 4, 2, 2, 2, 2, 2, 2, 2, 2, 4, 4, 2, 2, 2, 2, 6, 2,
                4, 2, 2, 2, 8, 4, 6, 2, 4, 2, 2, 2, 2, 2, 2, 2, 2, 2, 2, 2,
                2, 2, 2, 2, 4, 4, 2, 2, 2, 2, 4, 4, 2, 2, 2, 2 >>])
    @@ (86 :> [u |-> << 202, 207, 152, 754, 227, 664, 589, 421, 856, 486, 250, 842,
                799, 772, 819, 57, 306, 178, 397, 889, 287, 679, 856, 276,
                518, 578, 161, 738, 601, 49, 345, 670, 203, 138, 437, 297,
                997, 898, 763, 210, 564, 732, 948, 490, 830, 305, 248, 477,
                765, 787, 646, 299, 848, 69, 328, 658, 217, 279, 634, 989,
                110, 152, 852, 67, 614, 337, 410, 823, 807, 504, 995, 217,
                896, 195, 206, 284, 770, 308, 272, 426, 132, 433, 133, 70 >>,
            z |-> << -5963, -4730, 4568, -7913, 6935, 9481, -15824, 10979, -433,
                -16628, 6573, 4040, 6170, 6355, -9193, -1484, -9193, -3797,
                9010, -3316, 9886, 8462, -4400, 1459, 26316, -11744, 4995,
                6379, -5497, -1434, 13089, -10677, -4005, -1889, -17712,
                2360, -7304, 2360, -7304, 3150, 16453, 12854, -133, 12854,
                -5219, -10661, -1497, 15792, 7260, 5997, -13535, 8113,
                11819, -2056, 11819, -11494, -7083, 8459, -15693, 1409,
                -15693, 1409, -15693, 1700, -15693, -9600, 12152, 4634, 206,
                1869, -6649, 2646, -6649, -5662, -6649, 9503, -7433, -11017,
                -5263, -10514, -1919, -10662, -22103, 551 >>,
            zc |-> << -6054, -3988, -6232, 7391, -11521, 17436, 18019, -2416,
                11635, -882, -4792, 4614, 6790, 5416, -5523, -3402, -5523,
                -11959, -2362, 6077, -11694, 4259, 7019, -17840, 6138, 2720,
                -7101, 14906, 1244, -4195, -11808, 6148, -3284, -10966,
                -5445, 3560, 6666, 3560, 6666, -14119, 4567, -354, 6567,
                -354, 8888, -8227, -16458, -1359, 6711, 11807, 9863, -4672,
                -12842, -5145, -12842, 6422, -9089, -13883, 11048, -1388,
                11048, -1388, 11048, -6420, 11048, -17425, -3366, 4881,
                13946, 17, -9068, -1883, -9068, -5870, -9068, -7586, 10466,
                -9281, -16352, -2093, -10610, -1935, 5019, -7724 >>,
            k |-> << 2, 2, 2, 2, 2, 2, 2, 2, 2, 2, 2, 2, 2, 2, 4, 2, 2, 2, 2, 2,
                2, 2, 2, 2, 2, 2, 2, 2, 2, 2, 2, 2, 2, 2, 2, 4, 4, 2, 2, 2,
                2, 4, 2, 2, 2, 2, 2, 2, 2, 2, 2, 2, 4, 2, 2, 2, 2, 2, 8, 4,
                6, 2, 4, 2, 2, 2, 2, 2, 2, 2, 6, 2, 4, 2, 2, 2, 2, 2, 2, 2,
                2, 2, 4, 2 >>])
    @@ (89 :> [u |-> << 499, 255, 258, 96, 564, 15, 152, 480, 99, 416, 913, 350,
                114, 712, 101, 405, 665, 138, 830, 123, 587, 63, 497, 928,
                806, 198, 345, 534, 978, 503, 347, 212, 177, 104, 187, 40,
                239, 546, 207, 992, 317, 415, 940, 173, 575, 318, 408, 621,
                790, 577, 288, 65, 258, 523, 533, 615, 56, 259, 956, 96,
                646, 59, 647, 860, 572, 922, 356, 988, 200, 230, 721, 706,
                421, 728, 273, 421, 9, 306, 791, 304, 655, 673, 353, 917,
                523, 737, 189, 87, 233, 999, 237, 890, 936, 755, 972, 690,
                43, 79, 680, 285, 279, 904, 905, 419, 366, 223, 447, 431,
                122, 295, 804, 990, 240, 319, 631, 593, 868, 424, 105, 516,
                863, 379, 345, 776, 341, 904, 503, 308, 843, 973, 285, 812,
                30, 617, 977, 47, 825, 655, 988, 215, 540, 922, 317, 921,
                605, 674, 942, 219, 34, 640, 145, 984, 349, 475, 457, 236,
                489, 162, 409, 808, 114, 219, 12, 59, 162, 628, 46, 880,
                625, 182, 470, 494, 103, 677, 246, 527, 286, 906, 25, 142,
                792, 945, 955, 120, 299, 414, 954, 169, 231, 372 >>,
            z |-> << -16937, -8622, -4259, 1417, -3058, -9404, -684, -9404,
                -1825, 8081, -2432, -8139, 3449, -5646, -2065, 17071, -8701,
                1930, -6653, 2298, -6653, -49, 7862, -5691, -5466, -5691,
                4695, 4046, 27, -21785, -11584, -5716, 2797, -14310, 2797,
                -14310, 2797, -14310, -8023, 6465, -8023, 6465, -17826,
                2860, -17826, -8524, 17427, 12561, 3698, -16768, -3346,
                -765, 1638, 25980, 22921, -5728, -5170, 2655, -5170, 2655,
                -5170, 1721, 9272, 2203, 7729, -2169, -6225, 7616, -6225,
                7616, 9670, -6410, 16121, -9329, -5608, -1518, -6634, 9973,
                -6634, 10409, 12983, -11498, 6611, 485, 17097, -7866, 4094,
                -1474, 4094, -1910, 4094, -1910, -11665, -1910, -11665,
                -1910, -11665, 2357, -11665, -10013, 5018, -18472, -1700,
                -18472, -12599, -2811, -21125, -10134, -3723, 9222, -7715,
                10582, -7715, 10582, 12348, 10157, -2154, -9201, 404, 11246,
                -3246, -15246, 11801, -6696, 6973, 72, -19598, 8559, 8684,
                2551, 8684, 2551, 883, 2551, 4920, 2125, 4920, 2125, 8057,
                2125, 8057, -2284, 5303, 1809, 16215, 4120, 970, -9685, 970,
                -9685, -3539, -26277, -3539, -26277, -15632, -639, -12531,
                -3109, 12737, -1752, -2581, -4688, 4052, -4688, 4052, -4688,
                -11486, 2959, -11486, -1252, -6190, -9648, 3076, -11338,
                1773, -18206, 5171, 3559, -7151, 3559, -7151, -3653, -7151,
                -3653, -7151, 5467, -6205, -5049, -6205, -9183 >>,
            zc |-> << -21, -8699, -2556, -8898, 405, -464, -12022, -464, -8796,
                -1622, 6740, -3152, -6253, 3015, -8716, -9728, 3981, -2113,
                1337, -9864, 1337, -7345, -53, -11094, 5546, -11094, -20912,
                294, 4184, 435, -6153, -5090, -15729, 2264, -15729, 2264,
                -15729, 2264, -17318, -1241, -17318, -1241, 7414, -12337,
                7414, -16936, -13130, 5259, 13791, 6177, -1627, -1377,
                -16937, 18086, 6642, 1494, 1719, -7322, 1719, -7322, 1719,
                -5146, 3794, 10883, 1334, 6395, -6911, -9280, -6911, -9280,
                10357, 16901, -5515, 9425, -16201, -243, 9906, -6618, 9906,
                -13015, 11700, 13555, -2327, 8461, 1718, 6022, -2756, -2285,
                -2756, 796, -2756, 796, 9814, 796, 9814, 796, 9814, -5500,
                9814, -9712, -2737, -11203, 8542, -11203, -6072, -14917,
                -16058, -1839, -6863, -6192, -11126, -14536, -11126, -14536,
                17344, 2575, 10454, -1772, -9725, 506, 9782, -11907, -6607,
                11636, -2740, 9210, 325, -4765, -5943, 629, -5943, 629,
                -3522, 629, 10329, -14742, 10329, -14742, 781, -14742, 781,
                5273, -2299, 7244, 9788, 1624, -3203, 3854, -3203, 3854,
                -21478, -15404, -21478, -15404, -2513, -15971, -392, -11566,
                -3740, 1404, -3545, 1331, -10640, 1331, -10640, 1331, 4548,
                8951, 4548, -13358, -32918, -136, -6859, 7937, -16304, 2353,
                -2717, -4358, -16766, -4358, -16766, -6915, -16766, -6915,
                -16766, -1027, -13013, -6219, -13013, -3145 >>,
            k |-> << 2, 2, 2, 2, 2, 4, 2, 2, 2, 2, 2, 2, 2, 2, 2, 2, 2, 2, 4, 2,
                2, 2, 2, 4, 2, 2, 2, 2, 2, 2, 2, 2, 6, 6, 4, 4, 2, 2, 4, 4,
                2, 2, 4, 2, 2, 2, 2, 2, 2, 2, 2, 2, 2, 2, 2, 2, 6, 4, 4, 2,
                2, 2, 2, 2, 2, 2, 4, 4, 2, 2, 2, 2, 2, 2, 2, 2, 4, 2, 2, 2,
                2, 2, 2, 2, 2, 2, 6, 2, 4, 8, 2, 6, 8, 4, 6, 2, 4, 2, 2, 2,
                2, 4, 2, 2, 2, 2, 2, 2, 2, 2, 4, 4, 2, 2, 2, 2, 2, 2, 2, 2,
                2, 2, 2, 2, 2, 2, 2, 2, 4, 6, 2, 4, 2, 2, 4, 6, 2, 4, 4, 2,
                2, 2, 2, 2, 2, 2, 4, 4, 2, 2, 4, 4, 2, 2, 2, 2, 2, 2, 2, 2,
                2, 6, 4, 4, 2, 2, 4, 2, 2, 2, 2, 2, 2, 2, 2, 2, 2, 4, 8, 2,
                6, 4, 4, 2, 2, 2, 4, 2, 2, 2 >>])
    @@ (90 :> [u |-> << 153, 157, 985, 904, 186, 267, 334, 644, 251, 635, 579, 618,
                367, 258, 194, 552, 825, 503, 687, 759, 642, 385, 80, 807,
                811, 50, 594, 968, 986, 819, 689, 623, 599, 681, 838, 460,
                547, 956, 283, 484, 813, 606, 635, 416, 781, 304, 759, 399,
                753, 602, 441, 595, 917, 902, 581, 932, 690, 958, 37, 462,
                42, 968, 636, 87, 819, 127, 663, 893, 145, 499, 477, 336,
                65, 536, 639, 288, 107, 559, 142, 187 >>,
            z |-> << -2245, -8704, -5914, -8704, -5914, -8704, 11901, -12857,
                7210, 10941, 18569, -15129, -13543, -7828, 2341, 12735, 139,
                19799, 10821, 6962, -12604, -7177, 4192, 5193, 4192, 1202,
                4192, 5555, 9693, 5555, 9693, 13455, 16484, 9041, -1450,
                22128, 5819, 13646, -1321, 13646, 4149, 16197, -11237,
                14005, -7023, 10473, -5505, 14489, 5817, -11937, 20851,
                7676, 7030, 1754, 7030, 1920, 1491, -5831, -444, -5831,
                -7144, 889, -7144, 3645, -2071, 3645, 7372, -35277, -9,
                -35277, -20854, -5066, 621, 21551, -13755, -5954, 1436,
                -11187, -2982, -4549 >>,
            zc |-> << -2275, -12183, -7992, -12183, -7992, -12183, -13659, 7478,
                -13256, 18538, 12472, 13594, -7405, -6194, -13622, 2054,
                13096, 364, 7819, 12698, 15597, -1966, 844, 5126, 844,
                -5729, 844, 9355, 14934, 9355, 14934, 16710, 9008, 4847,
                12284, -18536, 609, -682, -18246, -682, 12164, 12800, 18237,
                -4147, 10090, -7896, 14284, -5720, 14407, 20862, -12768,
                1760, 1318, 8705, 1318, 4369, 617, -479, -5457, -479, 2364,
                3051, 2364, -8293, 1773, -8293, 3070, -414, -11707, -414,
                -2836, -1907, -7348, 5669, 9095, -3203, -9485, 1861, -3411,
                -4339 >>,
            k |-> << 2, 6, 4, 4, 2, 2, 2, 2, 2, 2, 2, 2, 2, 2, 2, 2, 2, 2, 2, 2,
                2, 2, 6, 2, 4, 2, 2, 4, 4, 2, 2, 2, 2, 2, 2, 2, 2, 4, 2, 2,
                2, 2, 2, 2, 2, 2, 2, 2, 2, 2, 2, 2, 4, 2, 2, 2, 2, 4, 2, 2,
                4, 2, 2, 4, 2, 2, 2, 4, 2, 2, 2, 2, 2, 2, 2, 2, 2, 2, 2, 2 >>])
    @@ (97 :> [u |-> << 836, 970, 447, 284, 771, 298, 976, 929, 204, 345, 212, 298,
                343, 909, 135, 194, 160, 112, 415, 301, 136, 765, 602, 616,
                666, 740, 405, 174, 172, 329, 637, 940, 268, 85, 996, 6,
                936, 362, 821, 126, 416, 866, 186, 664, 497, 167, 917, 263,
                757, 882, 252, 856, 88, 439, 912, 999, 949, 525, 629, 267,
                323, 503, 94, 50, 355, 195, 88, 904, 489, 810, 100, 444,
                379, 625, 227, 112, 337, 537 >>,
            z |-> << -17512, -524, -17512, 9489, -7464, -11490, -5911, -11490,
                -5911, -11490, -6819, -10079, 6754, -4497, -2891, -4497,
                -16851, -2053, -16851, -7618, 3829, 5412, 16248, 15524,
                12022, -5920, -11990, -4012, -5083, 11412, 5379, -562,
                -3928, 11024, -1784, 11024, -1784, 11024, -1894, -2264,
                10427, -2474, 5450, -361, -12777, 8809, -1990, 8809, 4739,
                -3330, 6193, 8443, -1258, 8443, 364, 22638, 364, 22638,
                -13861, -8886, 401, -9164, -11352, -1457, -11352, -233,
                13798, -233, 13798, -20928, -1278, -20928, 14831, -12963,
                -3786, -3217, 4776, -14738 >>,
            zc |-> << -4296, 4665, -4296, -7537, 10068, -6187, -11273, -6187,
                -11273, -6187, -9751, -12966, -2576, -4047, -3452, -4047,
                -7199, -9383, -7199, -4164, -5243, 14008, 14257, 10877,
                8325, 15120, -3476, -3985, -9772, -14150, 1676, 1068, -2195,
                -4704, 5684, -4704, 5684, -4704, 1630, -10109, -2379, 2887,
                -10400, 21087, -108, -8088, 3515, -8088, 3195, 5139, -4306,
                -1248, -8494, -1248, 6494, 4387, 6494, 4387, 7753, -11676,
                -20388, 79, -5369, -4546, -5369, 9195, -456, 9195, -456,
                -9625, -9201, -9625, -14192, 5991, -2662, -7691, -20418,
                1960 >>,
            k |-> << 4, 2, 2, 2, 2, 6, 4, 4, 2, 2, 2, 2, 2, 4, 2, 2, 4, 2, 2, 2,
                2, 2, 2, 2, 2, 2, 2, 2, 2, 2, 2, 2, 2, 6, 4, 4, 2, 2, 2, 2,
                2, 2, 2, 2, 2, 4, 2, 2, 2, 2, 2, 4, 2, 2, 4, 4, 2, 2, 2, 2,
                2, 2, 4, 2, 2, 4, 4, 2, 2, 4, 2, 2, 2, 2, 2, 2, 2, 2 >>])
    @@ (108 :> [u |-> << 233, 34, 580, 129, 686, 683, 873, 126, 589, 52, 322, 455,
                904, 541, 36, 697, 993, 199, 641, 741, 287, 96, 662, 141,
                643, 198, 630, 655, 716, 526, 7, 41, 277, 924, 304, 937,
                885, 460, 443, 932, 635, 609, 511, 195, 496, 96, 805, 787,
                733, 17, 244, 155, 802, 433, 361, 717, 647, 662, 559, 726,
                940, 980, 671, 656, 148, 173, 128, 432, 784, 354, 350, 609,
                68, 986, 387, 69, 863, 667, 117, 634 >>,
            z |-> << -10269, 807, -10269, 3874, 11304, 7698, -5927, 2406, -5927,
                -1436, -4844, 8998, 921, -5375, 13145, 5465, 13145, 5465,
                13145, -8781, -5401, 2800, -8893, 3781, -11448, 5134, 14541,
                12904, 2212, -2373, 3650, -2179, 3650, -2179, 3773, -23206,
                -1017, -23206, 7340, 1879, 12903, 2476, -14054, -141, -9266,
                6926, 5759, 6926, -6308, 3881, -6308, 3881, -2980, -19567,
                13739, 9008, 13431, 7124, 16861, 1722, 11840, -9330, 11840,
                -9330, -2759, -1610, -1894, 14242, -6074, -13419, 11744,
                -6613, -6597, -215, -6597, -7756, 3958, -7756, 3034, 11913 >>,
            zc |-> << 2217, -4692, 2217, -7714, 11462, 3789, 1188, -10008, 1188,
                -3614, -19449, -984, 9022, 480, 7711, -11584, 7711, -11584,
                7711, 9992, -2841, -6928, 4042, -9425, 5454, -11879, 12240,
                9228, 18066, 128, -1915, 4732, -1915, 4732, -1685, -15942,
                10049, -15942, -965, 5997, 15987, 24494, 510, -14071, -70,
                8520, 6126, 8520, -4669, -4418, -4669, -4418, 13506, -9449,
                -8739, 13273, 12226, 19349, 4452, 883, 12906, 4164, 12906,
                4164, -2973, -1416, -10447, -3364, 11913, -13032, -16112,
                1671, -1720, 930, -1720, 3401, 8566, 3401, -8622, 5407 >>,
            k |-> << 4, 2, 2, 2, 2, 2, 4, 2, 2, 2, 2, 2, 2, 2, 6, 4, 4, 2, 2, 2,
                2, 2, 2, 2, 2, 2, 2, 2, 2, 2, 4, 4, 2, 2, 2, 4, 2, 2, 2, 2,
                2, 2, 2, 2, 2, 4, 2, 2, 4, 4, 2, 2, 2, 2, 2, 2, 2, 2, 2, 2,
                4, 4, 2, 2, 2, 2, 2, 2, 2, 2, 2, 2, 4, 2, 2, 4, 2, 2, 2, 2 >>])
    @@ (110 :> [u |-> << 116, 658, 375, 612, 679, 682, 955, 637, 512, 86, 387, 290,
                135, 10, 412, 492, 21, 559, 77, 407, 314, 770, 601, 417,
                335, 25, 89, 854, 491, 249, 761, 540, 385, 644, 171, 709,
                40, 599, 203, 248, 399, 713, 792, 894, 220, 12, 760, 182,
                793, 950, 3, 898, 886, 986, 858, 290, 892, 486, 491, 906,
                773, 661, 400, 838, 405, 66, 634, 169, 879, 227, 81, 556,
                851, 47, 694, 511, 50, 707, 914, 5, 233, 992, 762, 760, 475,
                367, 378, 476, 238, 859, 576, 251, 144, 172, 0, 821, 774,
                14, 338, 226, 795, 944, 392, 802, 221, 511, 862, 28, 699,
                746, 461, 749, 225, 672, 683, 660, 712, 683, 86, 710, 499,
                288, 620, 427, 91, 828, 219, 655, 404, 237, 234, 84, 785,
                722, 921, 249, 531, 77, 868, 945, 295, 1, 904, 319, 29, 186,
                450, 305, 19, 882, 149, 789, 985, 756, 607, 898, 70, 946,
                873, 312, 44, 201, 639, 574, 706, 741, 900, 686, 435, 496,
                91, 354, 979, 677, 452, 851, 430, 540, 696, 497, 896, 170,
                787, 296, 725, 206, 420, 561, 357, 261, 551, 860, 37, 309 >>,
            z |-> << 3286, -11776, 14031, 15687, 11667, 2607, 1301, 2132, -8683,
                -2056, -15187, -7214, -2236, -244, -2236, -4176, 469, -7894,
                -1628, -16795, 10693, 5183, -14676, -17855, -16614, -295,
                -16614, -295, -16614, 8210, 2430, -22457, 15663, -10561,
                5376, -12971, 1047, -12971, -6486, -5844, 15652, 9163, 2121,
                -2100, -6851, 5181, -6851, 5181, -4337, 6011, -4337, 6011,
                -4337, 6011, -4337, 6011, -326, -20510, 9110, 1630, 6871,
                -10297, 11329, -3198, -6761, 1847, -10779, -693, -3032,
                -693, 1104, 11524, 1168, 949, 1168, -6535, 868, 4947, 7745,
                -1491, 7745, -1491, 7745, -1491, -22508, -13632, -4577,
                -15966, 5525, 2304, -15475, -6206, -2519, 5335, -11583,
                5335, -11583, 6818, -11583, 6818, 12544, -1405, 12544,
                -5993, 638, 11318, 10487, -2568, 10487, -2568, 16347, -8089,
                7007, 12050, 11124, 12683, 9904, -5776, 2468, -39, -18559,
                8407, -11597, -8502, 6451, -4967, 6451, -10515, -14330,
                -7693, -1965, 3878, 6984, 3878, -1448, 2084, -8090, -1203,
                -2832, -1203, -2832, -2098, -2832, -2098, -18540, -2098,
                -18540, 5887, 3916, 5887, 3916, 5887, 8486, 5887, 8486,
                -2306, -3801, -2306, -3801, -2306, 10076, 5478, 10076,
                17079, 10237, 4397, 2965, -6309, -1340, -8971, -2522, -5210,
                11610, -5210, 11610, -2253, 13489, 18712, -214, 9632, -6858,
                4816, -6858, 10475, -8673, -3693, 15429, -19863, -13151,
                3559, 11171, 10870, 4683, 10870 >>,
            zc |-> << -7962, 14998, -15478, 9857, 11477, 1046, 4314, 22603, 272,
                -7561, -8156, -4146, -26311, -1369, -26311, -65, -3769,
                1112, -7449, -8342, -7347, 13881, 17940, -8947, -590, 11740,
                -590, 11740, -590, -7868, 15781, 7899, -12435, 4634, -8438,
                4369, -4818, 4369, -7663, -14542, -7384, 6701, 1570, 2967,
                5630, -5600, 5630, -5600, 7420, -3212, 7420, -3212, 7420,
                -3212, 7420, -3212, 9815, -31079, -193, 2424, 11602, 16778,
                -3321, 11425, -1479, -5956, 4389, -452, 4220, -452, -8170,
                1854, 19355, -2203, 19355, 171, -1881, 2474, 7804, 16035,
                7804, 16035, 7804, 16035, -4099, -14927, -23187, -1461,
                -4022, 10846, 4766, -4335, -2733, 6241, -6842, 6241, -6842,
                -6319, -6842, -6319, -4462, 5805, -4462, 6508, -15274, 363,
                8507, 16495, 8507, 16495, -2512, 7348, -11130, 11321, 12782,
                9536, 11512, 2558, -4846, 18588, -39, -14748, 19319, -1505,
                -11634, 5805, -11634, 17077, -5238, -7614, -1253, 2053,
                8945, 2053, 2432, -16388, 610, 2624, 6337, 2624, 6337,
                -13336, 6337, -13336, -4704, -13336, -4704, 14132, -4736,
                14132, -4736, 14132, 2281, 14132, 2281, -948, 7581, -948,
                7581, -948, 18934, -11697, 18934, 6155, 8730, 2655, 6360,
                18204, -28557, -67, -7094, 19339, -1576, 19339, -1576,
                11317, -23393, 3838, 19314, -53, 9667, -5531, 9667, -9440,
                6667, -13589, -20067, 8553, -7860, -16556, 1592, -8387,
                2955, -8387 >>,
            k |-> << 2, 2, 2, 2, 2, 2, 2, 2, 2, 2, 2, 2, 4, 2, 2, 2, 2, 2, 2, 2,
                2, 2, 2, 2, 6, 4, 4, 2, 2, 2, 2, 2, 2, 2, 2, 4, 2, 2, 2, 2,
                2, 2, 2, 2, 4, 4, 2, 2, 8, 8, 6, 6, 4, 4, 2, 2, 2, 2, 2, 2,
                2, 2, 2, 2, 2, 2, 2, 4, 2, 2, 2, 2, 4, 2, 2, 2, 2, 2, 6, 6,
                4, 4, 2, 2, 2, 2, 2, 2, 2, 2, 2, 2, 2, 4, 6, 2, 4, 4, 2, 2,
                4, 2, 2, 2, 2, 2, 4, 4, 2, 2, 2, 2, 2, 2, 2, 2, 2, 2, 2, 2,
                2, 2, 2, 2, 4, 2, 2, 2, 2, 2, 2, 4, 2, 2, 2, 2, 2, 4, 6, 2,
                4, 6, 2, 4, 4, 2, 2, 8, 4, 6, 2, 4, 4, 2, 2, 6, 4, 4, 2, 2,
                4, 2, 2, 2, 2, 2, 2, 2, 2, 2, 2, 4, 4, 2, 2, 2, 2, 2, 2, 2,
                4, 2, 2, 2, 2, 2, 2, 2, 2, 2, 2, 4, 4, 2 >>])
    @@ (112 :> [u |-> << 375, 640, 950, 75, 776, 832, 54, 817, 885, 722, 2, 981, 343,
                94, 394, 4, 736, 955, 820, 344, 378, 784, 86, 546, 162, 290,
                45, 332, 736, 839, 709, 188, 985, 388, 503, 763, 683, 721,
                214, 763, 75, 610, 425, 234, 549, 576, 548, 154, 632, 109,
                114, 496, 377, 979, 713, 61, 900, 947, 829, 154, 653, 806,
                101, 101, 232, 491, 362, 32, 200, 191, 396, 212, 202, 920,
                485, 220, 111, 20, 228, 15, 74, 498, 299, 32 >>,
            z |-> << 14777, 4635, 5835, 528, 5835, 528, 3416, 528, 3416, -2120,
                -6994, -2120, -6994, -2120, -5071, -11907, -5071, -11907,
                -5071, -11907, 12737, -12264, 947, -12264, -5051, 12038,
                -1210, 12038, 7148, 5000, -8887, 689, -253, 689, 16003,
                7608, 11438, -8981, 6804, -444, 1822, -12800, -14852, 2848,
                21998, 13842, -11906, 3941, -8296, -23686, -101, -23686,
                2030, 4276, -2837, 4276, -3104, 4276, -3104, 4276, 10997,
                -2245, -476, -2245, -476, -22660, -3067, -4170, -5582,
                -4170, -13209, -6267, -15212, -286, -15212, -3368, -20,
                -19139, -20, -19139, -20, -19139, 1218, 15086 >>,
            zc |-> << -13159, 1445, 4856, 436, 4856, 436, 5919, 436, 5919, -8153,
                -2702, -8153, -2702, -8153, 10489, -15197, 10489, -15197,
                10489, -15197, -5433, 1673, -8506, 1673, -8127, -8541,
                -3280, -8541, 4985, 8102, 5971, -24450, 1098, -24450, 192,
                10912, 9468, 6974, -7392, 275, -6979, 19086, -4158, -15432,
                14025, 22168, 1657, -10260, 2813, -739, -10208, -739, -520,
                -9656, 1379, -9656, 2954, -9656, 2954, -9656, 5496, -3352,
                -15822, -3352, -15822, -1322, -903, -12432, -5418, -12432,
                -4754, -6060, -785, 8322, -785, -2421, -8021, -101, -8021,
                -101, -8021, -101, -5178, 7147 >>,
            k |-> << 2, 2, 4, 6, 2, 4, 4, 2, 2, 6, 4, 4, 2, 2, 6, 6, 4, 4, 2, 2,
                2, 4, 2, 2, 2, 4, 2, 2, 2, 2, 2, 4, 2, 2, 2, 2, 2, 2, 2, 2,
                2, 2, 2, 2, 2, 2, 2, 2, 2, 4, 2, 2, 2, 8, 2, 6, 4, 4, 2, 2,
                2, 4, 4, 2, 2, 2, 2, 4, 2, 2, 2, 2, 4, 2, 2, 2, 6, 6, 4, 4,
                2, 2, 4, 4 >>])
    @@ (113 :> [u |-> << 851, 73, 894, 436, 127, 575, 840, 435, 695, 684, 700, 779,
                642, 961, 108, 796, 832, 266, 836, 532, 516, 98, 918, 666,
                174, 217, 467, 435, 889, 222, 589, 277, 525, 259, 528, 312,
                544, 242, 94, 189, 150, 894, 300, 272, 6, 598, 794, 598,
                614, 870, 729, 765, 981, 521, 534, 82, 19, 264, 770, 969,
                314, 498, 203, 684, 837, 773, 332, 139, 181, 772, 125, 811,
                699, 692, 659, 938, 845, 286, 729, 408, 702, 292 >>,
            z |-> << -1500, -10442, -1500, -10442, 2092, 11714, -2266, 17860,
                10793, 11460, 9929, 6201, 3593, 5085, 1635, 5085, -5232,
                7316, 1188, 15084, -9345, -9966, 2379, -9966, -5066, -1700,
                -24918, 9602, -2458, 4491, -15915, 2054, -16940, 2033,
                -19440, 4466, -15862, -3339, -10671, -3865, -10671, -3169,
                -10671, 13109, 4387, 13109, 4387, 16589, 9640, 3918, 9007,
                26982, 171, 26982, -8409, 8679, -164, 8679, -164, -14445,
                -164, -14445, 6318, 9012, 4738, -6961, -8689, -2619, 5464,
                -4471, 2046, 5925, 10669, 10606, 4929, 10020, -4792, 10020,
                -6233, 16398, -10561, 10313 >>,
            zc |-> << 9328, -1781, 9328, -1781, -10268, 2610, 11893, -5915, 11452,
                10545, 7123, 12150, 1113, 4527, -2162, 4527, 7436, -5084,
                12448, 28662, 394, 5107, 5980, 5107, -5836, -14939, -12486,
                -1581, 3450, -13996, 6359, -17790, 1811, -16897, 2996,
                -18996, 2716, -2123, -9361, -3432, -9361, 6273, -9361, 4365,
                13093, 4365, 13093, 14228, 2995, 6318, 7795, 16548, 3864,
                16548, 702, -7560, -19927, -7560, -19927, -74, -19927, -74,
                -10177, 4926, 5836, 11351, -4048, -2962, -6395, 3246, -2463,
                9249, 11030, 12802, 1796, -9310, 7766, -9310, 15590, -7426,
                10319, -10645 >>,
            k |-> << 4, 4, 2, 2, 2, 2, 2, 2, 2, 2, 2, 2, 2, 4, 2, 2, 2, 2, 2, 2,
                2, 4, 2, 2, 2, 2, 2, 2, 2, 2, 2, 2, 2, 2, 2, 2, 2, 2, 6, 2,
                4, 2, 2, 4, 4, 2, 2, 2, 2, 2, 2, 4, 2, 2, 2, 4, 6, 2, 4, 4,
                2, 2, 2, 2, 2, 2, 2, 2, 2, 2, 2, 2, 2, 2, 2, 4, 2, 2, 2, 2,
                2, 2 >>])
    @@ (116 :> [u |-> << 375, 348, 928, 29, 2, 783, 41, 477, 361, 992, 209, 905, 457,
                775, 23, 406, 59, 297, 992, 755, 823, 603, 945, 989, 796,
                182, 235, 226, 224, 193, 555, 300, 769, 258, 140, 157, 216,
                160, 138, 930, 552, 335, 795, 271, 209, 167, 630, 172, 561,
                583, 541, 675, 706, 432, 783, 542, 407, 25, 415, 685, 989,
                779, 416, 731, 356, 190, 704, 335, 192, 89, 674, 191, 517,
                912, 935, 804, 422, 640, 987, 642, 275, 73 >>,
            z |-> << -14923, 5821, -281, -22284, -281, -22284, -281, -22284, 747,
                -952, 747, -952, 15084, -6346, -670, -6346, -1481, 6899,
                3785, 6899, 3785, 5846, -5492, -5596, -5492, -5596, -7511,
                -7142, -6524, 2439, -18107, 10161, -7570, -6293, -1159,
                -4357, -5387, -1322, -19624, 925, -19624, 10925, -6604,
                -8633, -5338, 4248, -10966, 2357, 20136, 11641, 19644,
                11935, -5658, 14293, 2210, -22920, -3599, -673, 17231,
                -4235, 15819, -4235, 15819, -8200, -11215, 6011, -10074,
                -10593, -10213, 2658, -10213, 781, 8720, -3376, 18644,
                -3376, 18644, -13428, -3365, -13428, -3365, 1103 >>,
            zc |-> << -12313, -2055, -5861, -3546, -5861, -3546, -5861, -3546,
                -536, 8986, -536, 8986, -2349, -1345, -3417, -1345, -3222,
                5435, 11827, 5435, 11827, 1362, 5130, -6709, 5130, -6709,
                -7271, -7080, -5866, -13532, 5023, -7502, 8450, -4238,
                -1215, -5267, -4505, -1239, 6314, 7513, 6314, -6081, 8527,
                -6812, -4663, -10812, 4363, -12495, 14943, 23149, 4697,
                10160, 17394, -3375, 14737, 10546, -702, -3762, -7907,
                14073, -5735, 14073, -5735, 13258, -5185, -9112, 12500,
                -5683, 5792, -6236, 5792, -13870, 366, 13199, -10372, 13199,
                -10372, 8493, -1773, 8493, -1773, -7623 >>,
            k |-> << 2, 2, 6, 6, 4, 4, 2, 2, 4, 4, 2, 2, 2, 4, 2, 2, 2, 4, 4, 2,
                2, 2, 4, 4, 2, 2, 2, 2, 2, 2, 2, 2, 2, 2, 2, 2, 2, 2, 4, 2,
                2, 2, 2, 2, 2, 2, 2, 2, 2, 2, 2, 2, 2, 2, 2, 2, 2, 2, 2, 4,
                4, 2, 2, 2, 2, 2, 2, 2, 4, 2, 2, 2, 2, 4, 4, 2, 2, 4, 4, 2,
                2, 2 >>])
    @@ (149 :> [u |-> << 881, 979, 864, 838, 909, 860, 470, 441, 600, 69, 418, 902,
                110, 911, 194, 167, 953, 970, 757, 890, 578, 859, 123, 891,
                591, 598, 205, 266, 937, 714, 715, 307, 88, 566, 702, 300,
                726, 459, 35, 856, 239, 630, 502, 77, 666, 123, 859, 998,
                66, 213, 89, 143, 716, 636, 207, 617, 994, 634, 793, 474,
                172, 385, 166, 0, 55, 600, 306, 670, 242, 641, 212, 387,
                994, 747, 749, 804, 993, 745, 605, 39, 205, 348, 490, 67,
                929, 809, 495, 123, 364, 357, 892, 555 >>,
            z |-> << 1018, -917, 1018, -917, -25513, -917, -25513, 20843, -6859,
                -1358, 8718, 1873, -4705, 1873, -4705, 1873, 4300, 1873,
                4300, 1873, 10815, 2135, 16771, 2135, 16771, -13090, -6645,
                1668, 1422, 9974, -9883, -5574, 1348, 17578, -10568, 10670,
                -3127, -5234, 6569, -4173, 6569, 373, -8234, 2288, -8068,
                4405, 8731, 4405, 8731, 4405, 8731, 4405, 8731, -11998,
                5076, 12021, -1274, 12021, -1274, -12930, -3990, -11180,
                1335, -16171, 1335, -16171, 10749, -11579, 7009, -11992,
                -5079, 8423, 7554, 8423, 7554, 6282, -4648, 6282, -4648,
                -1366, -5864, -1366, -7621, -185, -10664, -185, -10664,
                -3203, -14003, 7972, 1342, 12174 >>,
            zc |-> << 1098, 11321, 1098, 11321, -12698, 11321, -12698, -12229,
                1597, -7158, -1770, 9347, -4330, 9347, -4330, 9347, 2835,
                9347, 2835, 9347, 2353, 9101, 15591, 9101, 15591, 4390,
                -8383, -890, 2891, 9965, 11031, -2609, -8402, 5750, 10716,
                -9374, 17318, -461, -13154, 5704, -13154, 23201, 41, -5801,
                3567, -7267, 13853, -7267, 13853, -7267, 13853, -7267,
                13853, 5597, -12603, 5512, 14488, 5512, 14488, -1019,
                -11424, -3831, -5914, 8386, -5914, 8386, -12218, 7657,
                -12791, 5897, -12940, 8357, 6186, 8357, 6186, 14549, 1068,
                14549, 1068, -21786, -11401, -21786, -168, 13838, -117,
                13838, -117, -8893, -13301, -2898, 9542, 1993 >>,
            k |-> << 4, 6, 2, 4, 4, 2, 2, 2, 2, 2, 2, 10, 4, 8, 2, 6, 4, 4, 2, 2,
                2, 4, 4, 2, 2, 2, 2, 2, 2, 2, 2, 2, 2, 2, 2, 2, 2, 2, 4, 2,
                2, 2, 2, 2, 2, 8, 8, 6, 6, 4, 4, 2, 2, 2, 2, 4, 4, 2, 2, 2,
                2, 2, 4, 4, 2, 2, 2, 2, 2, 2, 2, 4, 4, 2, 2, 4, 4, 2, 2, 4,
                2, 2, 2, 4, 4, 2, 2, 2, 2, 2, 2, 2 >>])
    @@ (150 :> [u |-> << 908, 257, 877, 738, 698, 517, 952, 913, 78, 782, 113, 640,
                79, 231, 385, 236, 998, 389, 723, 451, 476, 545, 432, 589,
                104, 861, 308, 486, 210, 620, 341, 494, 307, 417, 760, 40,
                499, 812, 520, 431, 738, 742, 880, 982, 219, 93, 145, 410,
                358, 971, 657, 671, 740, 637, 897, 319, 118, 229, 102, 971,
                463, 213, 454, 999, 98, 237, 134, 724, 343, 88, 835, 119,
                35, 181, 972, 213, 500, 840, 459, 787, 192, 205, 901, 628 >>,
            z |-> << -2314, 5549, 3583, 8813, 1662, 6319, 3029, -3386, 3029,
                -3386, 3029, -6584, -601, -5756, -13677, 14940, -3725,
                14940, -3725, -12922, 26929, -22378, 19573, -8948, -1349,
                -4209, -1349, -14735, 5224, -15308, -734, -19517, -7332,
                14836, 13702, -2, 13702, 888, -26742, 16083, 8840, 5374,
                -1836, -17707, -1836, -17707, -2734, -17707, 2335, 467,
                12896, 11810, 7633, 7877, -3051, -7416, -2982, -3320,
                -14701, -366, -14701, -2336, -2247, -5261, -2247, -5261,
                4093, -8883, -6641, 26, 12373, 26, 12373, 26, 12373, 26,
                12373, -1441, 14600, -6061, -5555, 1058, 2512, -14705 >>,
            zc |-> << 3906, -3556, 5662, 10632, 19134, 241, -8308, 2474, -8308,
                2474, -8308, 2207, -943, -13527, -5925, -7386, 17278, -7386,
                17278, -26962, -13759, 15072, -14664, 2032, -19497, 7917,
                -19497, -675, -12611, 11586, -21409, -551, -17148, -4699,
                -6, -5846, -6, 13643, 7943, -4615, 8688, 3428, -1264,
                -11131, -1264, -11131, -10866, -11131, -702, 1401, 11808,
                8447, 13370, 2717, 6705, -3512, -4216, -2259, -1884, 4702,
                -1884, -14573, -3430, -3779, -3430, -3779, -6663, 12718,
                -2530, -14905, 18, -14905, 18, -14905, 18, -14905, 18,
                12175, -2050, 5671, -5800, -775, 7877, 12259 >>,
            k |-> << 2, 2, 2, 2, 2, 2, 6, 4, 4, 2, 2, 2, 2, 2, 2, 4, 4, 2, 2, 2,
                2, 2, 2, 2, 4, 2, 2, 2, 2, 2, 2, 2, 2, 2, 4, 2, 2, 2, 2, 2,
                2, 2, 4, 6, 2, 4, 2, 2, 2, 2, 2, 2, 2, 2, 2, 2, 2, 2, 4, 2,
                2, 2, 4, 4, 2, 2, 2, 2, 2, 8, 8, 6, 6, 4, 4, 2, 2, 2, 2, 2,
                2, 2, 2, 2 >>])
    @@ (156 :> [u |-> << 313, 559, 262, 187, 485, 818, 822, 784, 276, 371, 170, 332,
                502, 401, 9, 634, 63, 363, 596, 169, 711, 279, 267, 307, 52,
                141, 312, 466, 736, 487, 738, 32, 961, 364, 483, 611, 254,
                905, 269, 932, 81, 993, 356, 564, 632, 11, 43, 987, 70, 627,
                863, 86, 92, 188, 184, 572, 553, 650, 82, 430, 362, 901,
                811, 570, 734, 421, 917, 740, 527, 771, 459, 901, 101, 302,
                842, 40, 919, 851, 100, 295, 427, 148, 155, 817, 93, 422 >>,
            z |-> << 5849, -16404, -7831, -617, 13413, 4464, 5131, -7024, -8113,
                -10963, -4982, 295, -25456, -5755, -1787, -5755, -1787,
                12075, -11730, 5306, -10107, -9681, -9042, -2937, -3510,
                -4257, -3510, 17008, -919, 17187, -1123, -2686, -1123,
                -2686, 24198, -14324, 3962, -2618, 2480, 19913, 8759, 19913,
                8759, 19913, 1882, 9640, 1882, 9640, 1882, 9640, 2942,
                -4954, 2942, -4954, 2942, 15678, 20112, -6502, -1337,
                -19386, 7661, 16182, 2954, 16182, -5331, 7926, 1913, 1913,
                15509, -2276, 9229, 8399, -3029, 8399, -2998, -6113, -2998,
                -6113, -2998, -6113, -11295, -1785, 3459, 14804, -1640,
                14804 >>,
            zc |-> << -18477, 4074, -5952, -13681, -594, 4405, 5816, 8934, -14091,
                -4289, -9822, -20940, 606, 1777, -5714, 1777, -5714, -17116,
                3415, -8274, 9721, -9163, -10944, -1262, -19353, -8164,
                -19353, -2439, 17260, -910, 3827, -22645, 3827, -22645,
                -3498, 6475, -2401, 4606, -1320, 9610, -19648, 9610, -19648,
                9610, -6346, 3378, -6346, 3378, -6346, 3378, -12871, -4890,
                -12871, -4890, -12871, 20983, 7199, 2343, -8060, -9757,
                -2625, 4866, 13054, 4866, 15911, -1491, 3321, 16924, 1556,
                15343, -925, -4847, -6114, -4847, -5870, -17248, -5870,
                -17248, -5870, -17248, -2326, -1820, -3753, -4360, -8556,
                -4360 >>,
            k |-> << 2, 2, 2, 2, 2, 2, 2, 2, 2, 2, 2, 2, 2, 4, 4, 2, 2, 2, 2, 2,
                2, 2, 2, 2, 4, 2, 2, 2, 2, 2, 4, 4, 2, 2, 2, 2, 2, 2, 2, 6,
                4, 4, 2, 2, 6, 6, 4, 4, 2, 2, 6, 4, 4, 2, 2, 2, 2, 2, 2, 2,
                2, 4, 2, 2, 2, 2, 2, 2, 2, 2, 2, 4, 2, 2, 6, 6, 4, 4, 2, 2,
                2, 2, 2, 4, 2, 2 >>])
    @@ (162 :> [u |-> << 321, 755, 878, 693, 784, 908, 728, 295, 275, 712, 541, 999,
                972, 854, 314, 678, 57, 521, 189, 929, 995, 103, 375, 867,
                888, 131, 585, 543, 918, 514, 236, 573, 682, 451, 240, 600,
                495, 436, 371, 361, 419, 564, 880, 686, 314, 136, 218, 795,
                636, 33, 35, 178, 544, 692, 503, 316, 306, 382, 345, 160,
                396, 626, 329, 954, 544, 811, 583, 443, 666, 388, 982, 609,
                334, 323, 472, 966, 514, 819, 505, 359, 868, 210, 697, 571 >>,
            z |-> << 11246, 5003, 3682, 10116, 961, 2487, -9307, -10459, 9514,
                3507, 11309, -4365, 11309, -4365, 11309, -4029, 344, -13721,
                9520, -2585, 9520, -2585, 9520, 2389, 11629, 2389, 11629,
                8241, 294, -15956, 4180, 17895, -5041, -15705, 5542, -1160,
                -28598, -20011, -14464, -10732, 15693, 10052, 3590, -11311,
                -8041, -3543, 6516, 5480, -3277, 1801, 18794, 1801, 18794,
                366, -19995, -11484, -9220, -15504, -9864, -3418, 16363,
                -14849, 3221, 589, 13471, 3415, -14212, 19377, -10667, 1921,
                461, -16045, -12435, -3058, 5235, 168, 13342, 235, -22491,
                9093, -3144, 6719, 6397, 7379 >>,
            zc |-> << -7871, 3385, 7202, 6866, 669, 4443, 10439, -9489, -10083,
                17972, -11761, 8361, -11761, 8361, -11761, 1622, -6949, 966,
                -3219, -8229, -3219, -8229, -3219, -10274, 22894, -10274,
                22894, 857, 8395, 889, -14950, 7213, 19064, -2923, -14252,
                25260, -2076, -9944, -13421, -18440, -19618, 1705, 7326,
                11387, -4093, -4574, -6206, 11899, 957, -13002, 4363,
                -13002, 4363, 19559, 391, -10907, -15230, -11784, -4483,
                -11200, -13375, 11020, -1210, 6000, 1929, 12800, 20984,
                -6554, 15865, -445, 2033, 10603, -11625, -20036, -303, 5286,
                617, 13368, 898, -3473, 4005, -9869, 17507, 1239 >>,
            k |-> << 2, 2, 2, 2, 2, 2, 2, 2, 2, 2, 6, 4, 4, 2, 2, 2, 2, 2, 6, 4,
                4, 2, 2, 4, 4, 2, 2, 2, 2, 2, 2, 2, 2, 2, 2, 2, 2, 2, 2, 2,
                2, 2, 2, 2, 2, 2, 2, 2, 2, 4, 4, 2, 2, 2, 2, 2, 2, 2, 2, 2,
                2, 2, 2, 2, 2, 2, 2, 2, 2, 2, 2, 2, 2, 2, 2, 2, 2, 2, 2, 2,
                2, 2, 2, 2 >>])
    @@ (177 :> [u |-> << 502, 785, 444, 186, 281, 627, 549, 270, 694, 404, 747, 544,
                717, 699, 130, 435, 568, 589, 165, 704, 626, 897, 901, 544,
                833, 879, 240, 575, 419, 773, 899, 835, 687, 704, 254, 14,
                567, 84, 882, 570, 18, 65, 577, 848, 901, 527, 965, 581,
                803, 917, 777, 475, 359, 153, 641, 926, 462, 334, 330, 833,
                766, 516, 621, 959, 617, 224, 76, 911, 682, 258, 56, 373,
                625, 293, 179, 807, 849, 484 >>,
            z |-> << 14956, -2800, -13241, -5936, 8317, 8274, -16989, 9213,
                -8020, 14872, 2967, 17662, 9834, -7379, -1850, 18791, 19415,
                -11712, 5149, 9000, 8105, 12478, 1029, 12478, 4378, -3257,
                4378, -17922, 14371, 2927, 11312, 5013, 11312, -10290,
                -8191, 395, -8191, -3239, 1821, -3239, 11349, 1242, 11349,
                5273, 637, 5273, 817, 13184, -1335, -22053, -1335, -22053,
                -9995, 4082, 6201, -689, -20297, -12390, 9593, 4946, 950,
                23516, 4372, 1143, -13186, 2639, -11298, 2639, -11298,
                14309, -1568, 14309, -14558, -8756, 4790, 4036, -517, 4047 >>,
            zc |-> << 148, 14439, -2343, -8518, -14274, 21229, 3668, -10856,
                16425, -5721, 16316, 3660, 10724, 3978, -10576, -17757,
                14790, 3143, -8418, 14553, 2578, 1683, 9186, 1683, -15053,
                4762, -15053, 16828, -4223, 2005, 10382, 8962, 10382, 8560,
                1329, -2840, 1329, 477, 9827, 477, 2522, -6970, 2522, 311,
                9320, 311, 4681, 3535, 15218, -3818, 15218, -3818, -4066,
                -9970, 2061, 7851, -4602, -12077, -4867, 6189, 15799, 3107,
                1156, 4472, 5626, 5939, 8561, 5939, 8561, -14405, -5490,
                -14405, 8852, -5656, -4992, 3548, 11947, -128 >>,
            k |-> << 2, 2, 2, 2, 2, 2, 2, 2, 2, 2, 2, 2, 2, 2, 2, 2, 2, 2, 2, 2,
                2, 4, 2, 2, 4, 2, 2, 2, 2, 2, 4, 2, 2, 2, 4, 2, 2, 4, 2, 2,
                4, 2, 2, 4, 2, 2, 2, 2, 4, 4, 2, 2, 2, 2, 2, 2, 2, 2, 2, 2,
                2, 2, 2, 2, 2, 4, 4, 2, 2, 4, 2, 2, 2, 2, 2, 2, 2, 2 >>])
    @@ (178 :> [u |-> << 524, 38, 747, 731, 876, 957, 555, 873, 880, 46, 75, 44, 350,
                324, 815, 328, 783, 135, 841, 397, 933, 945, 711, 302, 105,
                257, 149, 704, 54, 175, 74, 82, 584, 512, 542, 844, 302,
                759, 810, 821, 977, 200, 940, 555, 146, 285, 679, 2, 946,
                470, 726, 188, 70, 511, 572, 278, 813, 673, 399, 159, 642,
                155, 11, 533, 620, 444, 237, 137, 299, 350, 978, 944, 579,
                24, 606, 641, 249, 112, 571, 310, 94, 56, 236, 209 >>,
            z |-> << -5592, 5988, 8516, 5988, 10483, 684, 10483, -1272, -13374,
                -1272, -13374, -1272, -13374, 9976, -5480, 10985, -4476,
                508, -3333, 6635, -10112, 1028, -10112, -6299, -2890, -6593,
                4614, -2557, 3965, 1586, 3965, 1586, 3965, 29802, 12006,
                -4787, 10406, 7072, 4837, -11437, 872, -11437, 872, -11437,
                -4533, 9779, -433, 17566, -433, 17566, -8261, 27320, 218,
                27320, -16593, 8387, 5588, -9588, -11245, 4273, -10010,
                22700, 199, 22700, -9666, -15425, -5389, -4206, -9944, 1123,
                -3783, 1123, -3783, 708, 16317, -12927, -4741, 1757, -17812,
                -6011, -7279, 3377, -7279, 3377 >>,
            zc |-> << 298, 3678, 9116, 3678, 1558, 5645, 1558, -3869, -11446,
                -3869, -11446, -3869, -11446, -5528, 10100, -6647, 3482,
                -541, 11141, -1565, 10795, 2168, 10795, -3155, -4712, -4560,
                -7910, 1172, 26307, -7858, 26307, -7858, 26307, 8844, 1493,
                8341, -7925, 5914, 4669, 1811, 6865, 1811, 6865, 1811,
                -7458, -11670, 6624, -2269, 6624, -2269, 5996, 4505, -7802,
                4505, 5429, -5933, 10104, 16545, -3323, -10173, 4151, 6305,
                -2912, 6305, 20923, -3262, -3908, -7589, -13322, 6257, 635,
                6257, 635, -3171, 12198, 7320, -3064, -9589, 6680, -2806,
                -6610, -2588, -6610, -2588 >>,
            k |-> << 2, 4, 2, 2, 4, 2, 2, 6, 6, 4, 4, 2, 2, 2, 2, 2, 2, 2, 2, 2,
                4, 2, 2, 2, 2, 2, 2, 2, 6, 4, 4, 2, 2, 2, 2, 2, 2, 2, 2, 6,
                4, 4, 2, 2, 2, 2, 4, 4, 2, 2, 2, 4, 2, 2, 2, 2, 2, 2, 2, 2,
                2, 4, 2, 2, 2, 2, 2, 2, 2, 4, 4, 2, 2, 2, 2, 2, 2, 2, 2, 2,
                4, 4, 2, 2 >>])
    @@ (181 :> [u |-> << 524, 114, 570, 405, 182, 156, 319, 332, 713, 702, 371, 838,
                950, 240, 872, 484, 963, 413, 290, 338, 627, 63, 13, 416,
                988, 710, 489, 643, 277, 436, 20, 744, 821, 235, 879, 911,
                55, 496, 666, 627, 290, 826, 776, 11, 924, 647, 886, 119,
                862, 246, 370, 445, 349, 105, 802, 52, 509, 87, 940, 212,
                942, 664, 186, 101, 825, 148, 190, 747, 805, 989, 967, 340,
                666, 880, 497, 719, 950, 887, 613, 968, 892, 96, 597, 572,
                160, 496, 367, 370, 863, 182, 310, 122, 445, 259, 995, 319,
                392, 223, 6, 939, 912, 950, 692, 321, 37, 544, 45, 783, 97,
                465, 737, 572, 734, 640, 469, 806, 810, 660, 825, 84, 970,
                296, 397, 99, 357, 820, 792, 783, 239, 655, 146, 591, 668,
                84, 91, 312, 623, 321, 990, 316, 530, 790, 78, 883, 762,
                172, 970, 397, 470, 668, 183, 378, 267, 195, 500, 372, 419,
                430, 616, 356, 405, 531, 799, 126, 358, 210, 587, 157, 475,
                384, 271, 980, 560, 272, 161, 706, 431, 328, 150, 881, 778,
                795, 658, 498, 897, 68, 261, 467, 968, 193 >>,
            z |-> << -10121, 1772, -19250, -12293, -3784, -4695, -11432, 12286,
                10026, -9188, 10613, 5114, -464, 5114, -464, 5500, -894,
                -16434, -9752, 11664, -5931, 1902, -377, 1902, 22275, -891,
                22275, -13402, -4808, -3592, -5433, 7335, -5433, 4582, -59,
                20951, -59, 20951, 11330, -14411, 8482, 5088, 2158, 8142,
                2158, 8142, -4006, -6808, -4006, -6808, -8718, -20096,
                -7672, 887, -8791, 136, -8791, -10393, 1680, -10393, 1680,
                -10393, -3023, -3393, -3023, -3393, 6034, 7615, -717, 12733,
                -717, 12733, 7872, -57, 18159, 2605, 3701, 2605, 3701, 2038,
                14176, 2038, 14176, -11814, -140, -23044, -13931, 9579,
                -2450, -5631, -7341, -1484, -16383, -9501, -13484, -9501,
                -13484, 1114, -10925, 1114, -10925, 1114, -10925, -1651,
                516, -5993, -784, -1996, -784, 16957, 4879, 16118, 7988,
                -4664, 13863, 5261, 5487, 10176, -8421, -8009, -8421, -8009,
                -8421, -2688, 10902, 5100, 6309, -6915, 7256, -9305, 2814,
                17186, -6116, 9810, -2709, 9810, -15049, 3212, 14579, 3212,
                14579, 3060, -6522, 3060, -6522, -6807, -813, -6807, 20406,
                -10168, -4475, -14223, -8212, 28, -23354, -11666, -16210,
                19649, -15494, -11321, 8006, 14185, -3283, -3363, -11912,
                4111, -11393, -861, -23527, -14617, -16780, 455, -16780,
                -7505, 5013, -5728, -18547, -8989, 6634, 2797, 6634, 5949,
                -169, 9575, -2274, -1105, -2274, 5024, 10253, 6133 >>,
            zc |-> << 630, -9689, 14426, -3642, -3504, -8910, -12322, -9663,
                10579, 14496, -4013, -3563, 10836, -3563, 10836, -189, 4779,
                -6802, -12617, -14762, 1740, -325, -2198, -325, -1567,
                18581, -1567, 8625, -16869, -476, 6608, 5586, 6608, -3194,
                -6887, -478, -6887, -478, 14780, 8811, -5423, 6021, 6189,
                3118, 6189, 3118, 5726, -13380, 5726, -13380, -20817, -7217,
                -2926, -1157, 196, -6631, 196, 5472, 4502, 5472, 4502, 5472,
                2802, -3856, 2802, -3856, -7536, 6169, 2107, -12164, 2107,
                -12164, 3442, 10430, -174, 8879, 898, 8879, 898, -8390,
                19053, -8390, 19053, 2537, -12449, -664, -14273, -3400,
                2809, -9442, -3680, -10293, -3703, -16004, -5243, -16004,
                -5243, 2611, 11773, 2611, 11773, 2611, 11773, -636, -5360,
                588, -9197, 1407, -9197, -2451, 16004, 4976, 13325, 21836,
                -1359, 5190, 10646, 5007, -2159, -15827, -2159, -15827,
                -2159, -7572, -4850, 5585, 6500, 7539, -12151, 4089, -10847,
                9338, 2486, -14965, -5899, -14965, 10385, -19612, 1510,
                -19612, 1510, 4471, 5222, 4471, 5222, -23945, 3749, -23945,
                -3513, 5416, -11618, -7473, -6257, -14077, 111, -18504,
                -18889, -11673, 12555, -17298, -24151, 1479, 2630, -8869,
                -5828, -13577, 2911, -12214, -4927, -7398, 4508, 3585, 4508,
                -5032, -8209, 17309, -7410, -4405, 6240, 3837, 6240, 11143,
                21464, -30, -16935, -1999, -16935, -344, 9226, -9057 >>,
            k |-> << 2, 2, 2, 2, 2, 2, 2, 2, 2, 2, 2, 4, 4, 2, 2, 2, 2, 2, 2, 2,
                2, 4, 2, 2, 4, 2, 2, 2, 2, 2, 4, 2, 2, 2, 4, 4, 2, 2, 2, 2,
                2, 2, 4, 4, 2, 2, 4, 4, 2, 2, 2, 2, 2, 2, 4, 2, 2, 6, 4, 4,
                2, 2, 4, 4, 2, 2, 2, 2, 4, 4, 2, 2, 2, 2, 2, 4, 4, 2, 2, 4,
                4, 2, 2, 2, 2, 2, 2, 2, 2, 2, 2, 2, 2, 4, 4, 2, 2, 6, 6, 4,
                4, 2, 2, 2, 2, 2, 4, 2, 2, 2, 2, 2, 2, 2, 2, 2, 2, 2, 6, 4,
                4, 2, 2, 2, 2, 2, 2, 2, 2, 2, 2, 2, 2, 4, 2, 2, 2, 4, 4, 2,
                2, 4, 4, 2, 2, 4, 2, 2, 2, 2, 2, 2, 2, 2, 2, 2, 2, 2, 2, 2,
                2, 2, 2, 2, 2, 2, 2, 2, 2, 2, 4, 2, 2, 2, 2, 2, 2, 2, 4, 2,
                2, 2, 2, 2, 4, 2, 2, 2, 4, 2 >>])
    @@ (182 :> [u |-> << 876, 62, 119, 787, 977, 271, 874, 458, 638, 781, 632, 126,
                997, 626, 46, 620, 336, 762, 109, 517, 627, 843, 113, 292,
                73, 667, 225, 518, 588, 451, 730, 966, 196, 724, 785, 545,
                832, 24, 580, 576, 550, 881, 777, 328, 744, 882, 635, 649,
                424, 80, 434, 410, 121, 926, 906, 675, 681, 837, 517, 453,
                405, 678, 409, 925, 968, 395, 124, 431, 375, 321, 446, 970,
                850, 330, 173, 572, 90, 633 >>,
            z |-> << 2642, 6195, 2642, 6195, -1165, 6195, -1165, 21346, 12234,
                5856, -9111, -4676, 1284, -4676, 1284, -15260, 11743, -4097,
                435, 23086, 10456, -4115, -3425, -4115, 2154, -11351, 1055,
                25612, -12159, 16976, 6299, 8901, 6299, 8901, 2311, 12494,
                16932, 626, 16932, 14486, 10118, 2810, -6867, 11741, 5242,
                3050, 14149, -9465, -7884, -1247, -19852, -9757, 2763,
                11862, 2763, 11862, 9089, 646, -28446, -22370, 16838, -8632,
                7319, -9602, -885, -9602, -1865, -19632, -14969, -5687,
                4660, -9827, -4373, -9827, 2749, -8479, 2402, 13957 >>,
            zc |-> << -3491, -3775, -3491, -3775, 10584, -3775, 10584, -6334,
                6027, 12460, 3234, 1307, -4825, 1307, -4825, 11245, -7325,
                2760, -9933, 3091, 3887, -2002, -6376, -2002, -5494, 6921,
                -15424, 5458, 22237, -3542, -8534, 6985, -8534, 6985, 14618,
                1694, 17817, -3720, 17817, 21667, 1347, 3865, 11103, -8244,
                3354, 8635, 12794, 18655, -1425, -8018, -14456, -2307, 6386,
                11502, 6386, 11502, 4885, 12501, 10619, -11094, -8875,
                17066, -1557, -2661, 3978, -2661, -10199, -10857, -10405,
                -19018, -530, -5119, 9008, -5119, -12395, 1500, -7374, 14012 >>,
            k |-> << 4, 6, 2, 4, 4, 2, 2, 2, 2, 2, 2, 4, 4, 2, 2, 2, 2, 2, 2, 2,
                2, 4, 2, 2, 2, 2, 2, 2, 2, 2, 4, 4, 2, 2, 2, 2, 4, 2, 2, 2,
                2, 2, 2, 2, 2, 2, 2, 2, 2, 2, 2, 2, 4, 4, 2, 2, 2, 2, 2, 2,
                2, 2, 2, 4, 2, 2, 2, 2, 2, 2, 2, 4, 2, 2, 2, 2, 2, 2 >>])
    @@ (188 :> [u |-> << 511, 789, 560, 296, 808, 321, 269, 355, 69, 943, 753, 951,
                648, 720, 284, 904, 663, 376, 487, 93, 117, 75, 254, 1, 87,
                860, 754, 845, 691, 113, 592, 250, 479, 100, 100, 548, 960,
                420, 203, 969, 890, 284, 92, 860, 277, 179, 334, 987, 694,
                475, 926, 548, 738, 749, 603, 925, 794, 22, 590, 967, 773,
                236, 45, 462, 5, 988, 210, 112, 891, 555, 780, 791, 545,
                869, 511, 10, 643, 746, 341, 316, 713, 617, 605, 605, 783,
                418, 451, 117, 165, 82 >>,
            z |-> << 14751, 2967, -17749, 9178, -5812, -11614, -8276, -5910,
                13176, 1402, 13176, 1402, 13176, -9713, 5174, 2751, -11416,
                -2459, -9089, -1397, 6307, -1397, 6307, 4084, 6307, 4084,
                6307, 4722, -6901, 2243, -14864, -1364, -9449, 5473, 1131,
                5473, -874, -13503, -3281, -5027, -3281, -5027, -8172,
                -4268, -8172, -5255, -2456, 7894, -2456, 7894, 879, 16622,
                8795, 6014, 7056, 624, 4324, 624, 4324, -1794, -7292, -1794,
                -494, -1794, -2932, 14661, -2932, 14661, 1364, 14661, 6633,
                2215, 10774, 350, -2949, -7895, 12950, -7895, -12852, 11518,
                8206, 14341, 15500, 13308, -4035, -13204, -10090, 2279,
                7089, 2279 >>,
            zc |-> << 610, 14175, 5297, -6037, 10062, -8981, -13215, -1986, 8875,
                4262, 8875, 4262, 8875, 9935, -2756, 6835, 15080, -23483,
                -289, -2420, 4655, -2420, 4655, 5778, 4655, 5778, 4655,
                8513, 3419, -9323, 5528, -16559, -487, 580, -9252, 580,
                5095, -3599, 5932, -2660, 5932, -2660, -5690, 6904, -5690,
                -10156, 19201, -460, 19201, -460, 7737, 3378, 8422, 14511,
                1712, -3305, 833, -3305, 833, -135, 7569, -135, -6051, -135,
                -2192, 2922, -2192, 2922, 9565, 2922, 6377, 14352, 1312,
                10973, 71, 12271, 7514, 12271, -11154, -9897, 14850, 15943,
                15589, 4951, 13972, -22113, -1286, -4405, 4229, -4405 >>,
            k |-> << 2, 2, 2, 2, 2, 2, 2, 2, 6, 4, 4, 2, 2, 2, 2, 2, 2, 2, 2, 4,
                8, 2, 6, 4, 4, 2, 2, 2, 2, 2, 2, 2, 2, 4, 2, 2, 2, 2, 4, 4,
                2, 2, 4, 2, 2, 2, 4, 4, 2, 2, 2, 2, 2, 2, 2, 4, 4, 2, 2, 6,
                2, 4, 2, 2, 4, 6, 2, 4, 2, 2, 2, 2, 2, 2, 2, 4, 2, 2, 2, 2,
                2, 2, 2, 2, 2, 2, 2, 4, 4, 2 >>])
    @@ (189 :> [u |-> << 422, 377, 851, 498, 547, 699, 204, 70, 363, 878, 455, 432,
                173, 184, 473, 818, 350, 872, 646, 853, 660, 91, 550, 312,
                570, 829, 36, 500, 645, 801, 918, 449, 357, 187, 156, 351,
                987, 370, 894, 926, 60, 343, 997, 510, 973, 193, 43, 993,
                618, 244, 445, 352, 436, 356, 584, 721, 569, 304, 419, 512,
                862, 70, 395, 286, 680, 223, 85, 23, 38, 760, 574, 184, 545,
                819, 558, 418, 282, 622, 448, 234, 603, 854, 32, 998, 185,
                574, 334, 506, 135, 763, 171, 715, 653, 124, 813, 103, 808,
                737, 864, 893, 589, 555, 726, 329, 230, 390, 249, 654, 759,
                562, 123, 437, 441, 6, 501, 745, 437, 779, 894, 278, 214,
                59, 0, 247, 301, 236, 780, 199, 314, 75, 565, 15, 530, 859,
                878, 745, 379, 742, 662, 247, 588, 196, 664, 181, 136, 898,
                257, 208, 208, 245, 62, 899, 731, 511, 473, 268, 290, 527,
                241, 395, 56, 832, 250, 472, 203, 176, 50, 259, 537, 124,
                37, 58, 906, 355, 940, 455, 124, 556, 469, 918, 305, 801,
                805, 697, 601, 471, 173, 146, 585, 556, 956, 388, 196, 486,
                756, 413, 357, 250, 904, 111, 544, 139, 833, 459, 425, 340,
                362, 535, 985, 4, 647, 825, 784, 833, 828, 851, 677, 607,
                277, 515, 860, 714, 915, 164, 628, 904, 362, 93, 793, 491,
                181, 250, 828, 205, 55, 499, 79, 578, 49, 21, 576, 292, 907,
                404, 852, 755, 308, 47, 896, 964, 80, 168, 478, 693, 646,
                478, 994, 623, 480, 983, 125, 498, 773, 985, 536, 153, 846,
                5, 664, 73, 376, 840, 605, 245, 497, 907, 901, 860, 946,
                296, 39, 54, 276, 137, 721, 229, 431, 597, 171, 711, 982,
                586, 768, 824, 565, 680, 923, 71, 973, 669, 834, 362, 149,
                711, 943, 345, 21, 775, 634, 833, 649, 87, 124, 838, 304,
                614, 31, 13, 129, 998, 690, 629, 844, 217, 372, 121, 694,
                614, 382, 289, 704, 310, 506, 765, 606, 824, 298, 52, 185,
                326, 833, 784, 601, 151, 314, 829, 241, 95, 470, 149, 685,
                231, 904, 349, 664, 883, 191, 898, 943, 988, 344, 675, 469,
                87, 437, 512, 678, 122, 997, 249, 698, 217, 65, 337, 30,
                311, 899, 856, 330, 741, 3, 675, 68, 831, 80, 984, 376, 273,
                556, 628, 833, 317, 883, 891, 166, 699, 840, 69, 193, 361,
                442, 874, 477, 477, 191, 774, 629, 609, 945, 90, 950, 52,
                987, 234, 669, 757, 646, 996, 314, 351, 423, 859, 395, 973,
                15, 264, 783, 819, 127, 276, 565, 349, 493, 127, 444, 821,
                535, 518, 680, 234, 778, 141, 389, 597, 795, 620, 536, 51,
                547, 175, 691, 259, 898, 661, 691, 305, 409, 449, 188, 188,
                713, 48, 467, 141, 381, 760, 192, 272, 454, 717, 481, 844,
                783, 947, 824, 698, 908, 635, 592, 865, 212, 410, 528, 131,
                821, 909, 880, 256, 281, 137, 345, 418, 924, 288, 623, 777,
                169, 823, 338, 712, 377, 949, 153, 485, 851, 454, 247, 893,
                626, 88, 120, 135, 716, 171, 369, 728, 29, 806, 618, 851,
                365, 600, 16, 669, 820, 369, 603, 378, 525, 9, 274, 966,
                761, 202, 435, 317, 501, 134, 867, 811, 215, 593, 995, 313,
                805, 394, 521, 854, 566, 800, 546, 390, 741, 178, 229, 135,
                419, 262, 422, 55, 629, 312, 138, 852, 458, 881, 136, 578,
                323, 731, 179, 903, 894, 365, 482, 228, 45, 642, 970, 204,
                736, 155, 706, 836, 147, 293, 127, 671, 606, 424, 22, 857,
                816, 512, 961, 992, 209, 797, 338, 364, 499, 729, 733, 106,
                468, 428, 929, 297, 192, 531, 596, 505, 406, 922, 335, 787,
                516, 17, 44, 358, 997, 400, 984, 669, 883, 667, 130, 458,
                715, 701, 490, 555, 290, 773, 428, 963, 236, 63, 552, 436,
                836, 890, 579, 921, 349, 469, 209, 954, 381, 27, 736, 187,
                457, 606, 775, 343, 658, 242, 321, 787, 579, 360, 607, 262,
                28, 961, 3, 953, 475, 822, 31, 829, 214, 351, 894, 425, 146,
                408, 665, 902, 53, 541, 271, 267, 826, 544, 938, 275, 715,
                171, 145, 334, 21, 94, 51, 984, 743, 113, 910, 585, 34, 223,
                131, 376, 751, 537, 515, 419, 893, 22, 86, 935, 819, 837,
                925, 177, 210, 592, 560, 696, 918, 126, 554, 257, 690, 528,
                69, 52, 707, 639, 866, 472, 726, 308, 54, 825, 185, 670,
                672, 724, 217, 854, 116, 682, 906, 286, 149, 171, 943, 300,
                946, 805, 24, 69, 618, 483, 188, 823, 114, 340, 943, 897,
                20, 585, 511, 779, 858, 744, 662, 284, 136, 184, 356, 403,
                655, 482, 632, 401, 263, 431, 779, 746, 682, 840, 221, 263,
                713, 443, 450, 176, 754, 598, 736, 564, 588, 378, 157, 167,
                479, 571, 103, 750, 759, 347, 797, 57, 126, 722, 420, 151,
                78, 669, 944, 273, 545, 6, 798, 436, 135, 814, 921, 158,
                473, 109, 712, 797, 303, 310, 778, 628, 832, 899, 568, 571,
                640, 614, 954, 8, 484, 647, 531, 222, 355, 949, 754, 871,
                518, 875, 603, 411, 142, 225, 945, 909, 384, 847, 90, 512,
                37, 724, 963, 455, 84, 124, 822, 730, 315, 948, 80, 44, 947,
                418, 724, 249, 484, 261, 572, 169, 267, 921, 979, 209, 318,
                598, 611, 528, 689, 717, 10, 415, 29, 881, 827, 779, 192,
                174, 793, 646, 931, 895, 586, 552, 68, 90, 542, 106, 663,
                434, 435, 244, 821, 468, 34, 570, 362, 425, 662, 380, 56,
                946, 687, 434, 982, 143, 54, 149, 733, 866, 49, 351, 636,
                986, 472, 970, 154, 209, 304, 301, 718, 633, 65, 132, 997,
                748, 43, 480, 973, 517, 629, 385, 467, 445, 115, 206, 899,
                446, 163, 781, 685, 885, 866, 57, 602, 239, 130, 986, 638,
                778, 877, 668, 51, 130, 836, 840, 635, 905, 760, 20, 106,
                970, 411, 879, 862, 570, 507, 334, 261, 894, 42, 220, 349,
                408, 415, 37, 530, 920, 828, 587, 711, 626, 587, 950, 27,
                939, 799, 452, 984, 964, 955, 396, 203, 843, 299, 161, 608,
                634, 696, 477, 610, 996, 416, 201, 150, 254, 916, 352, 122,
                671, 749, 136, 51, 814, 720, 326, 366, 452, 892, 566, 71,
                575, 368, 490, 413, 408, 444, 551, 199, 651, 785, 841, 121,
                907, 161, 694, 110, 473, 519, 795, 78, 214, 649, 22, 318,
                721, 706, 611, 624, 237, 135, 831, 716, 924, 857, 525, 419,
                115, 200, 277, 700, 197, 723, 335, 772, 263, 907, 521, 215,
                644, 820, 519, 647, 185, 208, 618, 988, 138, 90, 718, 897,
                465, 176, 962, 521, 522, 660, 524, 298, 559, 992, 776, 85,
                226, 266, 456, 197, 605, 964, 174, 315, 526, 125, 285, 776,
                491, 384, 639, 319, 854, 273, 286, 551, 692, 769, 466, 76,
                140, 13, 708, 841, 80, 576, 868, 102, 54, 572, 174, 357,
                865, 210, 157, 749, 136, 492, 496, 129, 421, 820, 452, 920,
                713, 331, 447, 429, 345, 28, 522, 729, 433, 438, 683, 844,
                470, 568, 628, 24, 619, 266, 603, 766, 748, 126, 360, 600,
                770, 960, 642, 314, 47, 625, 937, 779, 653, 718, 124, 411,
                476, 663, 236, 591, 113, 802, 106, 140, 782, 192, 90, 880,
                605, 33, 287, 416, 728, 767, 267, 336, 430, 705, 730, 284,
                14, 140, 353, 287, 370, 798, 941, 368, 373, 28, 561, 599,
                743, 82, 437, 159, 562, 993, 323, 376, 830, 825, 765, 327,
                173, 568, 210, 273, 130, 855, 270, 281, 950, 475, 984, 834,
                707, 672, 398, 90, 996, 172, 895, 853, 672, 619, 590, 582,
                566, 916, 209, 863, 404, 170, 458, 996, 279, 737, 445, 274,
                960, 774, 726, 532, 968, 699, 61, 227, 483, 3, 347, 909,
                300, 138, 734, 248, 974, 724, 418, 930, 544, 547, 836, 759,
                700, 563, 416, 783, 869, 8, 363, 309, 976, 453, 395, 808,
                22, 794, 655, 638, 703, 416, 153, 940, 804, 828, 865, 302,
                467, 671, 607, 927, 39, 908, 762, 21, 400, 194, 321, 915,
                620, 883, 151, 193, 529, 283, 386, 497, 15, 435, 765, 53,
                551, 124, 867, 183, 697, 543, 154, 444, 936, 657, 427, 592,
                323, 342, 268, 324, 411, 655, 382, 695, 883, 672, 59, 550,
                292, 991, 24, 455, 131, 714, 910, 326, 30, 242, 729, 732,
                343, 181, 152, 852, 951, 321, 128, 599, 444, 979, 863, 48,
                872, 77, 374, 608, 472, 278, 215, 363, 565, 866, 623, 446,
                473, 253, 482, 982, 55, 121, 581, 362, 380, 572, 631, 133,
                247, 450, 606, 248, 216, 712, 595, 580, 878, 8, 185, 42,
                939, 15, 640, 335, 940, 147, 996, 663, 394, 420, 821, 848,
                742, 325, 512, 644, 245, 28, 310, 901, 183, 593, 19, 24,
                194, 432, 585, 438, 372, 775, 214, 17, 164, 162, 217, 131,
                468, 906, 85, 602, 983, 531, 662, 842, 164, 972, 737, 238,
                463, 503, 735, 622, 846, 212, 265, 536, 821, 668, 249, 864,
                563, 673, 589, 573, 937, 298, 997, 169, 903, 558, 421, 28,
                627, 189, 136, 848, 775, 404, 585, 62, 809, 558, 951, 615,
                684, 92, 778, 332, 433, 761, 552, 116, 316, 153, 146, 119,
                917, 104, 576, 611, 965, 517, 555, 472, 905, 154, 735, 251,
                608, 950, 616, 836, 807, 956, 658, 557, 481, 670, 25, 244,
                230, 87, 735, 108, 193, 102, 266, 266, 800, 341, 436, 131,
                404, 609, 492, 849, 827, 676, 194, 823, 489, 138, 452, 883,
                741, 128, 730, 717, 441, 203, 227, 370, 116, 939, 93, 917,
                321, 161, 684, 187, 60, 856, 6, 932, 826, 585, 51, 745, 713,
                408, 952, 272, 480, 235, 811, 159, 470, 237, 629, 246, 600,
                122, 547, 297, 105, 420, 427, 16, 129, 72, 20, 261, 961,
                299, 25, 947, 944, 474, 796, 984, 216, 869, 927, 544, 316,
                725, 254, 400, 267, 838, 265, 558, 595, 758, 577, 803, 730,
                970, 633, 852, 821, 272, 6, 995, 641, 880, 640, 4, 335, 454,
                123, 904, 341, 735, 579, 452, 942, 363, 616, 533, 610, 884,
                195, 164, 401, 494, 767, 337, 774, 845, 446, 467, 901, 872,
                943, 796, 98, 488, 47, 735, 34, 398, 284, 848, 950, 497,
                147, 317, 289, 280, 210, 282, 800, 426, 248, 200, 416, 777,
                483, 834, 6, 360, 982, 234, 435, 21, 621, 110, 420, 664, 14,
                884, 240, 902, 405, 455, 22, 761, 782, 812, 564, 731, 699,
                268, 25, 362, 831, 372, 83, 455, 693, 660, 507, 985, 770,
                768, 732, 268, 290, 177, 206, 10, 984, 206, 3, 973, 197,
                440, 760, 867, 226, 594, 106, 220, 791, 95, 810, 339, 463,
                708, 887, 666, 529, 125, 765, 141, 713, 50, 500, 268, 602,
                387, 460, 754, 988, 377, 911, 53, 190, 272, 372, 535, 625,
                644, 101, 346, 604, 691, 492, 609, 448, 862, 813, 594, 672,
                564, 248, 886, 369, 439, 288, 716, 614, 712, 899, 138, 769,
                827, 679, 673, 841, 106, 275, 561, 111, 541, 607, 643, 53,
                923, 974, 563, 565, 951, 453, 966, 252, 697, 109, 872, 196,
                583, 73, 944, 896, 96, 558, 601, 507, 907, 783, 147, 193,
                799, 98, 505, 49, 875, 543, 957, 98, 601, 557, 618, 192, 69,
                737, 720, 585, 551, 722, 203, 702, 248, 342, 334, 350, 309,
                537, 429, 17, 201, 230, 939, 675, 770, 289, 469, 61, 402,
                825, 405, 470, 736, 173, 469, 202, 636, 726, 825, 45, 932,
                715, 411, 580, 208, 659, 968, 989, 414, 660, 241, 440, 505,
                536, 946, 557, 899, 917, 708, 709, 455, 746, 882, 649, 289,
                13, 783, 418, 252, 339, 304, 917, 295, 311, 564, 364, 499,
                601, 94, 735, 992, 819, 423, 794, 144, 573, 582, 158, 113,
                54, 511, 800, 380, 936, 499, 263, 445, 53, 589, 45, 93, 672,
                599, 516, 450, 596, 107, 67, 746, 643, 234, 566, 152, 450,
                823, 924, 640, 572, 478, 681, 781, 86, 499, 967, 56, 288,
                469, 624, 693, 550, 759, 840, 222, 235, 965, 643, 626, 134,
                30, 627, 214, 572, 741, 876, 387, 930, 666, 695, 369, 634,
                83, 942, 279, 876, 671, 461, 836, 443, 895, 600, 476, 247,
                477, 5, 702, 223, 828, 444, 355, 243, 746, 802, 224, 304,
                707, 832, 695, 68, 540, 898, 679, 756, 289, 413, 544, 522,
                842, 669, 22, 648, 836, 332, 360, 407, 473, 201, 673, 316,
                854, 117, 563, 332, 516, 356, 993, 63, 574, 84, 967, 384,
                882, 246, 399, 523, 992, 148, 397, 854, 844, 876, 461, 57,
                444, 539, 71, 658, 595, 921, 583, 101, 743, 510, 725, 915,
                750, 378, 991, 259, 849, 809, 178, 867, 631, 553, 635, 406,
                620, 385, 576, 805, 676, 310, 37, 85, 726, 504, 825, 457,
                599, 868, 355, 77, 119, 838, 932, 240, 429, 969, 125, 144,
                839, 670, 338, 816, 801, 82, 415, 804, 659, 957, 291, 909,
                713, 738, 446, 910, 629, 841, 874, 361, 883, 23, 200, 498,
                946, 425, 681, 134, 378, 917, 341, 63, 542, 476, 827, 378,
                724, 292, 353, 103, 981, 559, 160, 18, 937, 305, 895, 199,
                886, 777, 245, 592, 28, 167, 967, 609, 421, 509, 327, 635,
                147, 640, 926, 364, 747, 740, 960, 736, 997, 993, 917, 354,
                69, 883, 685, 448, 723, 953, 289, 507, 265, 894, 26, 853,
                300, 312, 525, 440, 794, 646, 650, 90, 704, 266, 215, 480,
                281, 669, 203, 575, 23, 88, 799, 898, 209, 638, 582, 996,
                149, 962, 128, 509, 111, 752, 747, 291, 698, 715, 605, 619,
                123, 425, 577, 236, 255, 515, 70, 849, 728, 857, 373, 948,
                971, 325, 804, 255, 860, 176, 803, 794, 137, 888, 192, 868,
                166, 624, 258, 13, 186, 81, 306, 586, 413, 773, 435, 177,
                475, 895, 493, 592, 111, 941, 819, 668, 658, 514, 961, 660,
                13, 46, 234, 91, 977, 659, 33, 16, 420, 62, 360, 523, 415,
                227, 148, 39, 553, 846, 903, 613, 805, 374, 10, 612, 72,
                351, 388, 200, 969, 146, 666, 798, 146, 107, 186, 643, 527,
                36, 836, 825, 766, 165, 712, 633, 307, 233, 893, 312, 795,
                780, 443, 430, 494, 441, 307, 151, 627, 684, 509, 450, 572,
                365, 727, 8, 965, 100, 650, 252, 344, 41, 306, 519, 469, 48,
                762, 95, 105, 195, 591, 442, 303, 482, 726, 808, 226, 38,
                589, 556, 480, 360, 330, 76, 724, 738, 81, 619, 787, 864,
                396, 135, 795, 462, 182, 649, 408, 531, 162, 947, 760, 312,
                452, 708, 400, 407, 612, 105, 511, 471, 562, 519, 372, 547,
                563, 643, 211, 809, 829, 783, 816, 264, 619, 943, 707, 528,
                646, 467, 129, 79, 299, 624, 693, 401, 459, 743, 374, 99,
                374, 16, 701, 730, 862, 629, 887, 724, 878, 208, 122, 113,
                388, 500, 360, 766, 610, 342, 426, 215, 870, 242, 621, 786,
                36, 485, 401, 649, 95, 536, 72, 759, 37, 513, 685, 16, 673,
                576, 802, 242, 248, 775, 566, 496, 213, 772, 946, 836, 231,
                203, 803, 851, 202, 115, 901, 472, 491, 854, 954, 115, 824,
                837, 773, 78, 966, 649, 520, 549, 795, 2, 953, 326, 899,
                149, 639, 447, 385, 988, 963, 37, 178, 735, 698, 926, 576,
                349, 28, 965, 3, 448, 337, 174, 458, 580, 262, 484, 909, 71,
                75, 14, 904, 47, 737, 296, 457, 404, 818, 588, 465, 337,
                898, 280, 520, 62, 51, 280, 919, 389, 218, 379, 6, 504, 197,
                77, 759, 781, 316, 994, 152, 580, 643, 649, 983, 207, 967,
                486, 509, 523, 773, 442, 983, 882, 389, 338, 133, 809, 194,
                310, 591, 933, 308, 722, 547, 14, 753, 334, 92, 822, 390,
                452, 430, 86, 697, 690, 877, 73, 926, 571, 153, 252, 119,
                375, 375, 736, 860, 615, 879, 175, 626, 479, 668, 660, 709,
                613, 12, 485, 774, 933, 14, 864, 994, 548, 897, 685, 900,
                254, 807, 514, 22, 979, 295, 57, 451, 89, 775, 135, 142,
                466, 314, 520, 707, 299, 462, 518, 400, 279, 707, 722, 282,
                331, 879, 734, 602, 584, 473, 123, 382, 497, 584, 381, 150,
                457, 685, 397, 715, 865, 711, 322, 76, 156, 337, 393, 299,
                852, 51, 633, 684, 602, 894, 705, 49, 763, 634, 620, 165,
                186, 404, 94, 935, 99, 935, 476, 924, 246, 879, 761, 925,
                602, 440, 719, 263, 722, 873, 548, 305, 755, 829, 736, 425,
                362, 68, 76, 460, 477, 796, 185, 107, 3, 225, 67, 128, 715,
                629, 759, 678, 383, 766, 281, 351, 603, 175, 190, 598, 671,
                420, 56, 53, 733, 938, 396, 144, 977, 239, 777, 370, 798,
                390, 963, 946, 604, 709, 333, 84, 800, 748, 402, 870, 727,
                413, 7, 919, 653, 857, 864, 799, 67, 387, 715, 632, 131,
                705, 948, 661, 765, 987, 203, 429, 465, 945, 587, 564, 403,
                943, 933, 73, 124, 222, 172, 66, 690, 447, 705, 598, 985,
                491, 398, 415, 978, 587, 252, 863, 65, 317, 151, 598, 321,
                510, 445, 198, 834, 940, 345, 350, 960, 334, 534, 251, 31,
                711, 813, 590, 54, 322, 552, 118, 340, 118, 757, 443, 319,
                582, 250, 179, 480, 602, 457, 195, 372, 890, 951, 840, 957,
                406, 495, 625, 806, 151, 443, 720, 567, 479, 965, 542, 364,
                465, 681, 505, 451, 707, 284, 278, 911, 605, 633, 297, 529,
                571, 292, 791, 344, 396, 872, 634, 83, 123, 648, 47, 14,
                673, 461, 286, 991, 486, 921, 148, 127, 844, 88, 629, 378,
                43, 480, 159, 319, 467, 681, 628, 681, 52, 332, 962, 976,
                646, 399, 447, 730, 449, 669, 807, 868, 138, 422, 912, 166,
                486, 308, 649, 283, 972, 502, 34, 338, 24, 178, 615, 358,
                460, 177, 702, 118, 404, 540, 304, 538, 1, 204, 379, 517,
                832, 937, 726, 853, 513, 655, 407, 186, 823, 632, 64, 641,
                725, 771, 385, 724, 763, 422, 693, 183, 548, 687, 797, 22,
                287, 866, 174, 236, 156, 760, 358, 552, 117, 686, 547, 361,
                208, 681, 90, 35, 441, 199, 415, 813, 109, 883, 569, 294,
                397, 479, 437, 10, 94, 822, 80, 423, 301, 287, 627, 59, 241,
                975, 312, 629, 528, 290, 622, 221, 534, 951, 980, 106, 536,
                507, 417, 574, 247, 362, 670, 34, 266, 465, 783, 584, 361,
                560, 126, 259, 22, 739, 522, 954, 717, 397, 444, 599, 94,
                846, 853, 215, 4, 849, 441, 576, 467, 704, 176, 392, 394,
                55, 340, 106, 439, 113, 54, 69, 162, 688, 99, 543, 960, 371,
                115, 241, 438, 970, 174, 436, 693, 344, 264, 569, 498, 453,
                691, 620, 117, 268, 469, 876, 400, 39, 647, 665, 830, 955,
                810, 305, 943, 133, 160, 161, 675, 787, 780, 164, 552, 992,
                146, 564, 824, 629, 530, 180, 759, 389, 509, 696, 640, 247,
                283, 706, 910, 174, 718, 413, 466, 218, 192, 819, 639, 996,
                75, 32, 765, 955, 213, 194, 860, 541, 207, 358, 784, 109,
                983, 167, 980, 503, 610, 993, 954, 226, 588, 482, 23, 632,
                388, 283, 768, 801, 102, 743, 502, 775, 991, 779, 22, 19,
                470, 670, 425, 242, 64, 527, 9, 285, 522, 64, 973, 860, 623,
                362, 879, 286, 548, 383, 979, 495, 829, 744, 490, 418, 593,
                280, 413, 270, 613, 241, 768, 996, 567, 774, 498, 588, 429,
                364, 312, 90, 256, 216, 120, 794, 343, 575, 314, 208, 968,
                796, 502, 33, 236, 535, 872, 456, 293, 963, 825, 204, 694,
                830, 716, 316, 513, 435, 543, 194, 365, 486, 433, 584, 718,
                377, 258, 325, 147, 628, 767, 938, 350, 654, 496, 25, 416,
                592, 138, 825, 883, 552, 911, 36, 949, 675, 63, 509, 157,
                724, 957, 593, 940, 397, 347, 587, 976, 490, 308, 899, 698,
                247, 827, 610, 745, 834, 552, 680, 929, 708, 862, 817, 530,
                534, 855, 219, 491, 515, 781, 571, 193, 274, 927, 645, 855,
                244, 291, 186, 406, 500, 933, 962, 107, 958, 808, 196, 914,
                868, 114, 852, 357, 41, 645, 80, 518, 171, 48, 761, 145,
                370, 492, 278, 15, 689, 370, 566, 328, 969, 739, 567, 363,
                637, 177, 25, 725, 25, 994, 39, 701, 120, 958, 736, 495,
                213, 988, 970, 492, 995, 601, 127, 591, 989, 602, 396, 802,
                663, 869, 863, 602, 669, 467, 74, 954, 438, 147, 758, 901,
                857, 295, 198, 76, 705, 686, 734, 77, 884, 533, 197, 533,
                805, 204, 439, 761, 521, 456, 344, 835, 287, 440, 387, 737,
                832, 426, 38, 261, 24, 449, 909, 675, 411, 449, 57, 189,
                476, 254, 369, 631, 872, 400, 723, 962, 974, 697, 530, 140,
                959, 695, 543, 676, 507, 56, 985, 171, 754, 312, 562, 419,
                897, 213, 132, 770, 512, 218, 138, 667, 219, 454, 336, 539,
                860, 258, 72, 895, 10, 121, 335, 711, 336, 90, 564, 722,
                876, 811, 779, 665, 856, 144, 612, 761, 474, 70, 29, 738,
                823, 993, 182, 188, 15, 2, 763, 667, 441, 502, 988, 890,
                771, 821, 42, 956, 984, 502, 587, 501, 833, 477, 372, 96,
                646, 510, 313, 867, 822, 824, 763, 583, 516, 826, 953, 824,
                37, 256, 655, 639, 940, 984, 185, 750, 827, 734, 402, 868,
                886, 425, 815, 92, 195, 798, 183, 896, 744, 29, 440, 650,
                520, 432, 895, 626, 865, 386, 339, 337, 430, 963, 108, 643,
                233, 767, 298, 27, 190, 0, 471, 159, 498, 899, 877, 980,
                638, 366, 757, 849, 824, 142, 41, 267, 262, 196, 604, 855,
                583, 804, 124, 831, 474, 631, 186, 488, 47, 571, 995, 397,
                944, 638, 234, 343, 304, 517, 529, 723, 797, 122, 876, 845,
                232, 713, 708, 666, 639, 627, 748, 370, 40, 19, 484, 764,
                264, 114, 481, 578, 542, 359, 995, 911, 581, 185, 946, 643,
                987, 586, 623, 779, 716, 258, 432, 242, 414, 829, 828, 48,
                298, 913, 8, 774, 827, 289, 27, 122, 225, 240, 311, 190,
                332, 541, 513, 868, 762, 550, 52, 331, 252, 241, 937, 937,
                469, 678, 803, 386, 482, 571, 10, 179, 652, 633, 381, 275,
                479, 214, 714, 669, 601, 492, 961, 911, 144, 570, 254, 570,
                880, 292, 994, 559, 238, 982, 48, 235, 492, 652, 919, 430,
                890, 955, 732, 85, 656, 927, 618, 894, 18, 982, 875, 222,
                374, 885, 781, 461, 714, 117, 26, 466, 988, 466, 229, 689,
                740, 789, 845, 41, 980, 574, 328, 54, 874, 522, 661, 602,
                641, 145, 164, 751, 348, 788, 363, 314, 300, 706, 636, 369,
                284, 265, 914, 859, 290, 845, 421, 363, 429, 819, 314, 696,
                580, 488, 751, 19, 790, 735, 102, 692, 95, 556, 507, 292,
                776, 748, 264, 73, 271, 331, 963, 285, 999, 63, 246, 383,
                606, 643, 807, 151, 874, 677, 342, 74, 400, 404, 546, 687,
                208, 285, 972, 415, 340, 816, 216, 19, 204, 523, 913, 455,
                483, 715, 55, 835, 582, 832, 836, 633, 633, 478, 321, 505,
                842, 201, 747, 372, 658, 233, 569, 893, 50, 287, 486, 237,
                350, 516, 488, 952, 30, 540, 691, 474, 76, 585, 841, 335,
                772, 619, 323, 848, 177, 967, 55, 57, 873, 593, 230, 470,
                333, 932, 304, 730, 351, 110, 911, 934, 92, 54, 293, 527,
                190, 303, 355, 218, 878, 552, 307, 333, 195, 362, 890, 861,
                855, 622, 281, 181, 537, 697, 732, 561, 564, 380, 351, 79,
                170, 177, 323, 806, 948, 502, 407, 987, 971, 196, 972, 563,
                990, 93, 512, 181, 52, 732, 756, 491, 993, 271, 949, 840,
                973, 320, 886, 372, 577, 731, 908, 380, 570, 375, 369, 328,
                438, 70, 855, 212, 224, 73, 443, 782, 513, 868, 343, 72,
                496, 139, 687, 448, 151, 441, 403, 106, 268, 502, 531, 966,
                340, 222, 783, 463, 238, 58, 341, 101, 148, 717, 48, 427,
                206, 882, 306, 24, 11, 735, 918, 987, 429, 690, 559, 156,
                798, 554, 680, 86, 108, 58, 474, 496, 137, 869, 130, 166,
                924, 285, 897, 879, 412, 408, 456, 343, 98, 757, 827, 527,
                641, 4, 140, 769, 330, 574, 716, 565, 22, 793, 321, 416,
                272, 552, 869, 576, 589, 612, 193, 742, 712, 590, 863, 465,
                194, 50, 80, 616, 6, 395, 958, 154, 560, 172, 633, 923, 359,
                628, 400, 232, 192, 382, 830, 251, 973, 13, 785, 152, 529,
                564, 906, 336, 255, 235, 184, 280, 59, 404, 859, 466, 659,
                331, 718, 444, 670, 801, 317, 999, 698, 536, 482, 828, 900,
                621, 507, 564, 567, 21, 954, 750, 429, 54, 748, 102, 796,
                382, 185, 717, 722, 119, 854, 80, 302, 787, 948, 195, 72,
                913, 134, 843, 943, 772, 65, 84, 683, 763, 955, 465, 301,
                126, 254, 187, 942, 671, 881, 129, 326, 575, 952, 509, 94,
                369, 731, 631, 587, 934, 524, 201, 721, 96, 843, 320, 134,
                368, 348, 622, 620, 140, 85, 220, 897, 273, 991, 406, 788,
                865, 590, 404, 51, 571, 74, 905, 142, 434, 99, 882, 926,
                687, 116, 198, 668, 728, 517, 102, 268, 207, 350, 821, 994,
                698, 782, 501, 164, 447, 210, 654, 833, 288, 852, 373, 844,
                818, 734, 185, 833, 439, 565, 749, 624, 313, 486, 228, 459,
                531, 980, 133, 112, 824, 256, 301, 621, 315, 819, 896, 452,
                217, 91, 50, 204, 802, 455, 226, 506, 932, 307, 662, 620,
                104, 95, 849, 772, 185, 38, 239, 433, 652, 462, 750, 799,
                506, 962, 483, 972, 466, 261, 70, 664, 181, 401, 595, 392,
                807, 146, 395, 84, 483, 319, 238, 840, 597, 907, 643, 902,
                940, 903, 979, 663, 346, 706, 107, 113, 877, 82, 831, 783,
                132, 873, 962, 600, 523, 76, 119, 529, 70, 448, 34, 530,
                477, 715, 746, 677, 904, 219, 604, 474, 397, 881, 379, 874,
                371, 763, 187, 156, 319, 14, 572, 903, 67, 949, 911, 527,
                163, 454, 961, 731, 252, 262, 296, 423, 268, 470, 576, 670,
                286, 806, 654, 334, 60, 900, 757, 598, 212, 991, 477, 750,
                857, 718, 535, 37, 428, 264, 589, 591, 943, 31, 910, 481,
                421, 678, 179, 797, 628, 456, 19, 672, 261, 734, 168, 447,
                777, 718, 759, 433, 736, 546, 917, 673, 156, 567, 812, 367,
                458, 732, 76, 739, 542, 56, 601, 761, 123, 849, 99, 589,
                136, 170, 157, 223, 10, 480, 927, 569, 712, 79, 82, 484,
                568, 710, 882, 166, 10, 811, 746, 480, 626, 186, 844, 756,
                34, 282, 613, 644, 443, 986, 950, 978, 76, 392, 530, 363,
                775, 250, 135, 968, 863, 473, 931, 700, 320, 914, 237, 43,
                263, 984, 504, 320, 342, 225, 619, 32, 703, 388, 946, 698,
                705, 654, 51, 117, 431, 879, 165, 421, 831, 213, 915, 406,
                521, 791, 429, 318, 885, 78, 86, 779, 546, 862, 946, 289,
                37, 727, 241, 941, 460, 554, 318, 578, 576, 163, 538, 565,
                729, 261, 216, 923, 965, 482, 346, 287, 182, 70, 100, 755,
                202, 841, 490, 559, 72, 251, 758, 502, 872, 267, 720, 977,
                177, 690, 287, 435, 167, 755, 486, 763, 300, 808, 228, 590,
                870, 315, 164, 529, 526, 963, 359, 91, 241, 544, 329, 27,
                580, 192, 880, 357, 741, 383, 183, 945, 805, 554, 854, 695,
                639, 26, 8, 905, 941, 131, 838, 360, 573, 552, 454, 408,
                332, 12, 220, 195, 220, 450, 91, 992, 786, 480, 654, 973,
                855, 109, 910, 184, 436, 399, 239, 133, 640, 435, 899, 418,
                62, 725, 908, 538, 51, 368, 130, 543, 792, 214, 177, 597,
                748, 299, 365, 978, 279, 150, 975, 316, 648, 94, 273, 323,
                385, 483, 205, 646, 207, 572, 834, 863, 898, 730, 129, 9,
                206, 159, 340, 920, 131, 108, 99, 695, 996, 66, 980, 783,
                874, 122, 883, 796, 654, 836, 651, 939, 384, 375, 846, 813,
                860, 717, 488, 573, 619, 85, 887, 663, 442, 935, 489, 887,
                827, 286, 231, 309, 552, 205, 968, 452, 476, 619, 123, 36,
                391, 136, 253, 449, 995, 801, 313, 207, 351, 580, 367, 319,
                185, 696, 388, 30, 613, 681, 394, 456, 756, 237, 748, 19,
                26, 746, 711, 38, 494, 773, 963, 739, 597, 630, 110, 474,
                246, 388, 905, 115, 153, 45, 68, 266, 69, 146, 45, 914, 474,
                223, 777, 574, 993, 282, 225, 429, 104, 731, 891, 487, 656,
                748, 736, 446, 294, 246, 996, 656, 644, 282, 63, 848, 773,
                873, 659, 191, 630, 461, 656, 254, 294, 183, 856, 734, 53,
                487, 821, 74, 932, 265, 626, 44, 432, 253, 115, 779, 607,
                286, 814, 674, 651, 946, 301, 976, 574, 208, 270, 862, 591,
                387, 965, 271, 523, 8, 473, 294, 126, 670, 87, 228, 248, 56,
                3, 513, 781, 160, 434, 469, 708, 438, 179, 262, 260, 932,
                554, 297, 781, 939, 993, 914, 524, 191, 578, 480, 303, 218,
                329, 217, 615, 87, 111, 172, 557, 970, 198, 784, 108, 230,
                333, 639, 230, 51, 800, 698, 968, 964, 438, 29, 294, 364,
                358, 423, 719, 529, 185, 901, 55, 980, 656, 45, 945, 77,
                145, 45, 836, 526, 593, 920, 568, 465, 28, 118, 485, 376,
                720, 478, 917, 756, 542, 515, 15, 582, 41, 406, 908, 99,
                272, 507, 567, 117, 815, 612, 808, 169, 167, 857, 652, 590,
                102, 269, 32, 904, 153, 151, 774, 718, 398, 799, 303, 5, 74,
                36, 833, 109, 187, 241, 989, 570, 580, 358, 281, 673, 369,
                708, 19, 342, 194, 401, 561, 42, 489, 628, 124, 750, 643,
                239, 693, 551, 441, 837, 144, 1, 822, 212, 72, 509, 876, 23,
                125, 286, 481, 393, 800, 384, 634, 170, 966, 171, 444, 52,
                787, 24, 63, 519, 520, 283, 782, 286, 638, 975, 219, 934,
                522, 0, 432, 103, 837, 252, 425, 763, 707, 638, 934, 929,
                698, 499, 255, 435, 410, 680, 534, 177, 924, 552, 522, 461,
                981, 636, 940, 329, 358, 430, 790, 531, 181, 245, 928, 803,
                146, 577, 228, 819, 623, 838, 751, 639, 866, 770, 845, 593,
                554, 13, 29, 738, 647, 491, 277, 44, 50, 793, 886, 150, 218,
                903, 84, 331, 194, 821, 865, 209, 392, 368, 501, 714, 138,
                392, 958, 124, 350, 388, 655, 879, 932, 417, 388, 783, 236,
                503, 982, 660, 275, 666, 763, 290, 575, 796, 820, 868, 923,
                371, 314, 167, 370, 604, 527, 647, 350, 968, 347, 896, 335,
                465, 679, 877, 56, 242, 581, 441, 899, 526, 631, 607, 421,
                729, 619, 891, 300, 107, 172, 573, 868, 316, 892, 206, 916,
                86, 582, 451, 381, 0, 648, 719, 36, 314, 97, 406, 924, 460,
                94, 123, 236, 773, 963, 79, 569, 293, 184, 251, 963, 85,
                320, 364, 800, 276, 455, 70, 901, 418, 879, 243, 973, 419,
                384, 772, 684, 597, 933, 631, 276, 127, 636, 532, 286, 922,
                623, 850, 17, 763, 479, 89, 22, 392, 506, 946, 374, 445,
                206, 490, 773, 524, 239, 705, 217, 501, 637, 740, 928, 249,
                891, 826, 421, 924, 289, 275, 734, 845, 706, 833, 649, 315,
                649, 847, 174, 542, 591, 292, 362, 642, 164, 815, 19, 45,
                597, 951, 27, 984, 86, 758, 529, 608, 814, 529, 503, 109,
                205, 283, 109, 84, 762, 288, 642, 512, 789, 728, 6, 886,
                626, 729, 895, 712, 507, 538, 274, 373, 413, 872, 271, 304,
                259, 932, 254, 313, 666, 372, 351, 101, 317, 854, 281, 91,
                321, 644, 565, 33, 868, 158, 939, 751, 224, 558, 684, 722,
                832, 8, 135, 190, 828, 469, 565, 308, 374, 337, 217, 72,
                766, 622, 690, 914, 208, 341, 164, 992, 174, 777, 316, 476,
                976, 148, 217, 816, 863, 879, 888, 397, 625, 690, 485, 957,
                110, 231, 28, 565, 514, 966, 661, 155, 22, 140, 734, 344,
                360, 374, 222, 604, 510, 444, 839, 915, 35, 876, 987, 373,
                645, 67, 296, 667, 634, 122, 258, 964, 665, 816, 527, 247,
                710, 571, 947, 344, 384, 740, 399, 724, 47, 439, 520, 917,
                649, 311, 521, 731, 339, 686, 825, 902, 470, 42, 160, 438,
                324, 592, 381, 283, 883, 551, 896, 580, 558, 608, 285, 341,
                664, 216, 979, 545, 444, 264, 727, 59, 403, 311, 65, 860,
                781, 426, 695, 159, 204, 468, 900, 624, 106, 619, 212, 560,
                587, 312, 752, 512, 505, 423, 305, 4, 306, 529, 657, 679,
                730, 492, 961, 745, 331, 977, 320, 750, 267, 240, 298, 689,
                537, 167, 772, 298, 340, 548, 624, 2, 623, 947, 928, 110,
                198, 787, 670, 530, 687, 988, 915, 150, 795, 641, 20, 606,
                96, 376, 919, 997, 860, 886, 75, 741, 856, 191, 53, 152,
                774, 813, 807, 494, 151, 426, 564, 596, 142, 172, 626, 296,
                632, 71, 109, 843, 790, 249, 114, 186, 561, 85, 407, 628,
                870, 93, 852, 363, 749, 658, 278, 930, 606, 747, 213, 90,
                306, 348, 973, 443, 860, 825, 469, 702, 7, 581, 857, 502,
                54, 199, 971, 502, 266, 431, 884, 644, 239, 876, 560, 396,
                668, 737, 88, 328, 988, 977, 363, 694, 981, 835, 694, 215,
                756, 419, 894, 506, 358, 288, 815, 991, 904, 661, 209, 194,
                729, 444, 693, 714, 187, 426, 757, 848, 925, 964, 106, 160,
                850, 806, 329, 910, 946, 541, 98, 852, 264, 341, 161, 796,
                271, 20, 797, 854, 178, 209, 804, 353, 348, 253, 603, 735,
                612, 449, 765, 103, 922, 83, 548, 210, 675, 602, 396, 956,
                713, 688, 388, 686, 268, 440, 570, 495, 840, 828, 593, 536,
                882, 34, 503, 631, 323, 74, 306, 627, 694, 863, 98, 211,
                210, 917, 22, 843, 433, 93, 235, 872, 223, 737, 332, 464,
                538, 94, 965, 588, 341, 300, 20, 802, 314, 72, 165, 177,
                597, 743, 302, 417, 533, 669, 463, 839, 144, 3, 929, 413,
                112, 372, 820, 964, 715, 514, 838, 940, 833, 380, 458, 457,
                365, 533, 489, 590, 389, 708, 636, 918, 57, 737, 70, 410,
                917, 113, 563, 700, 891, 396, 57, 668, 556, 339, 38, 716,
                198, 607, 445, 987, 806, 57, 366, 844, 456, 505, 347, 80,
                995, 549, 571, 391, 613, 913, 770, 657, 743, 871, 383, 530,
                474, 530, 837, 69, 618, 1, 714, 341, 386, 887, 733, 521,
                554, 294, 639, 999, 761, 276, 483, 430, 601, 254, 257, 597,
                958, 661, 1, 189, 910, 520, 285, 622, 174, 256, 480, 297,
                423, 535, 43, 846, 271, 895, 366, 850, 460, 312, 322, 180,
                485, 490, 447, 508, 593, 881, 436, 267, 606, 796, 553, 160,
                570, 134, 458, 939, 843, 276, 5, 306, 26, 81, 565, 18, 18,
                855, 599, 142, 946, 681, 453, 952, 634, 753, 112, 821, 145,
                303, 815, 518, 682, 125, 226, 521, 328, 500, 608, 863, 841,
                559, 772, 43, 969, 857, 530, 636, 479, 945, 282, 480, 572,
                747, 972, 825, 577, 225, 940, 204, 884, 615, 104, 380, 15,
                393, 490, 514, 353, 591, 538, 148, 202, 93, 860, 860, 140,
                71, 958, 625, 775, 624, 147, 948, 23, 403, 460, 130, 844,
                972, 707, 695, 602, 102, 602, 920, 210, 795, 501, 651, 449,
                768, 613, 208, 697, 188, 261, 992, 957, 858, 24, 395, 111,
                918, 84, 665, 666, 443, 66, 588, 691, 563, 895, 650, 451,
                385, 423, 493, 134, 917, 556, 310, 615, 492, 899, 938, 763,
                16, 761, 901, 645, 475, 325, 115, 529, 587, 10, 123, 145,
                139, 71, 577, 663, 971, 752, 330, 392, 808, 458, 665, 741,
                674, 490, 202, 554, 636, 672, 291, 699, 518, 921, 178, 243,
                963, 609, 790, 621, 915, 508, 841, 552, 573, 783, 794, 609,
                832, 595, 477, 876, 193, 945, 652, 36, 431, 650, 845, 554,
                980, 612, 994, 679, 409, 460, 971, 235, 580, 434, 465, 954,
                503, 709, 804, 251, 262, 40, 264, 88, 565, 981, 944, 507,
                971, 486, 669, 879, 503, 533, 994, 800, 281, 595, 834, 751,
                465, 483, 960, 725, 620, 766, 221, 238, 887, 191, 818, 950,
                778, 342, 623, 517, 71, 972, 654 >>,
            z |-> << -18827, 10286, -53, 30648, 18374, -9650, 8763, -1952, 8763,
                -1226, -22463, -12479, -4340, -1118, 13348, -5045, 8714,
                3461, 9555, 4162, -6712, 1086, -18781, 6711, 12277, 22202,
                2, 22202, 11401, -20608, -993, -20608, -11176, -4049, -4276,
                8222, -1771, 8222, -1771, 4627, -1771, 4627, 27, 4627,
                -13743, -3388, -13743, -3388, -13743, -3388, -20166, -8426,
                -19697, 10633, 16131, 5246, -17677, -7087, 4207, 11308,
                -15482, -1661, -15482, 9823, -10808, -945, -12805, 4287,
                -12805, 4287, -12805, 1917, 13084, 2360, -20598, -16386,
                8183, -8908, -15404, 5448, 10577, -18376, 3038, -18376,
                3038, -18376, 884, -11233, 3806, -6455, 5381, 9282, -8456,
                1872, 6098, 6250, 6098, 6250, 13215, 2057, 13215, 16933,
                -9036, -11348, -5531, -14250, 7640, 12192, 3711, -10275,
                -1708, -18139, -1616, 7, 16858, -4041, 14560, 2998, -3110,
                -8997, -10286, -8237, -10286, -8237, -10286, 7456, -6463,
                -6215, -5023, 1177, -2936, 213, 11398, -6867, 3492, -6867,
                14026, 8164, -12018, 5236, -13005, 5814, -10258, -2776,
                -8081, -2726, -8081, -6229, -6655, 2827, 873, 2827, 873,
                -30961, -17366, -9206, 2396, -16095, -5738, -5941, -1840,
                -5168, -1840, -14329, -5325, 2641, -10534, 2641, -10534,
                5209, -2583, 5209, -2583, 5209, -697, -10520, 1568, -13632,
                8377, -2400, 9664, 5559, 6117, 8228, -6834, -12959, -2884,
                2650, 13904, 5704, -1171, -12427, -630, 16304, -5032,
                -17875, -12899, 3808, -11228, 1117, -11228, 1804, -1514,
                -23421, -18501, -12143, 5659, 3317, 10567, 5027, 10567,
                5027, 5518, 3611, 2911, 4414, 9755, -15102, 1227, 11398,
                4275, 4591, 7722, 4105, 7722, -2558, -7416, -13423, -433,
                -13423, -5675, 6981, -4748, -8308, -13, -8308, 1449, -5876,
                -16925, 566, -16925, 5319, -1931, 10828, 4386, -8049, -2446,
                -830, 19302, -830, 19302, -830, 19302, 10272, -3251, 2089,
                3598, -3589, 3598, 15551, -39, 15551, -11951, 241, -11951,
                1995, -5563, -1913, -5563, -1913, 10691, 3447, -14267, -147,
                9032, -573, -1114, -573, -1114, -573, -6838, -573, -6838,
                4221, -9244, -3754, 19581, -11786, 5381, 14418, 509, 14418,
                6380, 2522, 18411, 5310, -4319, 9564, -4319, 9564, -4319,
                -9928, 4621, 2433, -1661, 6149, 10639, 6149, 10639, 4579,
                -6796, -4969, 8993, -4969, 8993, -3657, 9901, 10358, 9901,
                10358, 9901, 10358, -4314, -5688, -8985, 3664, 9030, -15134,
                -14897, 10187, -10388, 629, 15928, 5574, 11731, -5471,
                -2493, 9489, -5542, 9489, 4723, 4768, -10882, -4580, 9211,
                -5201, -3420, -676, -11811, 4498, -10755, 2861, -2680,
                13284, 7844, -1594, 13026, -3488, 13026, -3488, 13026,
                -3488, -8668, -1276, 5437, 20219, -7675, 8296, -9960, 8296,
                -9960, -1594, -1910, -1594, 11893, 6377, 11893, -4178,
                11893, -4955, -14285, -4955, -14285, 4201, -14285, 4201,
                -14285, 4201, 20652, 10795, -5017, 7294, 5157, 8394, 5157,
                8394, -5167, -8446, -5167, -8446, 10397, -636, -23611,
                -13804, 5798, 6030, 13432, 5678, 11610, 7309, 11610, 7309,
                11610, 7309, 11610, 7176, -10779, -9569, -10779, -9569,
                10831, -2993, 3398, 8505, 5910, 8505, 5910, -2031, -3853,
                4907, -19358, -964, -10851, -1559, 12867, 1455, 14762,
                20023, -11002, 7397, -4900, -3151, 14633, 13102, 5064, 6828,
                -6460, 668, -12843, 5395, -10919, 4559, 2907, 12699, -11097,
                -7732, -12328, -13407, -5053, 5998, -518, -460, -11422,
                -3331, 13595, -7085, -6160, -3457, 17643, -1579, 12142,
                4271, 5470, 5566, 5470, 5566, 2426, 11942, 10320, -3344,
                -4218, 7971, -10963, 1964, -3429, -8695, -3429, -8695,
                -6987, -3815, -9577, 7469, -2030, 8499, 12890, -5859, 3910,
                -5099, 12599, -8406, 5122, 11838, -516, 11838, -1494,
                -16090, 4379, 2677, -7413, 4147, -8180, 4147, -8180, -4345,
                13918, 4675, 10356, 4675, 10356, -3816, 12476, -2262, -4580,
                10024, -4580, 13013, -16297, 4916, -2669, -2994, -7230,
                -2994, -7230, -2994, -18369, 189, -11175, -5550, 2462,
                -5550, 4483, 9879, -4305, 9879, -4305, 4951, 11679, 2097,
                13616, 2144, -22100, 14523, -7467, -5371, -5015, -2326,
                -15753, -5157, -6329, 1557, -14579, -8044, 10221, -1383,
                10221, -17821, 2287, -17821, 11674, -7834, -2763, -2989,
                -2763, -2989, -15571, 2483, 1331, 2483, -6990, 6605, -6990,
                4810, 8298, -2285, -4530, -6987, 3725, 10034, -13340, -3685,
                511, 2821, 511, 5621, 6157, -5951, 6157, -5951, -11956, -30,
                17645, 9279, -5153, -770, -24989, 7320, -1924, -9226, 1400,
                24033, 1410, -25862, 7451, -2283, 11124, 856, -3719, 1976,
                -1279, 1976, 3369, 1976, 3369, 7651, 3369, -8309, -1225,
                17820, 9934, -930, 29137, -17678, 9670, -3832, 5029, 850,
                -20755, 850, -20755, 12111, 7683, 1914, 7683, -2233, -4339,
                -14601, -3115, -1264, -3115, -1809, -7874, -1809, 22582,
                13535, -6685, 12785, -12064, -7785, 10625, 3841, -18499,
                12477, -14704, -333, 13146, -333, 13146, -333, 13146, -4870,
                -6148, -4870, -6148, 7738, -1737, -11168, -2808, 17276,
                6895, -17251, 606, -17251, -9343, 7673, 1746, 7067, -1104,
                9528, -8194, -2681, -4181, -4627, -5106, -4627, -5106,
                -4627, -5106, -4627, 1710, -4627, -3193, -4563, -3193,
                13667, 2445, 12042, -26384, 9150, 3931, -5053, 3931, -5053,
                3931, -5053, 4279, -5053, 4279, 13549, 18016, 5060, -16300,
                1542, -16300, 8590, 2874, -7668, 9254, 998, 9254, 9205,
                -817, 17571, -9310, -3207, 5511, -4371, 5511, 12070, 11968,
                -8967, 4914, 6205, 3465, 6205, -2732, -7588, -2737, 2731,
                -1379, 2731, -3387, 1780, -3387, 1780, -3387, -13709, 4709,
                4608, -3265, 4608, 564, 3516, 564, 3516, 15233, 4857, 4226,
                8065, -12516, -7075, -2578, -5009, -11512, 17025, -2343,
                22775, -12527, -15100, -4687, 14453, 7188, 8307, 8939,
                -4530, -7265, 8984, -4619, -18065, -12873, 5454, 5642,
                15087, 4444, 19915, -17763, -10640, -2979, -798, 26523,
                -9139, 2687, 8215, -7216, 11307, 3827, -5857, 3827, -5857,
                -11288, 4209, 2323, 4209, -470, 3476, -1833, -10821, -2929,
                -10821, 2557, -963, -9878, -963, -9878, 3280, 9111, -6426,
                -10802, 10369, 5851, 10863, 18369, 1560, 18369, 19113,
                12732, 4891, 21919, -77, 21919, 4610, -15168, -6324, 4553,
                541, 5358, 541, 10691, 2673, -14807, -10716, -3920, -2182,
                10572, -2182, 10572, -5550, 277, -5550, -512, -8452, -512,
                -8452, 5606, 1278, 5606, -9062, 3177, 16177, -1095, 16177,
                -1095, 16177, -9382, -1046, -17155, 4883, -12189, -5302,
                3414, -6518, 9020, -6518, 9020, 16450, 6025, 19371, 11188,
                -4179, -287, -4179, 5002, -6360, 5002, -6360, -4825, 4853,
                5790, 5766, 13004, 1965, 13004, -7459, -9634, 906, -9634,
                3076, -7581, -18307, -15507, 6940, -1300, -5266, 738,
                -19288, -10292, 18450, -11276, -5614, -6345, 1369, -6345,
                3232, 6315, 4597, 6315, 4597, 6315, 12898, -1430, 12898,
                4814, -182, 4814, -6662, -4115, -6662, -10903, 10727, 8533,
                -5911, -258, 4628, -258, 4628, -258, 4628, 169, 22966,
                -13630, -6576, -24694, -9958, -2199, 1415, -1238, -12246,
                4664, 6931, 7113, 1399, -14186, 1399, -14186, -5199, 12367,
                4067, 12367, 4067, 3546, -3841, 2974, 302, 2974, 4124, 7481,
                2036, 9744, -775, 9744, -775, 9744, 2958, 2094, 2958,
                -21027, -12140, 4875, -6388, -10645, -6388, -10645, -16009,
                -4894, 365, 8254, 16350, 3195, 16350, 8639, 12365, 5791,
                3302, -2222, 3302, -2222, 3302, -1146, -12874, -1146,
                -12874, 4723, -4832, -8452, 3572, 16052, 14230, -2209,
                23883, -13294, -4397, -13294, -4397, -4561, 3136, -2342,
                -8536, 3569, 11690, -5860, 5893, -9377, 5893, -9377, -11119,
                -7484, 9600, 1580, -7453, 1296, -18922, -1649, -26305,
                -17072, -12849, 18756, -13857, 5660, 11653, 5226, -6664,
                4950, -6664, 4950, -6664, -675, 19464, 14425, 6139, 11553,
                6139, 11553, 9646, 11553, 9646, 8228, 15620, -13323, -5348,
                1684, 5290, 3894, -25395, 834, -25395, -9631, -2000, -6469,
                9594, -9428, 6347, -9118, 11499, -7482, 4226, 477, -14939,
                6066, 10810, 821, 21832, -10938, -5337, 5150, 5447, 2584,
                5447, 2584, 5447, -814, -13022, 24138, 258, 24138, 21028,
                3249, -18822, 5239, 1694, -945, -1075, -945, -7443, -3161,
                -13894, 4397, 4316, 2781, -5322, 2781, -10680, -3812, 9441,
                -446, -24103, 15487, -14033, 8535, -4486, -9454, 4289,
                18538, 10469, -1924, -8053, 10435, 8068, 10435, 8068, 10435,
                1431, 10435, 1026, -12425, 1026, -12425, -4683, 9177, -3266,
                -5016, 4788, -5838, -242, -15392, -10938, -2184, 12521,
                -1920, 8105, 2178, -9667, -6069, -21115, -18897, -1746, 232,
                17530, -4812, -17730, 18473, 8805, -1036, 25343, 19559,
                -2393, 690, -14301, 6641, 13959, 7684, -5496, -3324, 12080,
                13911, -13836, 1137, -13836, -2748, 1334, 5882, 12955, 6472,
                12955, -6468, -2332, -6665, 20822, -11736, 5015, -9360,
                1726, -1341, -6251, 3676, -6251, 2600, -4108, 2600, -4108,
                15959, -6466, 15959, 9031, -7681, -8639, -7950, 17328,
                10381, -9277, -3799, -13396, -3799, -13396, -8723, 12015,
                -13876, -1639, -13876, -2996, 581, 20485, 14841, -3142,
                -1210, -11929, 2192, 1339, 11076, -10510, 11076, 3834, 5265,
                -7368, -9763, 2610, -14030, -6835, -6472, -9327, -4440,
                -9327, 3503, -353, 3503, 10068, 5138, 10068, -9721, -7981,
                4290, 10632, 4290, 10632, 4290, 10632, 13190, 16031, 15610,
                8171, -2709, 4166, -2709, -11780, -1603, 1199, -3797, 9638,
                -3797, -17040, 7415, 2486, 7415, 2486, 4966, -1702, -3564,
                -1702, -955, -1702, -2676, 6892, -2676, -7675, 4204, -8933,
                -5869, 7165, -5869, 7165, 782, 20933, 12306, 4931, 7945,
                5609, -19918, 13928, 4217, -14121, -22238, -14121, -22238,
                -405, -22238, 12422, 5948, 12463, 5948, 12463, 13930, -6864,
                -11306, 4870, 1968, 4870, 1968, -4105, -3115, 20167, 10131,
                6904, 1827, -12632, 1827, -12632, -603, -12632, -5928, 5789,
                2107, 8916, 1353, -3601, 1353, -18025, -7836, -447, -3574,
                -400, 15101, -10414, 749, -10414, 5748, -2295, 5748, 4082,
                -11944, -1887, 7087, 1850, -8666, 18882, -16982, -11510,
                -12579, -8898, -8751, 17591, -11710, 15203, 6921, 3425,
                -4371, 785, -17921, -394, -10828, -394, -10828, 4008, 4925,
                -2644, 8117, 9265, 8117, 9265, -8475, -10513, -3569, 1411,
                -7925, -1240, -7925, 2653, -11902, 3673, -2022, 13770,
                -2022, 13770, -2022, 13770, -6052, -17821, -9018, -5858,
                9456, 10688, 3226, -9166, -12765, -16674, -1165, 3720, 2145,
                -18336, 2145, -18336, -13209, 11710, 19190, -9428, -3880,
                -3129, 21837, -14341, -7881, 7042, 7165, 15211, 9893,
                -13932, 4664, -13932, 4664, -13932, 4664, -13932, 4664,
                -13893, -10506, -13893, -10506, -13893, 12458, 3386, 4619,
                -8383, 1499, 22189, -12744, 6230, -2877, 6230, -2877, 3643,
                -2877, -2966, 19354, -2966, 19354, -14504, -20266, 12830,
                -6917, -3179, -4588, -3179, -4588, -4306, -924, 8994, 2102,
                1911, 2102, 231, 20656, 9499, -2853, -8747, -2210, -8747,
                -2210, 3387, 17356, 7365, 10468, -4142, -6887, 2650, 13100,
                5250, -11784, 5802, 1895, 18744, 8894, 15417, 6806, -1605,
                -20432, 1304, -20432, 1304, -20432, -4176, 797, -11684,
                -3240, -4832, 4251, -4832, 15495, -6685, 6063, 2541, 6063,
                1312, 15469, -6042, 1222, -6757, -7429, 15208, 3115, -10032,
                -3479, -8720, -1454, 18838, 1763, 18838, 1763, 18838, 4109,
                201, 27972, -12842, 9060, -8941, 4757, -8941, 6259, 5341,
                1333, 11002, 4076, 7090, 1204, 7090, -9078, 20577, -7929,
                -2009, -7929, -2009, 2232, -5153, -989, -9111, -2873, -9111,
                8261, -5795, -7714, -10628, -2630, 16720, -1696, 11959,
                2834, 5161, -10230, 4988, -423, -11374, -1475, 10088, 3357,
                -5838, 3862, 9283, -4668, -13902, -6280, -6099, -8696,
                -9155, -2448, -9155, -2448, -9155, 4892, -9738, -5920, 3181,
                -5920, 3181, -5920, 3181, -5920, -6904, 8590, -6904, 5518,
                -15861, -1539, -15861, 6826, -4152, -1048, -15879, 6469,
                -13385, 5743, -9596, 1309, -18235, -6167, -1832, -16786,
                -2981, 14367, -393, 14367, -393, 14367, -393, 14367, -393,
                14367, -393, 14367, 4216, -19193, 4216, -19193, 796, -19193,
                11427, -9396, -6005, -15182, 7342, -5032, 4124, 20891,
                14493, 4511, 13255, 6301, 9956, 824, 9956, 2929, -5634,
                3178, 8564, 3178, 8564, 3178, -5538, -10426, -5538, -10426,
                12462, -2738, 12462, 5359, -13283, 6773, -1629, 13108, 6678,
                23135, 9066, -1714, -4665, -3377, -1402, 15824, -7120,
                11522, 5530, -1829, -15058, 9271, -257, -692, -257, -692,
                -257, -6338, -934, -15598, -934, -15598, 7609, -11810, -30,
                -11810, -4405, -11581, -10189, -9007, -6806, 8863, -3309,
                -15424, -7587, -3686, 14137, -883, 12626, -3699, -3675,
                -3699, -3675, -3699, -3675, 545, -8600, -1906, 18094, -3057,
                3539, -3057, 3539, -2003, -10615, -4062, 6163, 7531, 6163,
                2721, 16492, 9169, -10630, 10647, -611, 10647, -4215, -7100,
                -894, 18723, 10571, 1022, 3416, 7653, 7332, 7653, -9142,
                -9213, -8595, -4982, -2666, 15452, -2666, 15452, -2666,
                15452, -2666, 15452, 5299, -3548, 4827, -8930, -2162, 6671,
                -959, -4700, -5500, -4700, 18252, 6305, 3265, 3600, -10661,
                3375, -5413, 4347, -1087, 6, -17533, 6656, -16158, -7921,
                16085, 7458, -6083, 7458, -6083, -7875, -6083, -7875, 6173,
                22305, 14795, -7648, -2867, 11168, 16015, -795, 24562,
                -10062, 11056, 2700, 3764, 16928, 6969, -15679, 4764, -2892,
                -9303, -17420, 10113, 7911, 15003, 5579, 6251, 3821, 6251,
                5189, 11587, 9219, 4612, -3112, 4612, -9690, 1056, 22620,
                16237, -4817, 558, 18724, 558, 18724, 6004, -636, 5026,
                -6537, 8435, -6537, 3613, -2495, 3613, -7371, 20876, 1292,
                20876, 1292, 20876, 1745, 9060, 1039, -4936, -3413, 5501,
                -6479, 128, -6479, 5815, 1220, 5815, 11962, 2120, 11962,
                20759, -12050, 8976, 1232, 8976, 6249, 13191, 17245, -8763,
                6503, -10310, -7647, -12832, -12047, -13401, 3761, -23880,
                -3168, 11110, -6254, 11110, 1751, 11110, -7532, -2688,
                -7156, -1424, 11883, -3456, -7578, 17085, -7504, -1191,
                -14246, 5418, 13662, 7890, 1639, -6658, 1639, -6658, 16000,
                -13670, 6131, 1961, 17781, -261, 17781, -12004, -3597, 2850,
                31936, 6640, 832, 9157, 10280, 2346, 10280, -3827, 16367,
                5155, 3227, -13250, -4003, -15369, -4003, -15369, -7933,
                -12741, 5174, -2388, -10385, 6196, -19812, -108, 25223,
                -8184, 2531, -3023, 13661, -3023, 13661, -4367, 2280, 18399,
                -11563, 172, 14261, 172, 14261, -4872, 6069, -3, -17327,
                -3848, -6470, 1206, -5407, 9605, 2751, 9605, 4031, -28616,
                22031, -8928, 7562, 639, 7562, -12492, 3792, -11553, -1688,
                12858, 9818, 2093, 9818, -7837, 19915, 10624, 5220, -7,
                5220, -2608, -1142, -2608, 22674, 14807, 4866, 15675, 6281,
                -4556, -7120, 12993, 941, 12993, -9596, -12515, 860, -12515,
                3568, 15840, 5589, -2813, 6580, 2031, 12424, -9654, 14244,
                -6928, 6375, -905, 6375, 3612, -4493, 12380, -2025, 9402,
                2231, -5768, -16418, -1435, -1938, 5945, -9893, 5945, -2126,
                -20196, -12687, 8102, 7715, -6017, -7266, 10905, 8383, 5161,
                -4216, 713, 9387, 3023, 11236, -8144, -6748, 11782, 13481,
                12258, 4606, 10154, 93, 10154, -4771, -11643, -11504, -7071,
                -14248, 6115, -11993, 8441, -18935, 1665, -18935, 2066,
                -22119, 1175, -8095, 1175, -8095, 9034, -929, 9034, -3222,
                -5734, 5802, 2433, 10592, -3119, 10592, 1496, -6883, -1079,
                -6883, -841, 16358, -7710, 2079, 10309, 7438, 1506, -8900,
                2740, 750, 17830, 4172, 1802, -6693, 6701, 3486, 6701, 3486,
                -4863, 2347, 3370, 8377, 20697, -12016, 17203, -14433,
                12529, 13190, 5897, -11883, -436, 362, 2305, 362, 13093,
                -1669, 22782, 10053, -3539, -6366, -4154, 4469, -4154, 4469,
                -4154, 4469, 1821, 4714, 1821, 4714, -11971, 10437, 5066,
                13066, -1586, 13066, 5700, 3329, 2619, 5181, 2619, 9955,
                -3715, 8615, 2333, 10487, 8497, -3283, 8497, -75, 6751, -75,
                6751, -1043, 17907, -8071, -3224, 7158, -2383, -5086, 697,
                -15028, 12947, -4181, 14398, -9503, -9495, -7668, -12008,
                435, -12008, -1698, 6366, -1698, 6366, -968, 2250, 2568,
                -7184, 5376, -3896, 908, -13355, 908, -13355, 3398, -20575,
                11213, -9873, 3880, 6212, -2008, 13279, 8483, -5861, -2305,
                -5861, -2305, -5861, -2305, -5861, -5268, 3487, -5268,
                17197, 701, -17403, 701, -17403, 5052, -4500, -10655, -4500,
                -10655, 2634, -26339, 13979, 5741, 13384, -6901, 2642,
                -10365, -8538, -1038, -18101, 9465, -10696, 3468, -3739,
                827, -1385, 827, -1385, 5713, 10860, 276, -10019, 276,
                -10019, 276, -10019, 2991, 8237, -8487, 10256, 10776, 7510,
                16044, -9249, -2001, 17797, -14863, -7819, 1085, -7798,
                6843, 4636, 6843, -3526, 5066, 10323, -6221, 10323, -6221,
                6156, -2374, 4720, 5709, -4059, 3095, -1154, 3095, -1004,
                4069, -13905, 7581, -2400, 7581, -2400, 7581, -16811, 14188,
                -3473, -12695, -991, 9646, -149, 25869, -9215, 5324, 12016,
                5324, 12016, 1999, 5658, 1004, -2254, -2760, -2254, -2760,
                -2254, -6764, -2254, -6764, -472, -6764, -1784, 3767,
                -25417, -14308, -5411, 11795, 638, 11795, 12259, 2278,
                12259, -4888, -6778, -2067, -6778, -2067, -11990, -12523,
                4226, 10765, 4226, 10765, -4257, 5080, 4158, 5080, 4158,
                -5431, 5265, 3567, 5265, -6155, 5154, 8823, -14330, -10499,
                3691, -3171, 10103, 6236, -2945, -20378, -2277, -29126,
                -18247, -8362, 3753, 14760, 995, -29815, 21837, -19151,
                13752, -12621, 2799, -12621, 2799, -12621, -7767, -3440,
                -544, 1911, -27531, -6313, 3870, -3225, 3870, -717, 3870,
                -13228, -18152, -1724, 17734, 8359, -5835, 13246, 947,
                13246, -9698, -22310, -14041, -5604, 1910, 9461, -3319,
                2042, 12704, 4258, -2865, -10128, 3179, -1838, -13294, 5080,
                -10709, 8228, -12405, -7792, -4757, -7792, -4757, 17999,
                -7566, -15580, 17168, -8532, 274, -31123, 25631, 8563,
                -23033, 7945, 21794, 19710, -11880, 5983, 4659, 4905, 6019,
                -5799, 7226, 5607, 1216, 2531, 21592, -4716, -10820, 9144,
                -2289, 9144, 14814, -8287, -9496, 16590, -7130, -7990,
                -2503, -437, 6597, 10560, 6597, 3451, 8530, 3328, 6113,
                -2595, -3451, 81, -2583, 81, -22579, 12612, 5651, -16035,
                -8631, -14138, 4137, -3643, 6376, 12704, -25138, -170,
                -25138, 16919, -7192, 825, -7804, 157, 19824, 157, 19824,
                7888, 13317, 7888, 13317, -6207, -7991, 7980, 3542, -1636,
                -14909, 6667, -4817, -6991, -4817, -6991, 5816, 4123, -3704,
                -2634, -9731, -626, -9731, 11727, 4703, 3672, 4703, 3672,
                4703, 878, 2960, 878, 2960, 27631, 14126, -1223, 6820,
                -1223, 6820, -7719, 3919, -7719, -21358, 5610, 8961, 5610,
                8961, 5610, 8961, 4514, 1346, -18544, -1968, -93, -19799,
                -93, -19799, -10082, -1623, 23296, -15708, -1099, 8888,
                -8905, -3866, -8905, -3866, -8905, -3866, -8905, -3866,
                -22804, 12221, 3437, -9270, -20543, 7167, -2962, 1697,
                -7288, 4110, -380, 4110, -1917, -13207, -5512, -14171, 20,
                -14171, 7591, 993, 7591, -6885, 2632, 18354, 2632, 18354,
                13551, 22026, -149, 22026, -149, 22026, 31785, 15417, -3145,
                3292, -15970, -2659, -15970, -8602, 2613, -5263, -6065,
                8118, 6811, -1875, 11054, 3710, -3112, -6630, -7731, -6630,
                -9412, -3995, -9412, -22133, -8283, 2553, 10764, 7286, 1263,
                -11504, 1263, -11504, -4646, -5235, -2939, -14456, 14007,
                6439, 3219, 9197, -374, 4361, -3714, 20625, 12044, 12711,
                8197, 15462, -94, 15462, 143, 9336, 143, 9336, 143, 9336,
                3047, 6430, -2626, 7652, 670, -4303, -2942, -743, -2942,
                -743, -8640, 1119, -4783, -19454, -1071, -19454, 2188,
                18599, -10290, -3461, 14020, -24824, -15525, 9728, 10304,
                -9647, -9465, 7877, 3540, 6539, 14613, -7950, -10556, -2893,
                -492, 26673, -18113, -10418, -1413, 19183, -8952, 15562,
                6977, 4104, -9893, -5371, -10634, -4497, -10634, -15698,
                7935, 14387, 1478, 14387, 9061, 8719, 3145, -1808, 13435,
                6590, 13435, -10977, -3999, -3768, -8343, 8043, -403, 8043,
                -403, 8043, -1098, 5056, 3261, 627, 1707, -12026, 17137,
                -9691, 9009, 6411, 1379, -18531, 10583, 6748, 5351, -5034,
                -18935, -5973, -15532, -742, -15532, 14396, -5575, 8574,
                3928, 8574, 3928, 8574, 3928, 8574, 13182, 7688, -10085,
                13488, -7736, -9004, 11491, -11802, -4555, 3990, 16708,
                -8306, -6326, 1286, -1472, 1286, -1472, -10530, 7619, -5908,
                7619, -5908, 12030, -4645, 4255, 15614, 1342, 15614, -9861,
                -6186, -5805, 6338, -5805, 9956, 3900, -6052, 2295, 9209,
                2295, 9209, 15065, 3079, 15065, -1680, 15065, 8633, -9325,
                4030, 2090, 1474, 11766, -3253, -12107, -3253, -12107, 6650,
                1193, 14574, -20121, 6093, -5990, -3137, -5990, -3137,
                -5990, -5107, 1865, -5107, 17950, 7669, 1879, -59, -25110,
                -14709, 3382, 607, -15121, 5897, -8687, -1900, -8687, 3106,
                -16560, 1226, -29083, -13759, 4802, -12806, -1733, -12806,
                3356, -970, 4236, -16429, 8751, 3627, 8751, 3627, -6060,
                -1521, 5665, -10125, -3361, -8045, 3223, -3449, -18791,
                7975, -15235, -7213, -802, 24632, -9412, -13812, -4983,
                8431, -1201, -1040, -1201, -1040, -1201, 23489, 11885,
                -4105, -1881, 17191, 5182, -7962, 5338, 480, -21397, -5520,
                19622, 584, -30295, 17985, -10334, -9929, 4604, 2014, 16267,
                -14220, 2747, 25201, -17148, 9426, -6049, -11012, 9778,
                3286, -6954, -4185, 3387, -4185, -4347, -18007, -4347,
                -18007, 8242, -69, 8242, 2297, -13935, 2297, -13935, 2297,
                -13935, -4631, -251, -12363, -4788, -3504, 19651, 10372,
                14694, -3422, -1479, 2425, -11560, 306, -11560, -11313,
                16855, -3698, 19561, 10436, 3141, 8249, -2299, 8249, -19549,
                -500, -19549, 10486, -13186, -5354, 26, -5354, -800, 4190,
                -15523, 4190, -15523, -5943, -13053, 5561, -6750, -2377,
                9704, -18756, 3694, -235, 3368, -5049, 3368, 12747, 7013,
                1122, 7013, 442, 21498, -10278, -12529, 4639, 4520, -5849,
                1828, 13445, 9101, -5676, 14733, 9228, -4352, 17390, -9336,
                2007, 18869, 10028, 7068, -1902, 7068, -1902, -5308, -6043,
                4661, -6911, 7605, -10065, 3514, 4810, -20959, -11945, 6472,
                -6060, -13736, -646, -13736, -3709, 12702, 1772, -17328,
                1772, -17328, -7871, -4984, -27004, -2317, -17239, -1435,
                -17239, -1435, -17239, -10758, 8595, -5635, 5048, 10081,
                5048, 10081, 5048, -18379, 8601, -12884, 1871, 6271, 902,
                6698, 902, 6698, -26675, 16422, -15360, -7130, 14115, -1795,
                14873, -2544, 14873, 4135, -18143, 8734, -10431, -3728,
                1628, 6098, 1628, 6098, -11549, -7281, -11549, 21185, -8258,
                -3909, 1456, -3909, -1950, 20350, -1950, 20350, -10559,
                18520, -8736, -3925, -15305, -5839, -1613, -7486, -1439,
                -9772, -6324, 4942, -6324, 4942, -6324, 1011, 5584, -1149,
                -8667, -3057, -3647, 4571, 17987, -2465, 17987, -10478,
                -12605, 4787, -702, -30740, 18738, 9464, -8968, -3464,
                -2272, 10553, -2554, -4734, 1102, 13460, 9811, -5909, 3220,
                -5909, 3220, -2901, -338, -2901, 4808, 10722, 6548, -5621,
                1909, 2026, 12629, 2058, 12629, 4448, 5272, -13273, 5578,
                -5959, 1991, 19278, 9902, -12949, -8325, 9916, 5189, -6421,
                5491, -6421, -9457, -14963, -6294, 5000, 4821, -6159, 3655,
                -6159, 3655, -6159, 3655, -6159, 3655, 1314, -14360, -5728,
                12038, -2975, 24584, 30, 24584, 30, 24584, -5210, 4580,
                -5210, 4580, -5210, -4338, 552, -13273, -15063, 9470, 6903,
                -881, 2782, 191, 15430, -237, 20294, -237, 20294, -237,
                20294, -7945, -15168, -2609, 467, -2609, -7379, 1922, -7379,
                3368, -14859, 3368, -14859, 8721, -3661, 4005, -21686, 2252,
                -39, 12922, 5307, -689, -26725, 17873, -15828, -6358,
                -15808, 7272, -13821, 7785, 14692, -96, 14692, -96, 26321,
                -15240, -19289, -14222, -5857, -2221, -8170, -3694, 2422,
                -5972, 8943, -17697, -10256, 131, -5301, 131, -5301, 10703,
                2120, 10703, -1228, -18212, -4830, 6487, -4830, 6487, 8871,
                5319, -9704, 1456, -27920, 15258, -13763, -5135, -2329,
                -27641, 19437, 16239, -8134, -13957, -8418, -8782, 3669,
                13019, 13185, -1781, 13185, -539, -4579, -667, 17536,
                -10500, 2242, 8590, 1378, 8590, 1360, -4591, 1360, -4591,
                159, -12289, 4898, 6347, 1048, 6347, -1443, -16580, 10188,
                3466, -83, -19539, 6249, 2998, -10441, 6900, 3887, 14349,
                6960, 1940, 19005, 4896, 1863, 7312, 2534, 1275, 23256,
                11527, -3888, -472, 31863, 15133, 3650, -13251, -6198, 3294,
                2061, 9494, -4236, -8137, -8891, -3726, 85, 7546, -5304,
                -3923, -5304, -3923, -5304, -3923, -3875, -3923, -3875,
                -3923, -3875, 1196, -6504, 374, -12913, -5724, -3641, -5724,
                -3641, -1277, -18027, -9957, 10158, -9957, 10158, -18651,
                557, -19508, 4541, -19508, 13775, -10975, -6878, -300,
                -6878, -300, -6878, -300, -6878, -300, -14931, -300, -14931,
                -83, 1879, -83, 1879, 2452, -9796, 2452, 1347, 99, -15818,
                12656, 5833, 8444, 16488, 2866, 16488, -3847, -7929, -11410,
                -790, -11410, 4348, 3616, -9289, -4374, -9289, 10333, 2160,
                10333, 11210, -3224, -13998, 879, -13998, 1556, 13850,
                -5582, -2825, 15400, 1329, -27337, -20506, 9969, -5128,
                -4848, -20696, 14480, 7307, -2667, -5168, -453, 8715, -453,
                8715, 2685, -8708, -12530, -6766, -16744, -1058, -16744,
                -7216, 14111, 9163, -2634, 15438, -11401, 2885, -11401,
                2885, -11401, 4199, 378, 4199, 19503, 913, -6949, 5282,
                -8028, 5282, -8028, 6106, -19842, 8994, -1689, -4195, 3590,
                717, -15144, -4676, 4005, -11216, -2404, -20037, 4901,
                11266, -4191, -2396, 12461, -3485, 12461, -3485, 12461,
                -9673, -6560, 1349, 16825, 6300, 1937, 5617, 6675, 8919,
                13778, 3270, 13778, -1550, -7747, 7531, -4790, 7531, -4790,
                -6646, -4790, -6646, 7389, -6646, 7389, -6646, 1133, 3013,
                6333, 2555, 6333, 26436, 15, 26436, 15, 26436, 496, 12747,
                -847, -22891, -7787, 2662, 1545, -19815, 7833, 1937, 4216,
                5346, 4649, 5335, 12997, 7959, 12507, 7959, 12507, 7959,
                12507, 5357, 5804, 6982, 5804, 6982, 5419, -6319, 10087,
                12803, -1862, 12803, 5588, -5416, 5588, -5416, 19770, 2790,
                19770, -579, 19770, 2913, -26833, 9279, 2631, 9595, -3068,
                -15784, -12593, -7970, 4993, -12472, 2937, -12472, 7520,
                -7621, -12276, -60, -12276, -60, -12276, -60, 9487, 154,
                -13576, 154, -13576, 13118, 6056, 2952, -2778, -9153, -8053,
                -9153, -8053, 4346, 10499, 2566, 13093, -2879, 22569, -963,
                22569, -11465, -506, -6320, 920, 5882, 1581, 5882, 1581,
                -12707, -7066, -12990, 1725, 28143, 17692, 8682, -3090,
                -4488, 7699, -4488, 7699, 10025, 9898, 11762, 13287, 13575,
                -7057, -4105, 15921, -129, 15921, -7820, -5442, -480, 26358,
                12534, -21196, 1630, -12705, 1630, -12705, 17906, 1551,
                17906, 334, 17906, 12840, 7228, -9816, -4452, -15373, -4912,
                12019, 3803, 5164, -877, 5164, 6068, -5418, 6068, -5418,
                -3069, -7275, -3069, -7275, -7817, -9680, -5648, 4949, 9642,
                11023, 3666, 3016, -6417, -1487, -11860, -8354, -511, 19871,
                -511, 19871, 10214, -4597, -3650, 26905, -2047, 12512, 5045,
                12512, -13456, -14564, -1603, -14902, 6972, 9617, 9924,
                -1819, 5683, 2199, -15757, 2199, -15757, 4518, 9943, -3611,
                -15365, 148, -15365, 21769, -473, 21769, -473, 21769, 6337,
                -1307, 9506, -3951, 2467, -3951, 2467, 5743, 1844, 8413,
                -5785, -3102, -5785, -3102, -5785, 8715, 2538, -2055, 17936,
                -6334, 2948, -326, 2948, -205, -15437, 7378, 10987, 8207,
                4902, 520, -18216, 520, -18216, -4006, 20939, 650, 20939,
                10502, 16569, -9629, -2139, 5049, -7511, 11601, -5732,
                -14199, -11422, 10689, 9263, -13608, -14145, -9866, 3820,
                7892, -4331, 7892, -2587, -18677, -9980, 12735, -5531,
                11430, 7031, -3959, 16558, 6784, -4832, 6784, -4832, 3058,
                -5989, 1245, 3839, -18748, 9734, 7296, -8470, -2837, -1731,
                -8925, 2256, -6393, 14485, -6393, 14485, -6393, 14485,
                16264, 11284, -4071, -11440, 3723, -11440, -5822, -1661,
                -15757, 10867, 18944, -10193, -6747, -17837, -703, -17837,
                10469, -5374, 1155, 8666, 1155, 8666, -920, -10643, 18287,
                -2064, 11930, 2924, 11930, 3358, 4205, 13932, -3709, -20081,
                662, 12313, -4070, 6419, -6984, 14815, -11869, 3879, 9312,
                -1168, -644, -1168, -16032, -7041, 2380, -21168, 6281,
                18943, 417, 18943, -2554, -8097, 1515, 11508, -4586, 11480,
                5787, -15268, 8884, -3097, 2491, -14156, 2491, -14156, 2491,
                -14156, -1710, -20500, 5111, -1865, 10840, -8408, -7983,
                -1114, 2463, -1114, 2463, -1114, 2463, -13737, -5969,
                -10045, -12036, 3907, 1432, -18474, -10728, -10618, -5243,
                8186, 3463, -14527, 3463, -14527, -8389, 1544, 18765, 10719,
                4360, 19056, -20140, -15325, -6390, -5336, -4009, -5336,
                10181, -25944, 32, -25944, 1776, 2104, 582, 2104, 582, 2104,
                -13401, 286, -13401, 8979, -548, 8979, -548, 2353, -2824,
                7243, -2824, 7243, -2824, 7243, -2824, 11449, 16083, 4385,
                -2259, 11438, -19495, -14613, -14572, -6768, -7440, -6599,
                -3747, -6599, 14570, -1030, 14570, 724, 11033, -3686, -5725,
                -72, -11416, 4192, -5106, -11714, -1960, -20835, -8907,
                -3060, 200, 33076, 5131, -750, -11592, 6862, -1916, -15825,
                -7308, -1696, -7308, -13792, 4576, -13792, -939, -13792,
                3077, -3556, 17804, 3467, 17804, 3467, 17804, -358, 17804,
                5724, -11849, 4035, 2514, 18948, -5867, -398, -4743, -398,
                -4743, -11327, -965, 5580, -965, 5580, -2008, 5580, -16914,
                -2251, -16914, -10787, -20426, -7175, 2355, 6740, 1079,
                21887, 3938, -7169, 3938, -7169, 7984, 16727, 5172, -3813,
                -8119, -6367, -8119, -15985, 3933, 10697, 2156, 18241,
                17479, -12259, 6173, 8751, 6902, 10444, -1075, -13866, 1992,
                4817, 1992, 4817, -12544, 4817, -12544, 2045, -12544, 4446,
                6568, -2127, 13219, -12994, -14027, -6816, -4613, 11249,
                -5252, 1025, -5030, 1025, -5030, 1025, 25384, 8735, -2722,
                -12114, -8399, -6743, -5859, -2244, -1361, 10529, -1055,
                20740, -12739, 12213, -4403, 19258, 10536, -6110, 3459,
                -13819, 3459, -13819, 12936, 1481, 2459, 1481, 28365, 18751,
                -3639, -4384, -6341, -4384, -6341, 1074, -4286, 1074, -4947,
                -11834, 5899, 9856, -6150, -2348, 9884, -2348, 9884, 2494,
                10936, 2494, 10936, 2494, 10936, 2494, 10936, 2494, 10936,
                2494, 10936, -18767, -457, -18767, -7199, -3666, -7549,
                7724, 1649, 7724, 7859, -3810, 7859, 5796, 135, -9120,
                -2439, 13864, 7852, 11877, 6812, 413, -14273, 6490, -5031,
                -8152, -4665, -8152, -3422, -14396, 12234, 14506, -9966,
                2759, -410, 2759, -2940, 13458, -60, 13458, 4209, 2564,
                -16814, -5725, 968, -7557, -2026, -9033, -2026, -9033, 2133,
                -7152, 2133, -7152, -1963, 5948, 12086, 1372, -9539, -2895,
                -8465, -5884, 10632, 9945, 57, 9945, 57, -12610, -1905,
                -14328, 6110, 10059, -5204, 7597, -3637, 10427, 3411, 5746,
                -7890, 4294, -2219, 19289, 15736, 6827, -14881, -1395,
                -15608, -2263, 18666, 3837, -8631, -5480, -8631, -5480,
                -8631, 9147, -15086, 9531, -14717, -1135, -14717, -1338,
                5864, -2024, 5864, -2024, -15195, 342, 7607, -1900, 10706,
                11321, -8359, 4275, -6473, 4275, -6473, -3915, 19215, -3915,
                19215, -5106, 16303, 7612, 318, 5592, -201, 4689, -330,
                -16898, -2328, 2078, -10266, -3770, 15833, -16686, 12351,
                -3854, -3143, -7609, -337, -20073, -11094, 6191, 3230, 8151,
                2531, 7456, -12264, 13068, -12264, 13068, -12264, 13068,
                -6145, 4815, -4352, 4815, -4352, 4815, -4352, 985, 5773,
                985, 5773, -8082, -7717, 815, -7717, -913, -5069, 345,
                -18940, 18169, 9775, 8244, 6420, -1403, 5007, -5883, -24195,
                9357, -2842, 9294, -3123, 13148, -6879, -4046, -4692, 8772,
                395, 8772, -12492, 584, -12492, 584, -12492, -1653, 5496,
                -8503, -9115, -8503, -8900, -6429, -16095, -2218, 25082,
                18129, -12140, 8836, 5507, -13011, -4685, 5500, 2402, 5500,
                -13345, 16509, -117, 16509, 6048, 4399, 2924, -5452, -787,
                -16120, 5889, 16689, 6140, -401, -26283, -401, -26283,
                17767, -9732, 4970, 5210, -7285, -3729, 8883, -11799, 8883,
                -7440, -1985, 14861, 7307, 9526, -3931, 16223, 3322, 8301,
                2439, -9152, 2318, 13079, -4875, -6819, 17033, -3230, 1625,
                2984, -6728, 1364, 14183, -4849, 1953, -10429, 1953, -10429,
                -1838, -3250, -4488, 7884, -113, 7884, 1220, 17056, -4352,
                27275, -321, 27275, 17164, 6440, -1302, 5945, -1302, 5945,
                -1302, 23070, -11611, 3955, 4652, 7801, 15721, 7801, 15721,
                -7805, 2888, 6638, -1802, 6638, -1802, 6638, -22047, 12489,
                -7298, -5804, -823, 7583, -823, 7583, 1853, -10475, 5840,
                -1474, -20230, 32, -20230, 32, -20230, -11343, -11705, 5687,
                -3713, 5607, -8432, 5607, 1261, 10785, 9833, -4289, 10036,
                -1771, 10036, 12041, -2808, 12041, -4753, 5703, -1759, 5703,
                14606, -3361, -18099, 7226, 430, 2463, 430, 2463, 11097,
                -9153, -928, -9153, 22791, -9153, 22791, -625, 22791,
                -18888, 7695, 17097, -11879, 1403, 23754, 16522, -9239,
                -8375, -205, -21505, -205, -21505, -13012, -8638, 2496,
                -7489, 2496, -7489, 4750, -337, 28787, -7575, -997, 8297,
                137, 10866, -3827, 9181, 5467, -11140, 5467, -11140, -5206,
                -12254, 5108, -860, 15975, -7774, 9312, -5843, 4708, 10115,
                -3876, -9055, 1106, 21363, 5468, -1049, -7204, -1938, 2715,
                -19752, -13007, 698, -13007, 2302, -3211, 13081, -6853,
                -11759, 2431, 11377, 2431, 11377, 4426, 9936, -2136, 191,
                -4270, 191, -4270, 191, -4270, 10013, 15197, -18383, -22524,
                -17207, -6417, -5898, -6417, -5898, -2628, -8756, -1015,
                21442, -1015, 21442, 1286, -2616, -20269, -2616, -20269,
                -2616, -20269, -14238, -5310, 3519, -9002, 9109, -1812,
                -6683, 1117, 4596, 838, -6424, -1448, -9303, 1285, 14318,
                -6254, -5775, 3644, 14742, -8397, -9523, 1509, 10916, -7369,
                10916, -7190, 10916, -7190, -2646, -9125, -10139, -3498,
                -14528, 5771, -11659, 3414, 12036, 1660, -6245, 2874, -6245,
                -4949, -4541, -4949, -4541, 6109, 4000, 2987, 4000, 2987,
                4000, 2181, 4000, 2181, 4000, 2181, 5869, 2181, 5869, 9967,
                4537, 5068, -1569, -15191, 10407, 3471, 3181, 4271, -946,
                27262, 19177, -7376, -6896, 3221, -6896, 7103, -186, 10105,
                -9619, -5433, -9619, -7480, 5104, -14133, -13222, -496,
                -13222, 23331, -9277, -10063, -1001, -10063, -4031, -3345,
                1329, -10215, -6157, -10215, -5890, 9900, -18522, -14434,
                -9849, 5800, -8802, -3657, 868, 15632, -9364, -9334, 15919,
                -7945, 7839, 15510, 8541, 15510, 8541, 15510, -74, 15510,
                6132, 16970, 6132, 16970, -8388, -649, -16317, -6154, 8008,
                -1301, -2542, -1301, -2542, -1301, -2542, -15280, -526,
                -15280, -526, -15280, 7000, 3835, 883, -3760, -9354, -3760,
                -9193, 2974, 5322, -305, 21474, 12357, 8475, -3747, -17915,
                -10140, 12491, -13447, 12491, -13447, -2839, 4512, 4299,
                4512, 3592, -10719, 4922, -6433, 20688, -12403, -8551,
                -8892, 3286, 4390, 13275, -181, 13275, -1204, 7550, -1204,
                7550, -4586, -847, -15787, -5055, 2632, 5108, -15376, 8681,
                5583, 11504, 4583, -1225, -13795, 582, -13795, -6740, 6625,
                2634, -17297, 4064, -2527, 1821, -2527, -133, -18613, -6997,
                3693, -6200, -1158, -7434, 47, 15140, 47, 15140, -5477,
                -2320, -11773, 18382, -5150, -12813, -5643, -8903, 1810,
                919, -18035, 9847, -13814, 508, -13814, 508, -13814, 3311,
                -6380, -19172, -10038, -6688, -11048, 5328, -7543, 2210,
                4609, 2210, 4609, -2906, 5958, -2906, -2533, -7098, 11700,
                -12569, 6320, -671, 6320, -671, -4530, -671, -4530, -13993,
                -9271, -13993, -10116, 16525, 2392, -13496, -3727, 24597,
                -3727, 24597, -3727, 24597, 994, 24597, 994, 24597, 994,
                24597, 7550, 1296, -12340, -4687, -23422, -398, -23422,
                14409, -1772, 8441, 1489, 2643, 10657, -3527, 442, -5221,
                -1021, 8212, 593, -2821, 593, 28033, -9894, 1180, 4264,
                12166, -4635, -3602, 2275, 3951, 10355, -8800, -2901, 4271,
                -1837, 4271, -1837, 4271, 7406, -7216, 12814, -6343, -5841,
                -164, -5841, -164, -5841, -164, -5841, 18754, 307, 18754,
                -18388, -13575, 9498, -10952, 14269, -10883, -4098, -10883,
                -4098, 12725, -5641, -138, 23221, -9118, 3560, 7344, -12627,
                7828, 4898, -20517, 12110, -1999, -5068, 10654, -5068,
                10654, 169, 10654, -3800, -1626, -3800, -1626, -24390,
                12663, -4769, 15446, -10780, -2129, -6390, -2129, -6390,
                24898, 321, 24898, 321, 24898, -18177, 9263, -7081, 8955,
                1831, 389, -212, 389, -212, -4703, -9179, -4703, -4980,
                -4703, 14915, 7807, 9242, 5820, -39, 1975, -39, -16940,
                -4211, -19978, 17101, 3725, -13099, 11406, 975, 11406,
                -26961, 3663, -1713, 5419, -1713, -11528, -9425, 13963,
                1559, -13295, -5642, 981, 2427, -4024, 2427, -14534, 6384,
                4417, 10752, 4911, 7225, 9196, 3615, 5681, 3004, 12503,
                -2875, 8008, -1260, 8008, -1260, -17956, 2124, 2748, 2124,
                2748, 2124, -4131, 2124, -10507, -2481, -10507, 5000, 2460,
                -3255, -4796, -16096, 211, 18408, -7164, -3024, 4731,
                -11894, -3400, -11894, 15921, 8264, -18193, -1345, -18193,
                13115, -6909, 230, 3820, 9083, -12519, 9083, 11620, -7809,
                6134, 13574, 5409, 2357, -14661, -2037, -14661, -9120,
                -4197, 13219, 6210, 21563, -13234, 2453, -752, 7550, -3007,
                -4289, 19721, 7679, 4724, -14850, 4724, -14850, 9173, 622,
                22493, 13162, -13543, 16092, 7510, 8547, -3262, -6372,
                10471, 2778, 10471, -3923, 6850, -1682, 1610, -13186, 1610,
                -13186, -21553, 13183, -6321, 13183, -6321, -388, -6321,
                -1976, 7295, -743, -9003, 7556, -3341, 7556, 1309, -17276,
                1309, -17276, -8915, -5806, -2545, -10778, -2545, -10778,
                11777, -6418, -3505, -7631, 9846, -1785, 9846, -3324,
                -18423, -668, -18423, 13349, 7268, 8718, 6723, 1831, -13970,
                -6430, 3308, 5254, -18109, 4174, 2006, 10277, -1261, -8866,
                -1261, -8866, 1445, -635, 1445, 6700, -1476, -9039, -14137,
                -483, 15502, 1385, -16002, 7911, -9711, 54, 22754, 13365,
                2256, -845, 4554, 7525, -2948, 7525, -2057, -10180, 9498,
                7031, 4780, 8364, 4591, -13385, 10866, 9730, -3025, 1675,
                22947, -16275, -9219, 13870, -10339, 3902, 1127, 5537, 1127,
                5537, 1853, 1683, 1853, 1683, 1853, 23548, 12074, 1246,
                3502, -9922, -1743, -6617, -5899, -7885, 1393, -7885, 9178,
                1939, 14740, 6821, 2817, 14074, 2817, 14074, 5176, 3120,
                625, 31418, -17437, -7938, -12327, 10057, -3822, -9277,
                -10741, 1764, -757, -8427, 11083, -11306, -14687, -7524,
                -3011, 8485, -4505, -4882, -2708, 11127, 8812, -4842, -7978,
                3158, -7978, 3158, -7978, 3158, 18579, 11416, 7842, -2750,
                4664, -2750, 4664, -1195, 25204, -17968, -9684, -14912,
                -11362, 6087, 14976, 6087, 14976, 5520, -9856, -6112, -9856,
                5129, -7034, 5129, -7034, -2577, 4314, 6052, -4025, 6052,
                2858, -2385, 16455, -2385, 16455, 14778, -1438, 5963, 6001,
                -2652, 6001, 603, 6001, 5218, 715, -9444, 4281, -8380, 4281,
                -8380, -12470, -13209, -12828, 5112, 2372, -29054, 12065,
                -5702, 14735, -5702, 14735, -5702, 14735, -5702, -1795,
                10196, 11498, -8866, -3576, 10285, 797, 10285, 1145, -16387,
                8308, 5807, 6209, -1533, -11634, 14305, -6223, 15373, 9397,
                -793, 9397, 8442, 2329, -13417, 2261, 17416, -8627, 12760,
                9295, -5859, -669, -5859, -18784, -2151, -18784, 8931,
                -17313, -14717, 6196, 1356, 9387, 1830, 14925, 20874,
                -15280, -9409, 12714, -11245, -21604, 365, -21604, -16563,
                9028, -1649, -1378, -16498, -4252, -3713, 3696, -3713,
                17516, -8549, -4241, -1526, 9336, 2489, -8375, 2583, -12698,
                2998, 20487, -17009, 10938, 799, 15282, -27343, -17380,
                2903, 20983, 2903, 20983, 12935, 11556, -602, 5638, 11309,
                -8166, 11309, -8383, 11309, -8383, -8953, -7971, 10519,
                3743, -12611, 4942, -7430, -10142, 6074, 21428, 5243, -1558,
                5243, -1558, 5907, -1558, 5907, 6470, 3613, 19420, 5602,
                3848, 5602, 3848, 5602, -345, 579, -8246, -2416, 7046, 1514,
                6394, 1514, 6394, 1514, 6394, -3155, 4317, 6444, 4317, 6444,
                5064, -233, -12020, -2405, 16852, 20106, -10574, -2391,
                4294, -14571, 9284, -6279, 4171, -6711, 4171, -6711, -4892,
                -1022, 2587, -8306, -1757, 17417, 9295, -3805, 13189, -3805,
                13189, 7748, -12690, 3192, 1666, 14445, -7971, -10358,
                -2684, -10358, 1393, -510, 11072, 2265, -1212, 18672, 10872,
                88, 10872, 70, -6765, 22, -17448, 22, -17448, -4774, 9767,
                3105, -12612, 4891, 1638, -20687, 16399, 11982, -3879,
                -2599, -453, 14092, -453, 14092, 5049, -10072, 5049, -10072,
                6925, -4724, 9128, 159, -22460, -13682, 8710, 2746, -11188,
                2746, -11188, -6013, 6243, -4078, 18350, 11022, -8659,
                -3057, 15205, 6107, 2257, 3525, 2257, 3525, 2257, 3525,
                -5781, 6312, -9179, 619, -9179, -8423, -4513, -8423, -9787,
                4302, -6582, 4231, -2783, 4231, -2783, -5064, 6011, -5408,
                -13393, -12616, 6137, 14913, 6926, -9779, 15388, -3585, 979,
                -14406, 979, -14406, 6496, 9547, -15758, 4987, -9274, 9917,
                -9274, 15664, -11232, -4258, 19905, -1585, 12402, 3277,
                3383, 9227, 10197, 23122, 37, 23122, -14546, -5308, -2154,
                9652, 14626, 7719, -6377, -1237, -6377, -8685, -2265, -8685,
                -2265, -8685, -1912, 4895, -3240, 7320, -8483, -4235, 22295,
                -9016, -17596, 863, -17596, -12878, -6128, -4862, -6128,
                -4862, 3645, -3786, 3645, 14920, -8617, -7084, 9866, 20227,
                -4375, 12261, -1845, -1444, -9343, -1444, -9343, -2806,
                11345, 1206, 12453, 1206, 12453, -3963, -7742, -3963, -7742,
                -20841, -21423, 5506, -9479, 25906, -17279, 15315, 9134,
                6792, -2400, -1478, -2400, -1478, 7793, 17754, 1595, 17754,
                6383, -2357, -5987, 1650, 6527, -19566, -2889, 4464, -8846,
                4464, -10816, 2778, -1621, 10229, -1621, 10229, -1512, 3629,
                -21758, -6301, 21802, 135, 21802, -19359, 15514, 7548, 1182,
                6889, 12422, 5767, -2986, 6140, -20016, 24697, 12417, -9422,
                1780, -9422, -11327, -9422, -11327, 8867, 3256, 1564, 27321,
                -17868, 9376, -7935, -1331, -7935, -1331, -27122, 19531,
                -14685, -8550, 6003, 4960, 1112, -18271, 443, -18271, 443,
                -18271, 8344, -11278, -5460, -1358, -18901, -6484, 11124,
                -5947, 5227, -4761, 5227, -2732, 10018, -1316, -19179,
                -11187, -9761, -609, -19478, -29474, 4632, 25735, 9533,
                -1664, -16476, 6794, 12824, 2533, -12102, 2468, -10669,
                -1242, 7048, 1261, -4863, 1261, -3334, 1261, -3334, 1261,
                -3334, 2986, -10508, 2986, -10508, -4905, 1424, -4905, 6086,
                1354, 13143, -4643, -4438, -3088, -4438, 9272, 777, 19913,
                -7658, -3232, 1228, -20470, 60, 24727, 10072, 747, 2070,
                14928, 22055, 967, 22055, 967, 22055, -3452, 6768, -824,
                -1632, 26572, 15603, 2938, -14419, 2938, -14419, 2762, 2686,
                2762, 2686, -8441, -2524, -1029, -400, -2190, 30616, -22015,
                10922, 9859, -11687, -3695, 1189, 12910, 1189, 12910, 1189,
                12910, 1189, 12910, 5857, -10138, -656, -9532, -656, -9532,
                -10825, 8380, 10303, 8380, 10303, 8380, -8599, 2219, 7375,
                89, 6195, 89, 21879, -6757, 15298, 5717, -12778, 6643,
                -9336, -5990, -715, -8984, -715, -8984, -715, -8984, 2476,
                12308, 2476, 12308, -6574, -7294, 1404, 16866, 5972, 9283,
                2900, -6564, -21730, -12651, -2186, -11191, -18470, 1112,
                -18470, 9390, -1492, 9479, 3479, 2703, 3479, 2703, 3479,
                2703, -3745, -20194, -7491, 775, 24667, -1388, 1324, 18233,
                1324, 18233, 1324, 18233, 678, -10213, -7880, -10213, 12339,
                -1825, 20147, 12087, 8432, -1164, -14378, 2532, 20577,
                14204, -12101, 10271, 1803, 8224, 12906, -5497, 12906, 1008,
                12906, 5238, 7308, 179, 12349, 1839, 21359, 14155, 6463,
                4740, 11345, 3350, -5944, 10589, -2157, -2931, 1575, -2931,
                -741, 19145, 9737, 1848, 3622, 519, -8586, -10154, -8586,
                -10154, 4681, -15819, 4483, -15819, -12848, 6043, 54, 18665,
                9068, -6204, -8470, -4021, 1340, -4021, 1340, 3359, 4864,
                112, 4864, -135, 20725, 7840, 107, 32581, 1804, 6905, -6415,
                6905, 11572, 5072, -2270, -13825, 5704, 13366, 7687, 13366,
                -7383, -7123, 4297, -1214, 5000, -6567, 11818, -6567, 11818,
                3384, -7807, -5534, 463, -5534 >>,
            zc |-> << -11918, -3578, 11893, -1007, 4391, 6511, -3152, -6152,
                -3152, 10333, -14902, -2591, -4492, -13492, -1096, 10741,
                -3500, 8792, 3960, 9150, 2642, -8753, 5079, -17927, 2610,
                22, -5514, 22, 5515, -7362, 8183, -7362, -5094, -3679,
                -9887, -2694, -4967, -2694, -4967, 100, -4967, 100, 1297,
                100, 6399, -15765, 6399, -15765, 6399, -15765, -7514,
                -19602, -8665, -18049, 6168, 16709, 6297, -17155, -26590,
                398, -7567, -6824, -7567, -11667, 7040, -630, 3008, 15056,
                3008, 15056, 3008, -13265, 1867, 12905, 14750, -6151,
                -14509, 21212, -2994, -13990, 3082, 8231, -12871, 8231,
                -12871, 8231, -20997, 215, -5264, 5178, -8224, 13001, 3455,
                -2242, 7940, 4060, 7940, 4060, 21150, 9034, 21150, 4176,
                12042, -7176, -13660, -6197, -12376, 7273, 15407, 1707,
                -10275, -19420, -191, -2330, 107, 15984, -3231, 2130, 5527,
                -6988, -7768, -10446, -7768, -10446, -7768, -6992, 6049,
                -10028, -2199, -7688, 394, -3393, 967, 13958, 5396, 13958,
                -6974, 12204, 7711, -14905, 3809, -10705, 5310, -2427,
                -6743, 4475, -6743, -6216, -7630, 4882, 17520, 4882, 17520,
                13670, -1957, -10183, -18417, 1697, -14173, -1402, -16519,
                6894, -16519, -1340, -4884, -16770, 1061, -16770, 1061,
                -1711, 7247, -1711, 7247, -1711, 6932, -1243, -10394, 25185,
                -614, 5146, -6251, 5483, 9473, 16044, 24013, -1144, -2660,
                -10962, 20986, 707, 4820, -4553, -14126, -859, 14833,
                -10878, -7380, -2351, 1372, -9852, 1372, -1948, 12507,
                -12676, -8656, -14073, -21694, 246, 4785, 5751, 4785, 5751,
                4703, 3672, 2720, 8745, 16019, 7331, -17936, 481, 7203,
                2364, 2453, -10728, 2453, 7508, -2516, -366, 14605, -366,
                -7231, -5318, 5298, -17, -6861, -17, -7750, 1026, 6270,
                -3519, 6270, -2710, 8203, -2951, 6053, 10718, -1036, -12757,
                -2152, -12757, -2152, -12757, -2152, 13534, 21795, -93,
                -142, 23276, -142, -78, -10771, -78, 1250, 3232, 1250,
                -1995, 2151, -6610, 2151, -6610, -3882, 11133, 5902, -16430,
                -50, -1142, 2441, -1142, 2441, -1142, -4217, -1142, -4217,
                -6893, 7575, -14799, -13771, 3503, -8337, 4640, 2844, 4640,
                5265, 12572, 6655, 2263, 10543, 4853, 10543, 4853, 10543,
                -3881, -7651, 1163, 4757, 12568, 4295, 12568, 4295, 10209,
                2466, 8584, -15322, 8584, -15322, 897, 14549, 3899, 14549,
                3899, 14549, 3899, 5268, -12635, -3013, -7122, 15363, 14690,
                -8362, -10471, 11220, -19694, 363, 13893, 3843, 8809, -1123,
                -4945, -10056, -4945, 5525, 13364, 3175, -8594, -5186, 6638,
                -2182, -9123, -1009, -8518, 7404, -1903, 7217, -12155, 3358,
                1979, -11513, 19988, -11513, 19988, -11513, 19988, -645,
                -8393, -28164, 1371, 3634, -10477, 7011, -10477, 7011, -551,
                -5122, -551, -8337, -3014, -8337, 8791, -8337, 2020, -7782,
                2020, -7782, -16941, -7782, -16941, -7782, -16941, 9010,
                4166, 9173, -3473, -8605, 4932, -8605, 4932, -11481, -20284,
                -11481, -20284, -1595, 10685, -23350, -1009, -6521, 12768,
                15841, 1401, 7669, -11439, 7669, -11439, 7669, -11439, 7669,
                12577, -13450, -18611, -13450, -18611, -2302, 10310, -750,
                -7041, 5246, -7041, 5246, 1743, -6427, -16785, 8382, -21864,
                -194, -10540, -2202, 13100, 28082, 2083, 7476, -7053, 3809,
                -10250, -16609, 4310, 12427, 22486, 526, -6380, 1858, -9157,
                8688, -2748, 7172, 10732, 10905, -16690, -21859, -2192,
                -5049, -8727, 246, -6291, -1051, -10070, -6182, 6006, -8330,
                -17187, -3717, 18160, -664, 5198, 8939, 2700, 8939, 2700,
                7343, 17433, 2616, 4244, -13599, -24614, 860, -2251, 5358,
                -9711, 5358, -9711, -4198, -8955, -18122, -1437, 4072,
                -14587, 5726, 4924, -4000, 10186, -9590, 14646, -1389, -499,
                -12077, -499, 11629, -2881, -2810, 8317, 2282, -6990, 5383,
                -6990, 5383, -10940, -7957, 12091, 3490, 12091, 3490, 9946,
                -16733, 471, 11245, 5309, 11245, -16463, 13876, -23112, 140,
                -13752, 6360, -13752, 6360, -13752, -6541, -20101, 52, 6075,
                2907, 6075, -13582, -6012, 12480, -6012, 12480, -24287, 708,
                11243, 2996, 13949, 9351, -6565, 5607, -6385, -3725, -10586,
                -5308, -15847, -1101, -5333, 10111, -4158, -1121, 11642,
                -1121, 7886, -10626, 7886, -8909, 5660, 8093, -22643, 8093,
                -22643, -1019, 754, -4230, 754, 4795, -8250, 4795, -8043,
                5080, 2179, -7727, -3880, -8072, 16159, 18951, -581, 13486,
                3184, 13486, 146, -6003, 10988, -6003, 10988, -14266,
                -22881, -14, 9134, 3058, -9715, -10855, -1221, 4076, -6088,
                -13801, 7757, 25592, 1476, -1646, 5843, -6381, 14831, 128,
                -405, -4110, -405, 7717, -405, 7717, 3386, 7717, 3763,
                -10792, -3476, 10599, 19018, -5225, 4638, -7407, 14583,
                -782, -7104, 17048, -7104, 17048, -2294, 1455, 9350, 1455,
                6271, -21312, -1539, -780, 4853, -780, -13458, 5956, -13458,
                -8896, 5244, 11740, -12618, 7441, -11248, -6587, 13847,
                10584, -16184, 6653, 6170, -997, 6170, -997, 6170, -997,
                5623, -11783, 5623, -11783, -2919, 9220, -2349, -10867,
                -9538, 2832, 3120, -6559, 3120, -9171, -5471, 12817, 716,
                2155, -9917, 5383, -2484, -8972, 852, 3218, 852, 3218, 852,
                3218, 852, 8199, 852, -9522, -3430, -9522, -6720, 16273,
                29277, 5071, -1877, 3713, -5626, 3713, -5626, 3713, -5626,
                -13449, -5626, -13449, 20506, 5591, 2370, 3689, -10489,
                3689, -10913, 19298, 507, 13828, -2146, 13828, 3492, 11048,
                -2101, 11043, -1377, -10148, 4521, -10148, 11968, 9210,
                7122, -3910, 2795, -7270, 2795, 5199, -4617, -2924, -1221,
                3061, -1221, 23678, -6474, 23678, -6474, 23678, -745, -4535,
                -1656, -7891, -1656, -3173, 26298, -3173, 26298, 622, 3782,
                6189, 12126, 9469, -4197, -2966, -11019, -17091, -10563,
                21417, -2924, 16917, -6270, -16156, -3557, 8125, 11223,
                4794, 5550, -8533, -9944, 17456, -20799, -1956, -6938,
                14505, 6316, 16301, 14572, 12916, -3757, -3073, -12722,
                -7785, 1636, -4251, 7943, 12303, -5784, -6433, 16303, -6433,
                16303, -2586, 1604, -5778, 1604, 920, -17208, 170, -1886,
                13757, -1886, -2963, -12270, -678, -12270, -678, -6022,
                6521, 9714, -11177, -7065, 12684, 4206, 17555, 9050, 17555,
                9790, 15609, 1232, -2233, -2505, -2233, 21381, 1743, -12160,
                -1461, 10872, 3667, 10872, 526, 9651, 17307, -2662, -5117,
                7707, -3527, 7707, -3527, 153, -8901, 153, 5345, -904, 5345,
                -904, 7833, -1490, 7833, 11320, -1307, -5847, 6044, -5847,
                6044, -5847, 8410, -16577, -1138, -15961, 2686, -7556,
                -1879, -10448, -16508, -10448, -16508, 14613, 23483, 2924,
                9742, -753, -1654, -753, 5864, 5786, 5864, 5786, -4554,
                -5386, 11634, 1950, 21669, 8957, 21669, 902, 1033, -8793,
                1033, -7409, 18992, -18543, -3899, -5530, 13169, -359,
                -4867, 9930, -18978, -8442, 15379, -1507, 18152, 3268,
                18152, -439, 4021, -6900, 4021, -6900, 4021, -14051, -4344,
                -14051, -279, 3246, -279, -9906, -4894, -9906, -10711,
                -9761, 13951, 1819, -5987, -192, -5987, -192, -5987, -192,
                4638, 3052, 15484, -23074, -14627, -1422, -2875, -1041,
                9189, -1963, -5579, 10487, 3428, -6032, 5600, -6032, 5600,
                -3657, 6143, 2993, 6143, 2993, 7944, 1444, 2937, -331, 2937,
                10354, 2499, 3167, -2274, 4122, -2274, 4122, -2274, 27819,
                10804, 27819, 952, -8402, -2945, -11883, -17448, -11883,
                -17448, -17276, -899, -5513, 601, 6779, 11999, 6779, 14470,
                17900, 1120, -325, 13956, -325, 13956, -325, 5050, -4492,
                5050, -4492, -4082, 8287, -5002, -11144, 12959, 9723, 19134,
                -4885, -3732, -3760, -3732, -3760, -6486, -1850, 6636,
                -3322, -7874, 8033, 4017, 8394, 11963, 8394, 11963, -14387,
                -21161, -1156, 9397, 1148, -7329, 10920, -23044, -2863,
                -16160, -21292, -20149, 2361, -11224, 6182, 4378, 3326,
                -8624, 3326, -8624, 3326, -9929, -26661, 943, -11730, -9448,
                -11730, -9448, 10335, -9448, 10335, 15307, 13945, 6337,
                -3850, -1851, 8110, 1981, 8199, 11510, 8199, -2011, -2569,
                -8702, -10620, 6263, -8601, 12358, -6943, 8616, -2457, 9019,
                1131, -11958, 4860, 13261, 2947, 5123, -5764, -12606, 2993,
                -4834, 2993, -4834, 2993, 9448, -1379, 22921, 5530, 22921,
                2980, 20970, 2315, -17851, 204, -1428, 718, -1428, -8719,
                -16951, -2003, -12604, 981, -19696, -9396, -19696, 741,
                -6653, -7336, 15397, -1664, -12891, 10830, -4348, 7023,
                -10033, -17636, 5006, 7466, 15519, -635, 2155, 4930, 2155,
                4930, 2155, -7878, 2155, -6322, 2760, -6322, 2760, -10710,
                -3573, 4117, -4246, -6575, 4003, -11271, -37346, -95,
                -10300, -3072, 13036, -909, 4288, 12224, -19455, -15763,
                -8633, -573, -4828, 1733, 16517, -19173, -6220, 4690, 12122,
                -10804, 10491, 648, -2739, 7342, -15013, 5406, 8248, 3649,
                -8916, -16788, 5156, 10641, 3678, 10641, -1123, -4800, 1692,
                9121, 11758, 9121, 3755, -9887, -25175, -2986, 7292, -14431,
                2220, -2204, 1029, 5745, -4683, 5745, 9373, 929, 9373, 929,
                -5848, -16469, -5848, 7687, 8843, -12291, -18726, -5865,
                9248, 9912, -9322, -9249, -9322, -9249, -14258, -5223,
                -14496, 5481, -14496, -803, -4446, 12737, 6034, 1834, -8125,
                -2181, -11924, 170, -4127, -15062, -4127, 3888, 6467, 11357,
                -5154, -12476, 3305, -8745, -3969, -9792, 6883, -9792, -179,
                6412, -179, 12077, 8314, 12077, 16468, -1984, 8800, 15298,
                8800, 15298, 8800, 15298, 17546, 17518, 19437, 1300, 10328,
                -3331, 10328, -3407, -12677, -101, 16498, -8939, 16498,
                -4144, 9005, 17526, 9005, 17526, 340, -58, 1619, -58,
                -15509, -58, 5496, -2560, 5496, -4236, -6464, 8355, 16182,
                -1354, 16182, -1354, 7580, 19383, 1754, 6395, 10290, 17762,
                15156, -4086, 3230, -10128, -9841, -10128, -9841, 4179,
                -9841, -4202, 11283, 13986, 11283, 13986, 9483, 16797,
                -2707, 4506, 1772, 4506, 1772, 7590, -18883, -3836, 16099,
                1742, 2845, -4117, 2845, -4117, -2897, -4117, -10136, -2489,
                7291, 2793, -13862, -4097, -13862, 2491, -15009, -24384,
                -15, -3023, -3642, 1428, -6485, 1428, -9179, 2668, -9179,
                18563, 1505, -11810, -895, 5137, 18673, -14883, 8893,
                -12895, -8572, -11758, -17234, -10078, 15503, -9133, 3527,
                7607, 1711, -6881, 4338, -4232, -1300, -4232, -1300, -6901,
                2570, 6267, -9083, 9145, -9083, 9145, 12618, -5165, -3268,
                -1393, -3810, 3139, -3810, -9900, 21194, -428, -6817,
                -15861, -6817, -15861, -6817, -15861, 23681, -2237, -7011,
                -12221, -19705, 1911, 9613, 21026, -26220, -1768, -16765,
                -132, -9896, 10947, -9896, 10947, -15145, -19282, 10610,
                3387, -5618, -15980, -10197, 6049, -6991, -9409, 15968,
                18015, 2099, 11891, -1742, 11891, -1742, 11891, -1742,
                11891, -1742, -18418, 16322, -18418, 16322, -18418, -3083,
                3124, 6634, 11629, -20415, 1979, 7207, -2931, 558, -2931,
                558, -12370, 558, -13374, -15291, -13374, -15291, 20313,
                -9747, -5927, 6666, -3156, -5483, -3156, -5483, -3296,
                -10925, -690, 447, -7713, 447, 3541, 4022, 4493, 2918, 7937,
                -15840, 7937, -15840, -32152, 283, 14103, 3718, 4978, -8454,
                -17056, 1484, 10011, 7949, -3986, 10828, 6901, 17269, 18655,
                1145, 3484, 15241, 8933, 15241, 8933, 15241, -699, -2942,
                4813, -2765, 13872, 5388, 13872, -17435, 1304, 790, 13362,
                790, 5139, 9643, 2738, -1787, 11228, -18772, -3857, 15525,
                1375, -7284, -4605, -1427, 13004, -9107, 13004, -9107,
                13004, 981, 5349, 8833, 25896, -614, 8480, -6987, 8480,
                -14360, 1282, 5168, 3799, 4457, 19642, 3479, 19642, 27664,
                -2263, -7510, -1312, -7510, -1312, -3904, 3108, -1263,
                -9118, -4896, -9118, -6415, 11016, -19274, -1824, -10103,
                -14608, 24547, -260, 3025, 9571, 5919, -4711, 13200, -326,
                -11135, -1261, 5334, 3789, -6235, 9842, 17256, -2750, -6838,
                -12832, -2936, -4838, 5716, -4838, 5716, -4838, -8969, 5739,
                1135, 12101, 1135, 12101, 1135, 12101, 1135, 16120, 9908,
                16120, -1112, -1186, -17653, -1186, -5800, 3797, -12275,
                -1760, -13128, 6844, -14504, 2545, -10358, 4301, -3162,
                -9137, -18253, -449, -1243, 6815, -1243, 6815, -1243, 6815,
                -1243, 6815, -1243, 6815, -1243, -3232, 4622, -3232, 4622,
                7710, 4622, -9314, 8619, -14764, -6531, -5038, 7267, -16567,
                12732, 5371, 15070, 3373, 8290, 3776, 2901, 3776, 3205,
                7986, 8590, 3192, 8590, 3192, 8590, -19976, -1263, -19976,
                -1263, -8387, 6974, -8387, 15809, 22266, -730, 5277, -15441,
                22877, 7082, 2608, 2166, -4238, -11494, -25446, -321, 11700,
                -6813, 4407, 11845, -24603, -753, -9371, 512, -9371, 512,
                -9371, -155, -4293, -7346, -4293, -7346, -4700, -71, 6437,
                -71, -8537, -10026, -9772, -6810, -9085, -6406, 13451,
                -4536, -6358, -13264, -4242, 15286, -605, -15103, -499,
                -15103, -499, -15103, -499, -2145, 2685, -9384, -8714, 4541,
                -2280, 4541, -2280, 8507, -22654, -377, 5566, 6969, 5566,
                13132, 4613, 10632, 9158, -4431, -2103, -4431, 10928, -2177,
                -8370, -4301, 12781, 21302, 54, 8825, 7390, 8825, 9201,
                -10175, -5587, -5469, -13634, -3517, -13634, -3517, -13634,
                -3517, -13634, -3517, 3756, 4760, -13975, 2143, -3046,
                -6394, 692, -20574, 10655, -20574, -3198, 3400, 7609, 20537,
                829, -4758, 4010, -7286, 517, -6499, 32, -15084, 14637,
                -22565, -2503, -2226, -8260, -2226, -8260, -14061, -8260,
                -14061, -22208, 6301, 12819, 2785, -7427, -16480, 8722,
                19584, -1741, 21606, -1556, 3125, 12467, 9256, 18708, 4016,
                -3102, 8539, -20282, -4933, -9902, 14922, 8089, 2974, 5149,
                -5125, 5149, 9475, 11998, 4680, -16864, -5451, -16864, 1533,
                -9890, 8748, 12108, 1551, 4159, 18151, 4159, 18151, 872,
                6205, -498, 3302, -10582, 3302, -13111, 3065, -13111, 1447,
                12015, -8923, 12015, -8923, 12015, 25167, 157, 1494, 3959,
                -3933, -5626, 79, -9350, 79, 554, 10522, 554, 20958, -8409,
                20958, 10152, 4628, 9663, -2239, 9663, 16153, 21699, 4017,
                6580, -9524, 8276, -12243, -12203, -13342, -10483, -19057,
                12792, -462, 7192, -6931, 7192, 4385, 7192, 9692, -18289,
                -505, -6380, -3571, 11970, -24336, -2116, 5430, -12918,
                -1441, -11812, 8240, 5486, 3288, 16142, 3288, 16142, -17772,
                3753, -11204, 668, -9466, 1501, -9466, 7445, -15532, -28978,
                5212, 536, 6457, 1317, 10231, 4698, 10231, 18016, -2955,
                3319, 8252, 9426, 13987, -5042, 13987, -5042, -12184,
                -10464, -2429, 4872, -11244, -18137, 9439, -22858, -159,
                2055, -4363, 12616, -3554, 12616, -3554, 3610, -11082,
                16316, 2796, -6809, 534, -6809, 534, 12288, -1654, 7341,
                -12, -16581, -794, -6011, 1065, 16593, -6479, 16593, 24953,
                9390, -11179, 2203, 12939, -1123, 12939, 6778, -15064, 2221,
                -11779, -1978, 19065, 6316, 19065, 26343, -2365, 6846, -3,
                -8743, -3, -18264, -2397, -18264, -5489, 9528, 18500, 3082,
                4783, 5595, -7449, 14699, 3061, 14699, 3326, 5580, -3172,
                5580, -14103, 4730, 3588, 9382, -1726, 5252, 10607, 14478,
                -13809, 2230, -3737, 1818, -3737, 7936, 19961, -1417, 12178,
                -1333, 8752, 24429, -1548, -16436, -86, -5003, 7252, -5003,
                12541, -7788, -7163, -8423, 6272, 6628, -10217, -10302,
                5219, 8772, 1911, -7518, 965, 6718, 7862, 9910, -16416,
                -22701, 27174, 798, 9316, 4474, -300, 4474, 9557, -13985,
                -17476, -24724, -1256, -10509, 11381, -4360, 7243, -9956,
                7243, -20786, 2554, -6883, 1450, -6883, 1450, -2736, 3744,
                -2736, 4873, -14500, -24469, 117, -3054, -10723, -3054,
                1540, -601, 10514, -601, -6743, -23090, 702, -5632, 17085,
                1684, 7632, 1861, -4475, 16924, 855, 2261, 2996, 13790,
                -4605, 3936, -4605, 3936, 4679, -2056, 9379, 20803, 8133,
                17330, -13329, 15185, -18929, 3283, 10227, 11064, -178,
                17795, -4215, 17795, 185, 12860, -9690, 2715, 9019, -2177,
                -15211, -673, -15211, -673, -15211, -673, -1910, 9393,
                -1910, 9393, 12647, -5316, 5309, -3643, -7819, -3643, 10851,
                1162, 5021, -2646, 5021, 8901, 16496, -1128, 7373, 3994,
                -3068, 8887, -3068, -14311, -24, -14311, -24, 6244, -7366,
                3996, -9668, -2091, 6270, -1849, -7194, 26579, -947, 11231,
                -7799, 10291, -13419, -2841, 2120, 3494, 2120, 3813, -3134,
                3813, -3134, 1273, -1748, 3574, 7857, -14723, 767, 3872,
                18567, 3872, 18567, -26900, 1189, -14261, 3799, -9751, 2043,
                6335, -7256, 8714, -1977, 6627, -1977, 6627, -1977, 6627,
                -1977, 18805, 7206, 18805, -4002, -18572, 591, -18572, 591,
                -3000, 7984, -11315, 7984, -11315, -19545, 11232, -2807,
                11590, 12950, 2542, -5283, 9084, -7013, -14938, -1643,
                -12142, 6126, -13564, 596, 623, 1898, 623, 1898, -11970,
                18288, -10912, 241, -10912, 241, -10912, 241, -4605, 8396,
                10097, -10786, 9888, 15393, 14165, 2928, -10073, -17266,
                4353, -8440, -16878, 285, 4378, 7097, 4378, 9920, -1432,
                -5911, 7751, -5911, 7751, -4178, 2640, -5041, 5884, 3296,
                -2579, 1460, -2579, 1110, -10935, 7146, -16927, -5198,
                -16927, -5198, -16927, 16719, -4505, 14764, -2536, -13164,
                -593, 9700, -1694, 2205, 10086, 12816, 10086, 12816, 21327,
                182, 2879, 771, -1793, 771, -1793, 771, -1231, 771, -1231,
                -2870, -1231, -5582, -22141, 7180, -4412, -4205, 1828,
                -5475, 1828, 4537, 8111, 4537, 11892, 1784, -5965, 1784,
                -5965, -15896, -4669, -8976, 6000, -8976, 6000, 3601,
                -11088, 21786, -11088, 21786, 321, 6420, 3689, 6420, 4904,
                -8126, 14078, 9918, -7573, -2499, 6678, -6398, 6573, 14661,
                -16540, -27992, -2808, -5540, -4631, -10285, 10149, 19920,
                5584, -14794, 10351, -8142, 7658, -7436, 7658, -7436, 7658,
                -12422, -1163, -1287, -19328, 17025, -433, -12906, 2090,
                -12906, -931, -12906, 20939, -5335, -19234, -1379, 6129,
                6572, 21105, -4874, 21105, 27498, -3185, -11507, -2244,
                -3601, 8902, 1893, -7144, 5290, 3354, 10114, -2872, -3928,
                14292, -1591, -10778, 17446, -24264, 1143, 10830, -18927,
                10830, -18927, -4066, 15884, -16712, -14079, 2436, -9704,
                12160, -11792, 27244, 3535, -21419, 16224, 8726, 5890,
                -5587, 4376, 5702, 5378, 7788, -14224, 1514, 2600, 18482,
                4191, 21436, -940, -14720, -4802, -14720, 9527, 16266,
                -22966, -2784, 13797, -2507, -7997, -113, 4198, 9222, 4198,
                9653, 2850, 5734, 3628, 3379, -2660, -24511, -8965, -24511,
                59, -6607, 13707, 11170, -18646, -3636, -3172, 5237, -13574,
                5380, -3657, -5486, -3657, -11160, 2654, -9054, 674, -5588,
                1387, -5588, 1387, 18036, 3346, 18036, 3346, 7284, -8183,
                -7298, 14648, 28337, -200, -7018, 6027, -6352, 6027, -6352,
                -5677, 3559, 4372, -2040, -32461, 9278, -32461, -269, 5804,
                3528, 5804, 3528, 5804, 2734, 21673, 2734, 21673, 11471,
                2357, 3207, -2952, 3207, -2952, 20585, -9837, 20585, -9804,
                -7666, 10665, -7666, 10665, -7666, 10665, 2097, 7459, 9477,
                -629, -900, -6219, -900, -6219, -5031, -12870, -11830, 5343,
                -17180, -330, 10400, -18326, 10400, -18326, 10400, -18326,
                10400, -18326, -10232, -3669, 12386, 24067, -4302, -2926,
                5369, -17999, 346, -2151, -774, -2151, 7268, -5200, -12898,
                210, -2209, 210, 7000, -1614, 7000, 10551, -11302, 10373,
                -11302, 10373, 13018, -29607, 5206, -29607, 5206, -29607,
                13431, 1322, 14910, -394, -10943, 9178, -10943, -3789,
                -3099, 5335, -9779, -16747, 1442, 4239, -9545, 17380, 304,
                -2690, 11863, -2690, -21989, 11720, -21989, -14925, -1399,
                -5345, 11126, 3683, 7539, 2368, 7539, 2368, -6517, -3405,
                -8975, -14429, -7400, 4213, 10025, 2808, 437, -11186, 23029,
                -2497, 12689, 9729, 15167, -834, -3089, -834, 1472, 1128,
                1472, 1128, 1472, 1128, 6541, 2978, 4282, -6106, 13910, 134,
                -1358, -6798, -1358, -6798, -1016, -1667, 3621, -3511,
                -11459, -3511, -19748, 1837, 10672, -18630, -28260, 4585,
                -7052, -10310, 9633, 9853, -12233, -3490, 5722, 14985,
                17818, 25118, -745, -9275, -24055, -762, 12882, -3527,
                -11739, -4363, 16246, -7385, 4102, 7087, 11786, -2255,
                -16274, -9482, -16274, -8312, -4516, 10403, -4971, 10403,
                16214, 2273, 6052, 824, 15058, 12890, 15058, 3942, -4266,
                -12426, -1960, -450, 7402, -450, 7402, -450, 1840, -3379,
                4726, 385, 7107, 20806, -4605, 9009, -9569, 3817, 10538,
                4657, -8062, 5241, 7430, 15950, -10298, -1902, -26826,
                -8019, -26826, -1103, 5250, 14206, -6777, 14206, -6777,
                14206, -6777, 14206, 6582, 11187, 15461, -5899, 9451,
                -13205, -16562, 3750, -4787, -12541, 9556, 17859, -1140,
                685, 6260, 685, 6260, -3057, -7140, 12685, -7140, 12685,
                -5215, 12626, -1007, 7774, 5751, 7774, 12361, -2487, 14734,
                7675, 14734, -2629, 6356, 15843, 6287, 3947, 6287, 3947,
                -7833, 3746, -7833, -6479, -7833, 14059, 3357, -7222, 957,
                4088, 7159, -13706, -24373, -13706, -24373, -521, 6056,
                19937, 13463, -1319, -5075, -4247, -5075, -4247, -5075,
                18608, -4256, 18608, -4554, 15972, 382, 3424, -2063, -17756,
                -597, 3310, 5347, -4015, -4548, -4522, -4548, -10928, 9199,
                -20259, 5756, -2484, -4337, -13175, 4952, -13175, -1091,
                2695, -20372, 2275, 5912, 12551, 5912, 12551, 1233, -3818,
                -19119, 1395, -8049, -3358, -4783, 15642, -5885, -17463,
                5053, -5614, -13301, -4658, 22697, -1920, -11875, -2761,
                -25838, 5081, -25838, 5081, -25838, -815, 4874, 3606,
                -11642, -4391, 16806, 26791, -232, 5196, 6795, -21919,
                -3682, 20124, 3271, -4233, 9926, -9682, -2478, 7834, 12917,
                9344, -18694, 10429, 5952, -6694, 11346, -16490, -2730,
                9097, 2245, 1373, -8574, 1373, 19849, -3218, 19849, -3218,
                -261, 2529, -261, -7322, 14866, -7322, 14866, -7322, 14866,
                -1229, -6013, -692, -9020, -19716, -3467, 14691, 10399,
                1387, -3945, -881, 16749, 998, 16749, -21532, -3871, 16922,
                -5833, 5743, 2621, -1548, -10746, -1548, -1340, -12724,
                -1340, -13391, 9120, 30, 4775, 30, -2308, -11625, 12740,
                -11625, 12740, -21354, -1590, -8858, 3575, -9485, -23123,
                3846, -18804, 18, -23561, -12423, -23561, 659, 4497, 2161,
                4497, 11740, 1840, 17357, -3685, -4484, 11057, 1778, -5620,
                8463, 7560, 13407, -7528, 7867, 14863, -6940, 5706, -13214,
                4830, 6320, -4094, 2141, -4094, 2141, -6564, -4630, -6151,
                12717, -20533, 1377, -7193, 18915, 7191, -5676, -10411,
                2682, -2690, -5095, -2690, -13210, -3423, 9838, 5819, 9838,
                5819, -15784, -24513, -8990, -296, -6665, -7842, -6665,
                -7842, -6665, -10042, -14387, 1624, 22495, -14609, 22495,
                -14609, 22495, 2544, -14660, 5680, -15074, 480, -9658,
                31469, -9658, 31469, 2524, -18188, 4544, -13049, -11430,
                657, -1821, -17137, -1821, 13909, 11047, -20083, 1679,
                -5795, 17008, 308, 17008, 308, -21167, 15465, -21167,
                -11970, 2018, 4857, 1427, 4857, 11588, -15619, 11588,
                -15619, 24605, -2969, 5539, -11747, -15632, -1389, -4496,
                -3032, -9430, -1518, 2981, -8846, 2981, -8846, 2981, -9252,
                531, 4110, -2896, -4542, -15459, -594, -5924, -12574, -5924,
                13024, -8342, -16168, 28061, -1143, -4590, 15100, 2814,
                -5729, -17315, -850, 9662, -1023, -3439, 11980, 4920, 9436,
                -1412, 9436, -1412, -2914, -364, -2914, -9243, 6566, 6706,
                4700, -12300, 214, 2505, -11315, 2505, 11142, 22411, 1265,
                -6869, 13919, -24433, 885, 13873, 7215, -9718, -10349, 2618,
                16168, -8200, 16168, -24152, -1804, -5756, -4822, 11022,
                -5769, -3101, -5769, -3101, -5769, -3101, -5769, -3101,
                11268, 2062, -11809, -5997, 2169, 795, 4011, 795, 4011, 795,
                25664, -14179, 25664, -14179, 25664, -163, -1985, 15739,
                -7759, -7641, 6159, 668, -4539, 16968, 153, -3878, -3490,
                -3878, -3490, -3878, -3490, 18219, -4384, 148, -7332, 148,
                383, -18230, 383, 9854, 13326, 9854, 13326, -3163, 6488,
                -17710, 9026, -546, 4095, -180, 7153, 16900, -3288, -15451,
                6767, -16144, -5951, -14662, 6069, -7498, 3595, 15505, 3595,
                15505, -508, 19017, -10073, -10292, -2678, -3733, -7024,
                -2758, -3122, 11217, -18478, 7248, -6522, 14472, 31, 14472,
                31, 1020, -15739, 1020, 10642, -3803, 5329, -9830, 5329,
                -9830, 5226, 8102, 11499, -19966, 5820, -22681, 1942,
                -11624, -22726, -5720, -15373, 6274, 14490, -7090, -11683,
                -4333, -10050, 6276, -12771, 5214, -12771, 21654, -37,
                -3805, -15781, 2688, -2487, 1099, 10041, 1099, 3496, 1841,
                3496, 1841, -7360, 338, -7482, 1343, 5144, 1343, 6175,
                -11180, -17719, 638, 4359, -919, -3000, 6026, 8214, -5332,
                11534, 6435, 5121, 12351, 5535, 2054, 3832, 4215, 2895,
                13355, 20327, 1123, 4936, -15201, -17852, 836, 14295, 3105,
                -8435, -1736, 6060, 3877, 5890, -10009, -5906, -12494,
                -25903, 5, 5393, 9719, 5393, 9719, 5393, 9719, -1202, 9719,
                -1202, 9719, -1202, -3756, 2262, -8350, 739, 4220, -9950,
                4220, -9950, -23179, -582, 14561, -19742, 14561, -19742,
                7273, -203, 9671, 16052, 9671, -13768, 4662, 3658, 17283,
                3658, 17283, 3658, 17283, 3658, 17283, -215, 17283, -215,
                4946, -30, 4946, -30, -9973, 2656, -9973, 253, 475, 15593,
                -4342, 10756, 3750, 9922, 10200, 9922, 20253, -601, -2005,
                5807, -2005, -5915, 2333, -6309, 7629, -6309, 11375, -4457,
                11375, 8904, 1789, 1536, 10163, 1536, -13994, 1524, 5772,
                -13923, -3542, 16027, 13679, -5716, -4606, 8086, -17406,
                -10870, -6886, 5214, 12095, -822, -4247, -1079, -4247,
                -1079, 6256, 17240, -21860, -778, -1630, -13741, -1630,
                -13515, -14042, 3239, 9864, -6852, 955, 18939, 955, 18939,
                955, 18669, 889, 18669, 4845, 20361, 124, -6803, 10881,
                -6803, 10881, -18245, 15582, -1814, 2341, -3272, -4871,
                15637, 669, -3638, -8657, 6692, -14850, -5564, -20296, 1233,
                6259, -1354, -9688, -8018, -9688, -8018, -9688, 12500,
                -2623, -8534, 4890, 3732, 2338, 6257, 11296, 4143, 5946,
                -10310, 5946, 15971, -458, 5539, -4893, 5539, -4893, 19226,
                -4893, 19226, 11573, 19226, 11573, 19226, -29320, 14, 5357,
                3667, 5357, 634, 3510, 634, 3510, 634, 26439, 63, 12684,
                -3988, -2465, -7357, 22114, 1083, -3974, 2206, 4197, 6593,
                14708, 26097, 676, -12505, 13915, -12505, 13915, -12505,
                13915, 1694, -7298, 5342, -7298, 5342, 7567, 15204, -2670,
                -3029, 9627, -3029, -5694, 5110, -5694, 5110, -7770, 4531,
                -7770, -4599, -7770, 21630, 8111, -1576, 8244, 3310, 9884,
                -11144, -12415, -18756, -745, 6736, -7997, 6736, -7488,
                10126, -1028, -12376, -1028, -12376, -1028, -12376, -40,
                536, 14075, 536, 14075, -6810, 4447, 3187, 2517, -8956,
                -6297, -8956, -6297, -12591, 3092, 10912, 3600, 2331, -4302,
                12749, -4302, 4801, -13648, -162, -5864, -1358, 5086, -1358,
                5086, 6621, -11992, -10402, -19273, 16797, 2316, 6523, 2434,
                5811, -9619, 5811, -9619, 10292, 12404, 13967, 14540, 6998,
                13502, -1157, -953, -3918, -953, 8762, -3332, -10184, -6136,
                23115, 6375, 8215, 3299, 8215, 3299, 12554, 4825, 12554,
                1876, 12554, 5699, 9334, 8777, -16005, -4015, -14859, -3105,
                3816, -2517, -1960, -2517, 5095, 8408, 5095, 8408, -4226,
                -7679, -4226, -7679, -10758, -5910, -10421, -20017, 29716,
                402, 5150, 15538, 730, -3962, -8054, -7988, 7233, -3447,
                7233, -3447, 5994, 12342, -24012, -6449, 300, 14289, -10580,
                14289, 15192, -7678, -17774, -1058, -9264, 12190, 16507,
                25137, -91, -11114, 4519, -11114, 4519, -15758, 1838, 6624,
                3515, 1224, 3515, -1121, -15949, -1121, -15949, -1121, 2299,
                7945, -1683, 2220, -6535, 2220, -6535, 2099, 6653, 2525,
                -12829, 4193, -12829, 4193, -12829, -2832, 3474, 14887,
                -3253, 3553, -203, -4589, -203, 2944, -1934, -10524, 8692,
                6795, 4109, 3359, 7907, 3359, 7907, -1538, 2934, 10720,
                2934, 16514, 12034, 3848, -2265, -6717, 12505, -6086, 12128,
                -10437, -10586, -10353, 13966, 14259, -8560, -9069, -2165,
                -4785, 7423, -4785, 11452, -10706, -19323, -2806, 9538,
                -10769, 17120, 26638, -790, 8388, 2855, 8388, 2855, -6326,
                2847, -8905, 29215, 672, -7309, 8109, 8918, -1570, -3227,
                -12117, -820, -13877, -15824, -13877, -15824, -13877,
                -15824, 12088, 5280, 3591, 12909, 7832, 12909, -2155, -7135,
                -16366, -22409, 4679, 6557, -9165, -9448, 3934, -9448,
                -5274, 6001, -14392, 498, -14392, 498, 8535, -28777, -1402,
                999, 2973, 11822, 2973, 3321, 10564, 13959, 22558, -2473,
                -20291, 209, 4659, -7747, 13620, -11858, 7059, -14939, 1638,
                -18422, -1359, -18422, -825, -12341, -21787, 28885, -166,
                4010, -4827, 4010, 19331, -484, -7497, 2887, 9483, -6939,
                13169, 10403, -4489, 3346, 9908, 4941, 9908, 4941, 9908,
                4941, -15571, -3636, -1966, 4138, -9186, 13031, -3048,
                -2399, -18527, -2399, -18527, -2399, -18527, 1221, -9402,
                -13634, -6201, -2903, 10283, 5045, -12446, -5799, -11562,
                -2893, 10085, 8140, 10085, 8140, -5740, -13230, 3534, 9123,
                16574, 18154, 10827, -12310, -2256, -9718, -4092, -9718,
                -5880, 615, 6573, 615, -338, 272, 4339, 272, 4339, 272, 538,
                -9079, 538, 8157, 16339, 8157, 16339, -41, 8605, -3351,
                8605, -3351, 8605, -3351, 8605, -18816, 5380, 2480, 7699,
                -19532, 10981, -13907, -11129, -18927, -1061, -6891, 4635,
                -6891, -2943, -7703, -2943, 15098, 405, 8687, -2091, -7885,
                -124, -8050, 18733, -1722, -11619, -12632, -2195, -5192,
                -17532, 2760, 349, 2202, -6640, -6714, 14815, -2222, -2906,
                -4735, -2906, -3401, -7412, -3401, -5872, -3401, -2361,
                7029, -6577, 1952, -6577, 1952, -6577, 2481, -6577, 18286,
                2060, -4635, 13902, 5687, 2552, -7006, -34218, -7006,
                -34218, -108, -1069, -3016, -1069, -3016, 3966, -3016,
                -16212, 9739, -16212, -22862, -5618, -2806, -3676, 5298,
                12930, 4212, -5256, 11377, -5256, 11377, -18269, 5726,
                17040, 525, -17493, 10447, -17493, -5829, -16988, 1526,
                10377, 15652, 13867, 4518, -7809, 9974, 16169, 2607, 11179,
                -1587, -7192, -1103, -7192, -1103, 2312, -1103, 2312,
                -11719, 2312, -10901, 2071, 6390, -14526, 16771, -5204,
                -5945, -12105, -3989, 6965, -11983, 4145, -11983, 4145,
                -11983, 11693, 1386, 6768, -8087, -7759, -5661, -8423,
                -1118, -6293, -2793, 11377, -4338, 12042, -9441, 17323,
                -6255, 5957, 10125, 18711, 28473, 18711, 28473, -703, 23692,
                8070, 23692, 3349, 17835, 516, 15560, -1004, 15560, -1004,
                -1442, 2678, -1442, 12480, -4421, -8528, 9649, 3590, -4981,
                -6791, -4981, -6791, -5656, 7622, -5656, 7622, -5656, 7622,
                -5656, 7622, -5656, 7622, -5656, 7622, -3268, 6004, -3268,
                -3829, -5584, -5938, 3476, 4255, 3476, -18080, -8126,
                -18080, 967, 6317, 217, -7603, -7798, 13791, 17861, 1375,
                7449, 1152, -8741, 2763, -4009, 8934, -4009, -9464, -12568,
                -15093, 14697, 3353, -1935, -608, -1935, 5176, -4351, 316,
                -4351, 3327, 10363, 15839, -1223, -6107, 1263, -11098,
                -1475, -11098, -1475, 4853, 3499, 4853, 3499, -2496, -10608,
                8927, 17600, 428, -4963, -6707, -11545, -4930, 7005, 15118,
                7005, 15118, 40, -12272, -2580, -11435, 4669, 8204, -4563,
                10133, -3822, 3695, 7784, 5904, -4038, 12251, -17832, 4124,
                13666, 9932, -19769, -759, -15337, -23784, 251, -10581,
                7321, -10581, 7321, -10581, -14913, 9931, -5506, -2484,
                9429, -2484, -925, -5725, 13884, -5725, 13884, -2454,
                -15551, 106, 4278, -12641, 15273, 2552, 5477, 5614, 5477,
                5614, -15266, -8415, -15266, -8415, 20916, -2419, 6369,
                14298, 81, 5569, -165, 4596, -2399, -1296, -5428, 5299,
                -12173, -16317, 14809, -4327, 3354, -10588, -1920, -8574,
                -1816, -7662, -4743, 11267, 1953, 7183, 2662, 13040, -9723,
                13040, -9723, 13040, -9723, 3239, 5634, 3357, 5634, 3357,
                5634, 3357, 4543, 24457, 4543, 24457, 452, 537, -10369, 537,
                -7555, -565, -5245, 25948, -1879, 8558, 11449, 2816, 2028,
                -13435, 24087, -6017, -2513, 8979, -2997, 9122, -6412, 5797,
                -3682, -8942, 1570, -2659, 1570, 1015, 8778, 1015, 8778,
                1015, -12333, -538, -8849, 8524, -8849, -10423, -17112,
                -5299, -17307, -9799, 8076, 9682, -6158, 10939, 12145,
                -1765, 14430, 3736, 14430, 4547, -1485, 2555, -1485, 4243,
                7180, 17798, 424, -5072, -4921, -15500, 16369, 1259, 8875,
                -6189, 8875, -6189, -7842, 5409, -5348, 12078, 21655, -335,
                -9028, 8523, -9028, 5272, -12473, -2828, 9267, 8026, 15304,
                -4569, 16750, 933, 5882, 4613, -11716, 2846, 11463, -21560,
                -3074, 1774, -2876, 16720, 647, -5953, 5527, 3360, -8686,
                2580, -8686, 2580, -2029, -3126, -5563, -360, -2848, -360,
                7480, 5605, 2195, -6302, -8452, -6302, 5603, 3539, 16723,
                7511, 16723, 7511, 16723, -3497, 4700, -3594, 6240, -14943,
                12351, -14943, 12351, 20175, -333, -23581, -7112, -23581,
                -7112, -23581, 4884, -6176, 8078, -3964, 11220, -468, 11220,
                -468, 3984, 11734, -2526, 2333, 492, 3571, 492, 3571, 492,
                -12898, -6724, -13136, 946, -1407, 15342, -1407, 2841,
                10410, 13014, 1481, -1816, -9872, -1816, -2868, -11903,
                -2868, 5507, -25039, 7800, -25039, 1069, 13888, -7038,
                -3401, -636, 14874, -636, 14874, 1416, 8050, 1967, 8050,
                -16799, 8050, -16799, 6900, -16799, 5652, -17659, 17727,
                2689, -12402, 13794, 4712, 8901, -7049, 5299, -2515, 5299,
                -2515, -9429, -5783, -3902, 6430, -3902, 6430, -4137, 12341,
                -4539, 1046, -1714, -8000, 16256, 64, 6128, -9664, -9246,
                9982, -9246, 9982, -17235, -2369, -6644, 16340, -816, 10251,
                -6026, 6636, -14169, 2465, 7787, -4977, -12521, 23528, 318,
                3454, -2477, -3066, -15834, 5123, 3389, -4103, 3389, -1866,
                8546, -7725, 14206, -4328, 13601, 1750, 13601, 1750, 8037,
                13969, 627, -208, 10323, -208, 10323, -208, 10323, -18976,
                21252, 21195, -11223, -9462, -5889, -6441, -5889, -6441,
                -14840, -1059, 14851, -2723, 14851, -2723, 419, -13007,
                -12766, -13007, -12766, -13007, -12766, -5512, -3771, -9180,
                19717, -1465, 8876, -1243, -2168, 2537, 8848, 553, -4961,
                -3300, -10802, 2148, 6403, -5127, -12044, 5777, 10440,
                -14189, -423, -13461, -4658, -13461, 2636, -13461, 2636,
                -4725, -11767, -15641, -23970, -823, -11618, 5819, -13812,
                2602, 1530, 3882, 4968, 3882, -4275, -9694, -4275, -9694,
                -2315, 3026, -6105, 3026, -6105, 3026, 2820, 3026, 2820,
                3026, 2820, 11257, 2820, 11257, 4578, 10042, 1751, 5950,
                -14162, -3735, 3834, 2767, 7074, 18190, -4185, 11881, 2118,
                19416, 7662, 19416, -943, 7395, -286, -7640, 8333, -7640,
                -10551, -18594, 2510, -26894, 4886, -26894, -4562, 2947,
                -2992, -4291, -2992, -5953, -16237, -136, -6510, 9978,
                -6510, -11585, -18340, 11185, -10635, -5649, -9293, 15528,
                -866, -3600, 9765, 16117, -22445, -2717, 7779, -8266, -340,
                9986, -340, 9986, -340, -5660, -340, 15050, 12663, 15050,
                12663, 2811, -9913, -1639, -14074, -2191, -2403, -1381,
                -2403, -1381, -2403, -1381, -1407, 8578, -1407, 8578, -1407,
                -6965, 14377, 133, -14568, -7395, -14568, -1648, -5084,
                3151, 9902, -1656, 7782, 8911, 16619, -4638, -8217, 13607,
                8909, 13607, 8909, -1415, 3302, 5488, 3302, 8396, 5546,
                -11667, 21919, -5057, 7880, -10225, -5781, -2919, 6679,
                -497, -6722, -497, 2225, -13974, 2225, -13974, 1274, -5696,
                -4328, -3244, -3614, 13364, 7717, -5891, 10037, 13262, 1556,
                2752, 3510, 3732, 3510, -8587, -4190, 10464, 13992, -985,
                122, -17557, 122, -2507, -2357, -3857, -8083, 2560, -1759,
                -8029, -1677, 745, -1677, 745, 4540, -11934, -25140, -2721,
                17507, -2450, -7622, -8816, -1004, 7348, 4830, -7078, 1094,
                8613, 1094, 8613, 1094, -13030, 26251, -1855, -7014, -11068,
                -6657, -12994, 2116, -12591, 563, -12591, 563, 2109, -6309,
                2109, -3679, -11476, -14014, 6503, 9564, 5069, 9564, 5069,
                -591, 5069, -591, -13367, -14062, -13367, -18725, -5765,
                17889, 1259, 1281, 7015, 1281, 7015, 1281, 7015, 12509,
                7015, 12509, 7015, 12509, 7015, 1683, 7910, 24399, -346,
                -2775, -10381, -2775, -8074, 17954, -440, 2427, 15972,
                29128, 113, -2608, 934, -5031, -1874, -17719, -4963, -17719,
                3142, 1758, -1431, 11919, 4445, 4333, -3576, -2120, 9249,
                17547, 1991, -5006, -5421, -1826, -5421, -1826, -5421, 9307,
                15479, -4361, 9647, -7048, -205, -7048, -205, -7048, -205,
                -7048, 16272, 2142, 16272, 10531, -8765, -11937, 14592,
                -8925, -5612, -12664, -5612, -12664, -20530, 756, -5986,
                -1913, 3118, -5321, 12859, 6941, -10569, 18521, 18048,
                -2081, 1899, 5692, 258, 5692, 258, -7921, 258, -6687,
                -18358, -6687, -18358, -4335, -4476, 12393, -13269, 4395,
                -12580, -793, -12580, -793, 23051, -7336, 23051, -7336,
                23051, 1734, -7091, 9380, -13793, 533, 7454, 10, 7454, 10,
                -15559, -1569, -15559, 6803, -15559, -4226, 9920, 13885,
                1853, 19245, 4282, 19245, -28, -15994, -14363, -8486, 19686,
                1385, 27125, 7824, 27125, 15436, -295, 4428, 1676, 4428,
                -13867, -19302, -3326, 14572, 1297, -7075, -581, -11087,
                3448, -11087, 4145, -5424, 11477, 3904, 6620, 13003, 3501,
                4905, 4439, 11146, 21364, 322, 12946, 22055, 12946, 22055,
                -678, -1483, 2091, -1483, 2091, -1483, -5125, -1483, -5771,
                -6133, -5771, -4759, 2164, 4093, -12975, -13141, -23106,
                103, 4245, -10171, -1108, -15911, -8559, -15911, -11441,
                3386, -13478, 7032, -13478, -5166, 7432, -16020, 30, -12258,
                8976, -12258, 7324, 9857, -16923, 3470, 5008, 2051, -10184,
                6703, -10184, -5074, -10827, -16316, 23969, 3947, 13073,
                -784, 2305, -2912, 7229, -20420, -3812, 3647, -14977, 20557,
                -14977, 20557, -1348, 9433, 4497, 16063, 18574, -5513,
                14386, 2615, 6404, -3240, 2092, -12334, 2092, 7895, -3195,
                2253, -8113, 22098, -8113, 22098, -8868, 8947, -2906, 8947,
                -2906, -972, -2906, -8505, -1606, 7935, -883, -7277, -4773,
                -7277, -7879, 5859, -7879, 5859, -5831, -7353, -5879,
                -14284, -5879, -14284, -5302, 8646, -17397, -799, -2122,
                8763, -2122, 4917, -12927, 3911, -12927, -5658, 10705,
                16523, 1513, 6033, 8216, -3858, -9034, 21927, 2771, -2110,
                6850, 3629, 15929, -451, 15929, -451, -24757, -2829, -24757,
                94, 5246, -20880, -2626, -14597, -549, 15406, 1509, -10069,
                7056, -15129, 169, 7616, 1264, 1450, -2906, -1394, 12246,
                -1394, 4157, -9533, -9098, 4768, 7978, 5193, 10210, 10887,
                -13436, 4178, 3221, -12843, 10669, 7174, -13940, -13373,
                4380, -4152, -5253, 1198, -5253, 1198, 16032, -2684, 16032,
                -2684, 16032, 6501, 4163, 13503, 33529, 77, -2310, -9002,
                -3278, 9782, -2207, 9782, -13597, 22274, 632, 8658, 8622,
                7739, 8622, 7739, 3011, 5812, 18502, 5900, 2952, -14172,
                -17910, -2345, 6243, -10850, -8705, -983, 1334, -11067,
                -12394, 14794, -12622, -2801, -6588, -4369, 7315, -2605,
                -6211, -13696, 19522, 678, 7296, -14818, 7296, -14818, 7296,
                -14818, 5924, 9446, 5245, -3237, -4395, -3237, -4395, 12846,
                -11677, 6176, -14764, -11571, -6525, 13271, 9604, 13271,
                9604, 2543, -4656, -11238, -4656, -6007, 10631, -6007,
                10631, -19756, -217, -5397, -5013, -5397, 2487, 9046,
                -13405, 9046, -13405, 9727, 19541, -183, 27757, -3842,
                27757, -4372, 27757, 157, 2063, 4429, -6551, 12622, -6551,
                12622, -13877, -14714, -5811, -13520, 24844, 5221, -1980,
                1918, -12799, 1918, -12799, 1918, -12799, 1918, -3825,
                -12344, 14323, 3164, -5596, 5376, 2238, 5376, 13425, 1755,
                -9967, 17060, 993, 4421, -15655, -6859, 14906, -6859,
                -27142, -5977, -27142, 420, 6518, 10629, -19561, 1637,
                12444, -10975, 5332, -372, 9258, -372, -6520, -11978, -6520,
                -17020, 13445, -8058, -3507, 10041, 1226, 9034, 20605,
                11225, 7686, -12722, -12303, 6512, 17555, 3851, 17555,
                -3928, -9343, 854, -6296, -8414, -1849, 14263, 4735, 14263,
                -6568, 4906, -4890, -14368, -731, 8020, 2647, -8470, 5295,
                -14272, 14089, 7974, -8113, 16493, 34858, 1926, -6795,
                -19131, 3923, -19131, 3923, 11325, 8996, 17568, -97, -8094,
                11886, -8094, 9036, -8094, 9036, -8039, -10224, -11213,
                19149, 1406, -6035, 10048, -12799, -20070, 8304, 1442,
                -2013, 1442, -2013, -6181, -2013, -6181, 10897, 20254, 3156,
                11731, -4544, 11731, -4544, 11731, 102, -2605, 2180, -7912,
                -2068, -2661, 4330, -2661, 4330, -2661, 4330, 3643, -5474,
                5643, -5474, 5643, 5159, 13947, -177, -11404, -19208, 13368,
                2868, -2613, -11109, 9052, -14226, 1945, 4932, 7805, 4932,
                7805, -3177, -1255, -13119, 1239, -7884, -12505, 3226, 9868,
                -7176, 9868, -7176, 12246, 9047, -1645, 6736, 6211, 6877,
                -13298, -5671, -13298, -444, 4292, -1726, 2513, 12989,
                -2793, 2472, -535, 2472, 11593, 33, 4838, 159, 4838, 159,
                -16285, -1737, 8292, 6991, -3376, 10274, 11979, -10086,
                8490, 2242, -6248, 1579, -9905, 1579, -9905, 8709, 6898,
                8709, 6898, -7676, 15035, -1865, 9741, 1023, -9138, -5830,
                6888, 6226, 6888, 6226, -5715, -8293, 16826, -5293, 9903,
                5947, -12940, -4372, 4505, -2189, 4024, -2189, 4024, -2189,
                4024, 10405, -2617, 956, 6599, 956, -12495, 6771, -12495,
                -4586, -4911, 8548, 3553, 3067, 3553, 3067, -5615, -5724,
                11288, -12930, -7744, -14589, 6557, 14559, 21561, -2944,
                2405, -8341, 2436, -8341, 2436, -10672, 16371, 15658, -1127,
                15636, 11260, 15636, -9381, 9032, -16633, -16730, 27925,
                -146, 3396, 11881, 23603, 973, 570, -5350, 570, 10834,
                -2199, -4735, -14643, 9569, 4136, -6349, -1725, -6349,
                -1420, 11716, -1420, 11716, -1420, -2944, -3467, 4368,
                -8513, 12012, -20244, -20120, 866, 9827, 4551, 9827, -10204,
                9996, -2107, 9996, -2107, -12042, -3927, -12042, 5981,
                10615, -17013, -24381, 3968, 20101, -1332, 1763, 7132,
                -2093, 7132, -2093, -8553, -4511, 18269, 524, 18269, 524,
                11044, -22108, 11044, -22108, -20339, -6839, -21968, 31163,
                -2925, 14224, -8096, 13949, 2219, 1326, -7078, 1326, -7078,
                -1676, 5620, -9732, 5620, 3267, 8875, -1405, -4342, 19269,
                6956, -1004, -12581, 6357, -12581, 21295, -310, -5358,
                -3970, -5358, -3970, 11958, -30979, 728, -2293, 14964, 1359,
                14964, 12760, -14911, 2067, 1810, 11854, 8024, 3773, 9550,
                -23073, 24737, -20100, 1131, 12771, -6482, 12771, -15780,
                12771, -15780, -2597, 5393, 17311, 10628, 4719, -13842,
                9298, -17871, 9298, -17871, -6483, -13373, 6076, -8659,
                -14944, 1054, 3165, 1750, 8849, 1750, 8849, 1750, -14573,
                4256, -7303, -16886, -1830, -17136, -24277, 457, -3022,
                7215, -3022, 8057, -3832, 11753, -4015, -11786, -5427,
                -13335, -31107, -5129, -29575, 2256, 2346, 9996, -4499,
                -14906, 4593, 14030, 1906, -11849, 2064, -11017, -661,
                -8057, 7460, -8057, 453, -8057, 453, -8057, 453, 10609,
                2939, 10609, 2939, 19206, 3510, 19206, -622, 4546, 6992,
                3041, -8025, 2802, -8025, -5772, 13548, 1966, 3737, -4436,
                -15463, 2594, -20710, 113, 3004, 796, 11947, 3235, 4867,
                11487, 4867, 11487, 4867, 22429, -319, 1687, -18125, -7161,
                4579, 12308, 4088, 12308, 4088, -2117, 8949, -2117, 8949,
                2466, -8361, -254, -1816, -24734, -20340, 2136, -17492,
                23446, 1277, -4371, 4357, 5860, 4357, 5860, 4357, 5860,
                4357, 5860, 12913, 3588, -3246, -23163, -3246, -23163,
                -1161, 16036, 10912, 16036, 10912, 16036, 2209, -8588, 1802,
                14488, -6072, 14488, 263, 20301, -2868, 13555, 4960, -9825,
                5907, -7806, -3247, -2415, -3247, -2415, -3247, -2415,
                -6197, 12259, -6197, 12259, 19354, -953, -6883, 7765, 18078,
                1486, 7610, 20410, -9226, -18874, -27284, -188, 5508, 8218,
                5508, -15398, 24152, -169, 2263, 7477, 2263, 7477, 2263,
                7477, 21793, -2880, -3411, -10182, 8254, 248, -7328, 8637,
                -7328, 8637, -7328, 8637, 234, -16133, 11702, -16133, -4307,
                13672, -5015, 8271, 11672, 20480, -478, -13938, 8150, 11281,
                10003, -10713, 19038, 368, 4876, -6907, 4876, 4259, 4876,
                12548, 2135, 8616, 312, 12031, 15107, 3683, 6215, 12769,
                3734, 11670, 24820, -642, 2651, 963, 4608, 963, -5015,
                -8732, 4232, 11793, 409, 2221, 17035, -23356, 17035, -23356,
                -391, 19436, -14712, 19436, -24458, -458, 6153, 353, 6228,
                7611, -8865, -2307, -8464, -2307, -8464, 454, 75, 6866, 75,
                4851, -1601, 3493, 10480, 3729, 123, -15741, 8808, -15741,
                3319, 6757, 16326, -28848, -207, 6025, 14459, 6025, 7073,
                -7579, -2896, 1528, -4843, 11625, -15044, 11625, -15044,
                23303, 327, 1977, 1418, 1977 >>,
            k |-> << 2, 2, 2, 2, 2, 2, 4, 2, 2, 2, 2, 2, 2, 2, 2, 2, 2, 2, 2, 2,
                2, 2, 2, 2, 2, 4, 2, 2, 2, 4, 2, 2, 2, 2, 2, 4, 6, 2, 4, 6,
                2, 4, 2, 2, 6, 6, 4, 4, 2, 2, 2, 2, 2, 2, 2, 2, 2, 2, 2, 2,
                4, 2, 2, 2, 2, 2, 6, 4, 4, 2, 2, 2, 2, 2, 2, 2, 2, 2, 2, 2,
                2, 6, 4, 4, 2, 2, 2, 2, 2, 2, 2, 2, 2, 2, 4, 4, 2, 2, 4, 2,
                2, 2, 2, 2, 2, 2, 2, 2, 2, 2, 2, 2, 2, 2, 2, 2, 2, 2, 2, 2,
                6, 4, 4, 2, 2, 2, 2, 2, 2, 2, 2, 2, 2, 4, 2, 2, 2, 2, 2, 2,
                2, 2, 2, 2, 4, 2, 2, 2, 2, 4, 4, 2, 2, 2, 2, 2, 2, 2, 2, 2,
                4, 2, 2, 2, 2, 4, 4, 2, 2, 6, 4, 4, 2, 2, 2, 2, 2, 2, 2, 2,
                2, 2, 2, 2, 2, 2, 2, 2, 2, 2, 2, 2, 2, 2, 2, 2, 2, 2, 4, 2,
                2, 2, 2, 2, 2, 2, 2, 2, 4, 4, 2, 2, 2, 2, 2, 2, 2, 2, 2, 2,
                2, 2, 4, 2, 2, 2, 2, 4, 2, 2, 2, 2, 2, 4, 2, 2, 2, 2, 4, 2,
                2, 2, 2, 2, 2, 2, 2, 6, 6, 4, 4, 2, 2, 2, 2, 2, 4, 2, 2, 4,
                2, 2, 4, 2, 2, 2, 4, 4, 2, 2, 2, 2, 2, 2, 2, 8, 4, 6, 2, 4,
                4, 2, 2, 2, 2, 2, 2, 2, 2, 4, 2, 2, 2, 2, 2, 2, 6, 4, 4, 2,
                2, 2, 2, 2, 2, 4, 4, 2, 2, 2, 2, 4, 4, 2, 2, 2, 6, 6, 4, 4,
                2, 2, 2, 2, 2, 2, 2, 2, 2, 2, 2, 2, 2, 2, 2, 2, 2, 4, 2, 2,
                2, 2, 2, 2, 2, 2, 2, 2, 2, 2, 2, 2, 2, 2, 2, 2, 6, 6, 4, 4,
                2, 2, 2, 2, 2, 2, 2, 4, 4, 2, 2, 4, 2, 2, 6, 2, 4, 2, 2, 4,
                8, 2, 6, 6, 4, 4, 2, 2, 2, 2, 2, 2, 4, 4, 2, 2, 4, 4, 2, 2,
                2, 2, 2, 2, 2, 2, 2, 2, 8, 6, 6, 4, 4, 2, 2, 2, 4, 4, 2, 2,
                2, 2, 2, 4, 4, 2, 2, 2, 2, 2, 2, 2, 2, 2, 2, 2, 2, 2, 2, 2,
                2, 2, 2, 2, 2, 2, 2, 2, 2, 2, 2, 2, 2, 2, 2, 2, 2, 2, 2, 2,
                2, 2, 2, 2, 2, 2, 2, 2, 2, 2, 2, 2, 4, 4, 2, 2, 2, 2, 2, 2,
                2, 2, 2, 2, 4, 4, 2, 2, 2, 2, 2, 2, 2, 2, 2, 2, 2, 2, 2, 2,
                2, 4, 2, 2, 2, 2, 2, 2, 2, 4, 4, 2, 2, 2, 2, 4, 4, 2, 2, 2,
                2, 2, 4, 2, 2, 2, 2, 2, 2, 6, 4, 4, 2, 2, 2, 2, 2, 4, 2, 2,
                2, 4, 4, 2, 2, 2, 2, 2, 2, 2, 2, 2, 2, 2, 2, 2, 2, 2, 2, 2,
                2, 2, 4, 2, 2, 4, 2, 2, 2, 2, 4, 4, 2, 2, 2, 4, 2, 2, 4, 2,
                2, 2, 2, 2, 2, 2, 2, 2, 2, 2, 4, 2, 2, 2, 4, 4, 2, 2, 2, 2,
                2, 2, 2, 2, 2, 2, 2, 2, 2, 2, 2, 2, 2, 2, 2, 2, 2, 6, 2, 4,
                6, 2, 4, 2, 2, 2, 2, 2, 2, 2, 2, 2, 2, 2, 2, 4, 4, 2, 2, 2,
                4, 2, 2, 2, 2, 2, 4, 2, 2, 4, 2, 2, 2, 2, 2, 2, 2, 2, 2, 2,
                2, 2, 2, 6, 6, 4, 4, 2, 2, 4, 4, 2, 2, 2, 2, 2, 2, 2, 2, 4,
                2, 2, 2, 2, 2, 2, 2, 2, 2, 2, 2, 10, 6, 8, 4, 6, 2, 4, 2, 2,
                4, 2, 2, 2, 2, 2, 2, 2, 6, 8, 4, 6, 2, 4, 4, 2, 2, 2, 2, 2,
                4, 2, 2, 2, 2, 2, 4, 2, 2, 2, 2, 2, 2, 2, 4, 2, 2, 2, 2, 2,
                2, 4, 2, 2, 2, 2, 2, 4, 2, 2, 6, 4, 4, 2, 2, 2, 2, 4, 2, 2,
                4, 4, 2, 2, 2, 2, 2, 2, 2, 2, 2, 2, 2, 2, 2, 2, 2, 2, 2, 2,
                2, 2, 2, 2, 2, 2, 2, 2, 2, 2, 2, 2, 2, 2, 2, 2, 2, 2, 2, 2,
                2, 2, 2, 2, 4, 4, 2, 2, 2, 4, 2, 2, 2, 2, 2, 4, 2, 2, 2, 4,
                4, 2, 2, 2, 2, 2, 2, 2, 2, 2, 4, 2, 2, 2, 2, 2, 4, 2, 2, 2,
                2, 2, 2, 4, 2, 2, 2, 2, 2, 2, 2, 4, 4, 2, 2, 4, 2, 2, 4, 4,
                2, 2, 4, 2, 2, 2, 2, 6, 4, 4, 2, 2, 2, 2, 2, 2, 2, 2, 2, 4,
                4, 2, 2, 2, 2, 2, 2, 4, 2, 2, 4, 4, 2, 2, 2, 2, 2, 2, 4, 2,
                2, 2, 4, 2, 2, 2, 2, 2, 2, 2, 2, 2, 2, 2, 2, 2, 2, 2, 4, 2,
                2, 2, 6, 4, 4, 2, 2, 4, 2, 2, 4, 2, 2, 4, 2, 2, 2, 2, 2, 2,
                6, 6, 4, 4, 2, 2, 2, 2, 2, 2, 2, 2, 2, 2, 2, 2, 2, 2, 2, 4,
                4, 2, 2, 2, 4, 4, 2, 2, 2, 2, 4, 2, 2, 2, 2, 2, 6, 4, 4, 2,
                2, 4, 2, 2, 2, 2, 2, 4, 4, 2, 2, 2, 2, 2, 2, 4, 2, 2, 2, 2,
                2, 6, 4, 4, 2, 2, 4, 4, 2, 2, 2, 2, 2, 2, 2, 2, 2, 2, 4, 4,
                2, 2, 2, 2, 2, 2, 2, 2, 2, 4, 4, 2, 2, 2, 2, 2, 2, 2, 2, 2,
                2, 2, 2, 2, 2, 2, 2, 2, 2, 6, 4, 4, 2, 2, 2, 2, 2, 4, 6, 2,
                4, 4, 2, 2, 2, 2, 2, 2, 2, 2, 2, 4, 2, 2, 2, 2, 2, 2, 2, 2,
                2, 2, 2, 2, 2, 2, 2, 2, 2, 2, 2, 2, 2, 6, 4, 4, 2, 2, 2, 2,
                4, 2, 2, 2, 2, 2, 2, 2, 4, 2, 2, 2, 2, 2, 2, 2, 4, 2, 2, 2,
                2, 2, 2, 2, 2, 2, 2, 2, 2, 2, 2, 2, 2, 2, 8, 4, 6, 2, 4, 2,
                2, 4, 4, 2, 2, 2, 2, 2, 2, 2, 2, 2, 2, 2, 2, 2, 2, 2, 2, 2,
                2, 2, 2, 2, 2, 2, 2, 2, 2, 2, 2, 2, 2, 2, 2, 2, 2, 2, 2, 2,
                2, 2, 2, 4, 2, 2, 2, 2, 2, 4, 2, 2, 2, 2, 2, 2, 2, 2, 2, 2,
                2, 4, 2, 2, 4, 4, 2, 2, 4, 2, 2, 2, 2, 2, 2, 2, 2, 2, 4, 4,
                2, 2, 2, 2, 4, 2, 2, 2, 2, 2, 2, 2, 2, 2, 2, 2, 4, 2, 2, 2,
                2, 2, 2, 2, 2, 2, 2, 4, 2, 2, 4, 2, 2, 4, 2, 2, 2, 2, 6, 6,
                4, 4, 2, 2, 2, 2, 2, 2, 4, 2, 2, 2, 2, 2, 4, 2, 2, 2, 4, 4,
                2, 2, 2, 6, 2, 4, 2, 2, 4, 2, 2, 2, 2, 2, 4, 4, 2, 2, 2, 2,
                2, 2, 2, 2, 2, 2, 2, 4, 6, 2, 4, 2, 2, 2, 4, 4, 2, 2, 2, 2,
                2, 4, 4, 2, 2, 2, 2, 2, 2, 2, 4, 6, 2, 4, 2, 2, 2, 2, 2, 2,
                4, 2, 2, 2, 2, 2, 2, 2, 2, 4, 2, 2, 4, 2, 2, 2, 2, 2, 2, 2,
                2, 2, 2, 2, 2, 2, 2, 2, 2, 2, 2, 2, 2, 2, 2, 4, 4, 2, 2, 2,
                2, 2, 4, 4, 2, 2, 2, 2, 2, 2, 4, 2, 2, 2, 2, 2, 6, 6, 4, 4,
                2, 2, 2, 2, 2, 2, 2, 2, 2, 2, 2, 2, 2, 2, 4, 4, 2, 2, 2, 2,
                2, 2, 2, 2, 2, 2, 2, 2, 2, 2, 2, 8, 8, 6, 6, 4, 4, 2, 2, 6,
                4, 4, 2, 2, 2, 2, 2, 2, 2, 2, 2, 4, 6, 2, 4, 2, 2, 4, 4, 2,
                2, 2, 2, 2, 2, 4, 4, 2, 2, 2, 2, 2, 4, 2, 2, 2, 2, 2, 2, 4,
                4, 2, 2, 2, 2, 2, 2, 2, 2, 2, 2, 2, 2, 2, 2, 2, 2, 2, 2, 2,
                6, 4, 4, 2, 2, 2, 2, 2, 2, 4, 2, 2, 2, 2, 4, 2, 2, 2, 2, 2,
                2, 2, 2, 2, 2, 2, 2, 2, 2, 6, 4, 4, 2, 2, 2, 2, 2, 2, 2, 4,
                2, 2, 2, 2, 2, 2, 2, 4, 2, 2, 2, 2, 4, 4, 2, 2, 2, 2, 2, 4,
                2, 2, 2, 2, 2, 2, 2, 2, 2, 2, 2, 2, 2, 2, 2, 2, 2, 2, 2, 2,
                2, 2, 2, 2, 2, 2, 2, 6, 4, 4, 2, 2, 2, 2, 8, 6, 6, 4, 4, 2,
                2, 4, 2, 2, 2, 4, 2, 2, 2, 2, 2, 2, 2, 2, 2, 2, 2, 2, 2, 2,
                2, 2, 12, 10, 10, 8, 8, 6, 6, 4, 4, 2, 2, 4, 6, 2, 4, 2, 2,
                2, 2, 2, 2, 2, 2, 2, 2, 2, 2, 2, 2, 4, 2, 2, 2, 2, 6, 4, 4,
                2, 2, 4, 4, 2, 2, 4, 2, 2, 2, 2, 2, 2, 2, 2, 2, 2, 2, 2, 2,
                2, 2, 2, 2, 2, 2, 2, 2, 6, 4, 4, 2, 2, 2, 4, 4, 2, 2, 2, 4,
                2, 2, 2, 2, 2, 2, 2, 2, 2, 2, 2, 2, 2, 2, 2, 6, 6, 4, 4, 2,
                2, 2, 2, 2, 2, 4, 4, 2, 2, 2, 2, 2, 4, 2, 2, 2, 2, 2, 2, 4,
                2, 2, 2, 2, 2, 2, 2, 2, 2, 4, 2, 2, 2, 2, 2, 2, 8, 8, 6, 6,
                4, 4, 2, 2, 2, 2, 2, 2, 2, 2, 2, 4, 2, 2, 2, 2, 2, 2, 2, 2,
                2, 2, 2, 2, 2, 2, 2, 2, 2, 4, 6, 2, 4, 4, 2, 2, 2, 2, 2, 2,
                2, 2, 2, 2, 2, 2, 2, 2, 2, 2, 2, 2, 2, 2, 2, 2, 2, 2, 2, 2,
                4, 2, 2, 2, 2, 2, 4, 2, 2, 2, 2, 2, 2, 2, 4, 4, 2, 2, 2, 2,
                2, 4, 2, 2, 4, 2, 2, 2, 6, 4, 4, 2, 2, 2, 2, 2, 2, 2, 2, 4,
                2, 2, 4, 2, 2, 4, 2, 2, 2, 2, 4, 2, 2, 2, 2, 2, 2, 2, 2, 2,
                2, 2, 2, 2, 2, 2, 6, 2, 4, 2, 2, 2, 2, 2, 2, 2, 2, 2, 2, 2,
                2, 2, 2, 2, 2, 4, 4, 2, 2, 2, 2, 2, 2, 4, 2, 2, 2, 2, 2, 2,
                2, 2, 2, 4, 2, 2, 2, 2, 2, 2, 2, 4, 4, 2, 2, 2, 2, 2, 2, 2,
                2, 2, 2, 2, 2, 2, 4, 4, 2, 2, 2, 2, 2, 2, 4, 4, 2, 2, 2, 2,
                2, 2, 2, 2, 2, 2, 4, 2, 2, 2, 2, 2, 2, 4, 2, 2, 2, 2, 2, 2,
                2, 4, 2, 2, 2, 2, 2, 4, 2, 2, 4, 2, 2, 2, 2, 2, 2, 2, 2, 2,
                4, 2, 2, 2, 4, 2, 2, 2, 2, 2, 2, 2, 2, 2, 2, 2, 2, 4, 2, 2,
                2, 2, 2, 2, 2, 2, 2, 2, 2, 2, 4, 2, 2, 2, 2, 2, 2, 2, 2, 2,
                2, 2, 2, 2, 2, 2, 2, 2, 2, 2, 2, 2, 2, 2, 4, 2, 2, 2, 2, 2,
                2, 2, 2, 2, 2, 4, 2, 2, 2, 2, 4, 4, 2, 2, 4, 2, 2, 2, 2, 2,
                2, 4, 2, 2, 2, 4, 2, 2, 2, 2, 2, 2, 2, 2, 2, 2, 2, 2, 2, 2,
                2, 2, 4, 4, 2, 2, 2, 2, 2, 2, 2, 2, 2, 2, 2, 2, 2, 2, 2, 4,
                2, 2, 2, 2, 2, 2, 2, 2, 6, 6, 4, 4, 2, 2, 4, 4, 2, 2, 2, 2,
                2, 4, 2, 2, 2, 2, 4, 2, 2, 2, 2, 2, 2, 2, 4, 2, 2, 4, 4, 2,
                2, 2, 2, 2, 2, 2, 2, 2, 2, 2, 2, 2, 2, 2, 2, 2, 4, 2, 2, 4,
                4, 2, 2, 2, 2, 2, 2, 2, 2, 4, 4, 2, 2, 2, 2, 2, 2, 2, 2, 2,
                2, 2, 8, 6, 6, 4, 4, 2, 2, 4, 2, 2, 2, 4, 4, 2, 2, 2, 4, 4,
                2, 2, 2, 2, 2, 2, 2, 2, 2, 2, 2, 2, 2, 2, 2, 2, 2, 4, 4, 2,
                2, 2, 2, 6, 6, 4, 4, 2, 2, 2, 2, 2, 2, 2, 2, 2, 2, 2, 2, 2,
                2, 2, 2, 4, 2, 2, 2, 2, 4, 4, 2, 2, 2, 2, 2, 2, 2, 4, 2, 2,
                2, 2, 2, 6, 4, 4, 2, 2, 2, 2, 2, 2, 2, 2, 2, 2, 2, 4, 4, 2,
                2, 2, 2, 2, 8, 4, 6, 2, 4, 6, 2, 4, 2, 2, 2, 2, 2, 2, 2, 4,
                2, 2, 4, 2, 2, 2, 4, 4, 2, 2, 2, 2, 4, 4, 2, 2, 2, 4, 4, 2,
                2, 2, 4, 2, 2, 2, 2, 2, 2, 2, 2, 2, 2, 2, 2, 2, 2, 2, 2, 2,
                2, 2, 2, 2, 2, 2, 2, 6, 4, 4, 2, 2, 2, 2, 2, 2, 2, 2, 6, 2,
                4, 2, 2, 2, 2, 2, 2, 2, 2, 4, 2, 2, 2, 2, 2, 2, 2, 2, 2, 2,
                2, 2, 2, 2, 2, 2, 2, 2, 2, 2, 2, 4, 4, 2, 2, 2, 2, 2, 2, 2,
                2, 2, 2, 2, 2, 2, 2, 2, 2, 2, 2, 2, 2, 2, 2, 2, 2, 2, 2, 2,
                2, 4, 2, 2, 2, 2, 2, 2, 2, 2, 2, 2, 4, 2, 2, 2, 2, 2, 2, 2,
                2, 4, 2, 2, 2, 2, 2, 2, 2, 2, 2, 2, 2, 2, 4, 2, 2, 2, 2, 2,
                2, 4, 4, 2, 2, 4, 4, 2, 2, 2, 2, 2, 2, 2, 2, 2, 4, 4, 2, 2,
                2, 2, 2, 2, 4, 2, 2, 2, 6, 4, 4, 2, 2, 4, 4, 2, 2, 2, 2, 4,
                4, 2, 2, 4, 2, 2, 2, 6, 6, 4, 4, 2, 2, 2, 2, 2, 2, 4, 4, 2,
                2, 2, 2, 2, 2, 2, 2, 8, 8, 6, 6, 4, 4, 2, 2, 2, 2, 2, 2, 2,
                2, 2, 2, 2, 4, 2, 2, 2, 2, 2, 4, 2, 2, 4, 2, 2, 2, 4, 4, 2,
                2, 2, 6, 4, 4, 2, 2, 2, 2, 2, 2, 4, 2, 2, 2, 2, 2, 2, 2, 2,
                2, 2, 2, 2, 4, 2, 2, 4, 2, 2, 2, 2, 2, 2, 2, 4, 4, 2, 2, 2,
                2, 2, 2, 2, 2, 2, 2, 2, 2, 2, 2, 2, 2, 2, 4, 2, 2, 6, 6, 4,
                4, 2, 2, 2, 2, 2, 2, 2, 2, 4, 4, 2, 2, 2, 2, 2, 4, 2, 2, 2,
                2, 2, 2, 2, 2, 2, 2, 2, 2, 2, 2, 2, 2, 2, 2, 2, 2, 2, 2, 2,
                2, 2, 2, 2, 2, 2, 2, 2, 2, 4, 2, 2, 2, 2, 4, 2, 2, 2, 2, 2,
                2, 4, 2, 2, 2, 2, 2, 2, 6, 4, 4, 2, 2, 2, 2, 2, 2, 2, 2, 2,
                2, 2, 2, 2, 2, 2, 2, 2, 2, 2, 2, 4, 2, 2, 2, 2, 8, 6, 6, 4,
                4, 2, 2, 2, 2, 2, 2, 2, 2, 2, 2, 2, 2, 2, 2, 2, 4, 4, 2, 2,
                2, 4, 4, 2, 2, 2, 2, 2, 4, 2, 2, 2, 2, 4, 2, 2, 2, 2, 2, 4,
                4, 2, 2, 6, 2, 4, 2, 2, 2, 2, 2, 2, 2, 2, 4, 4, 2, 2, 2, 2,
                2, 2, 2, 6, 4, 4, 2, 2, 4, 2, 2, 2, 2, 2, 2, 2, 2, 2, 2, 2,
                2, 4, 2, 2, 2, 2, 2, 2, 2, 2, 4, 2, 2, 2, 2, 2, 2, 4, 4, 2,
                2, 2, 2, 2, 2, 2, 2, 2, 2, 2, 2, 2, 2, 2, 2, 2, 2, 2, 2, 6,
                4, 4, 2, 2, 2, 2, 2, 2, 2, 2, 2, 2, 2, 2, 2, 2, 2, 2, 2, 2,
                2, 2, 2, 2, 2, 2, 2, 2, 2, 2, 2, 2, 2, 2, 4, 2, 2, 4, 4, 2,
                2, 4, 2, 2, 6, 6, 4, 4, 2, 2, 2, 2, 2, 2, 2, 2, 2, 2, 2, 2,
                2, 4, 2, 2, 2, 2, 2, 2, 2, 2, 4, 2, 2, 4, 2, 2, 2, 2, 4, 2,
                2, 2, 4, 4, 2, 2, 2, 2, 2, 2, 2, 2, 2, 2, 2, 4, 2, 2, 2, 4,
                2, 2, 2, 2, 2, 2, 2, 2, 2, 2, 2, 2, 2, 2, 2, 2, 2, 2, 2, 2,
                2, 4, 4, 2, 2, 2, 2, 2, 2, 2, 2, 2, 2, 2, 2, 2, 2, 4, 2, 2,
                2, 2, 4, 4, 2, 2, 2, 2, 2, 2, 6, 4, 4, 2, 2, 2, 2, 2, 6, 4,
                4, 2, 2, 2, 2, 2, 2, 2, 4, 4, 2, 2, 2, 2, 2, 2, 2, 2, 4, 2,
                2, 2, 2, 2, 2, 2, 4, 4, 2, 2, 4, 2, 2, 2, 2, 4, 2, 2, 4, 4,
                2, 2, 2, 2, 2, 2, 2, 2, 2, 2, 2, 2, 6, 4, 4, 2, 2, 2, 2, 2,
                2, 2, 2, 2, 4, 2, 2, 2, 2, 2, 2, 2, 2, 2, 2, 2, 2, 2, 2, 2,
                2, 2, 2, 4, 4, 2, 2, 4, 2, 2, 2, 2, 2, 2, 2, 2, 4, 2, 2, 2,
                2, 2, 2, 2, 2, 2, 2, 2, 2, 2, 2, 4, 2, 2, 2, 2, 2, 2, 2, 8,
                8, 6, 6, 4, 4, 2, 2, 2, 2, 2, 2, 2, 6, 4, 4, 2, 2, 6, 4, 4,
                2, 2, 2, 2, 2, 2, 2, 2, 2, 2, 2, 2, 6, 6, 4, 4, 2, 2, 2, 2,
                4, 2, 2, 4, 2, 2, 4, 4, 2, 2, 2, 2, 2, 2, 2, 2, 2, 2, 2, 2,
                2, 2, 2, 2, 2, 2, 2, 4, 4, 2, 2, 2, 2, 2, 2, 2, 2, 2, 2, 2,
                2, 2, 2, 2, 4, 4, 2, 2, 4, 2, 2, 2, 2, 4, 4, 2, 2, 2, 2, 2,
                2, 2, 2, 2, 2, 2, 2, 2, 2, 2, 2, 2, 2, 2, 2, 4, 2, 2, 2, 2,
                2, 2, 2, 2, 4, 2, 2, 4, 4, 2, 2, 2, 2, 2, 4, 2, 2, 2, 2, 2,
                2, 2, 2, 2, 2, 2, 2, 2, 2, 2, 2, 2, 2, 2, 2, 2, 2, 2, 2, 2,
                2, 2, 2, 2, 2, 2, 2, 2, 2, 2, 2, 2, 2, 2, 2, 6, 10, 4, 8, 2,
                6, 6, 4, 4, 2, 2, 2, 2, 2, 2, 4, 4, 2, 2, 2, 2, 4, 4, 2, 2,
                2, 2, 4, 2, 2, 2, 2, 8, 10, 6, 8, 4, 6, 2, 4, 4, 2, 2, 4, 4,
                2, 2, 4, 2, 2, 2, 2, 2, 2, 2, 2, 4, 2, 2, 2, 2, 4, 2, 2, 2,
                2, 4, 2, 2, 4, 2, 2, 2, 2, 4, 2, 2, 2, 2, 2, 2, 2, 2, 2, 2,
                2, 2, 2, 2, 2, 2, 2, 2, 4, 4, 2, 2, 2, 2, 2, 2, 4, 2, 2, 2,
                2, 2, 2, 2, 6, 4, 4, 2, 2, 4, 2, 2, 2, 2, 2, 4, 4, 2, 2, 2,
                2, 2, 2, 2, 2, 2, 2, 2, 2, 2, 2, 2, 2, 2, 2, 2, 6, 4, 4, 2,
                2, 2, 2, 2, 2, 2, 2, 2, 2, 2, 4, 2, 2, 2, 2, 4, 6, 2, 4, 8,
                2, 6, 4, 4, 2, 2, 2, 2, 4, 2, 2, 6, 4, 4, 2, 2, 2, 2, 2, 2,
                2, 2, 2, 2, 2, 2, 2, 2, 2, 2, 2, 6, 6, 4, 4, 2, 2, 2, 4, 4,
                2, 2, 2, 2, 2, 4, 2, 2, 4, 4, 2, 2, 6, 2, 4, 2, 2, 2, 2, 2,
                2, 2, 2, 2, 2, 2, 2, 4, 2, 2, 2, 2, 6, 6, 4, 4, 2, 2, 2, 4,
                4, 2, 2, 2, 2, 2, 2, 4, 4, 2, 2, 2, 2, 2, 2, 2, 4, 2, 2, 2,
                2, 2, 2, 4, 4, 2, 2, 2, 2, 2, 2, 2, 2, 2, 2, 4, 4, 2, 2, 2,
                2, 2, 2, 2, 2, 2, 4, 2, 2, 2, 2, 2, 2, 2, 2, 4, 4, 2, 2, 6,
                2, 4, 2, 2, 2, 2, 2, 2, 2, 2, 2, 2, 4, 2, 2, 4, 4, 2, 2, 4,
                4, 2, 2, 2, 2, 2, 2, 2, 2, 2, 2, 2, 2, 2, 2, 4, 4, 2, 2, 2,
                2, 2, 2, 2, 4, 2, 2, 2, 2, 2, 2, 2, 2, 2, 2, 2, 4, 4, 2, 2,
                2, 2, 2, 4, 2, 2, 6, 4, 4, 2, 2, 2, 2, 2, 4, 4, 2, 2, 2, 2,
                2, 6, 4, 4, 2, 2, 2, 2, 2, 2, 2, 4, 2, 2, 2, 2, 2, 2, 2, 2,
                4, 4, 2, 2, 2, 4, 2, 2, 2, 2, 2, 2, 2, 2, 2, 2, 2, 2, 2, 2,
                2, 2, 2, 2, 4, 2, 2, 2, 2, 2, 2, 2, 2, 2, 2, 2, 4, 4, 2, 2,
                2, 2, 2, 2, 2, 2, 2, 2, 2, 2, 2, 2, 6, 6, 4, 4, 2, 2, 2, 2,
                2, 4, 2, 2, 2, 2, 2, 2, 2, 2, 2, 4, 2, 2, 2, 2, 4, 4, 2, 2,
                2, 2, 2, 2, 4, 2, 2, 2, 2, 2, 2, 2, 2, 2, 2, 2, 2, 2, 2, 2,
                2, 4, 2, 2, 2, 2, 2, 2, 2, 4, 2, 2, 2, 2, 2, 2, 2, 2, 2, 2,
                2, 2, 6, 6, 4, 4, 2, 2, 2, 2, 2, 2, 2, 2, 2, 6, 6, 4, 4, 2,
                2, 2, 2, 2, 2, 2, 2, 2, 2, 2, 2, 2, 4, 4, 2, 2, 2, 2, 2, 2,
                2, 2, 2, 2, 2, 4, 2, 2, 2, 4, 2, 2, 2, 6, 4, 4, 2, 2, 4, 2,
                2, 4, 4, 2, 2, 2, 8, 6, 6, 4, 4, 2, 2, 2, 2, 2, 2, 2, 2, 2,
                2, 2, 2, 4, 2, 2, 4, 2, 2, 2, 2, 2, 2, 2, 2, 2, 2, 2, 2, 2,
                2, 2, 2, 2, 2, 2, 2, 2, 2, 2, 4, 2, 2, 6, 2, 4, 2, 2, 2, 2,
                8, 4, 6, 2, 4, 2, 2, 2, 2, 2, 2, 2, 2, 4, 4, 2, 2, 2, 4, 6,
                2, 4, 2, 2, 4, 2, 2, 2, 2, 2, 2, 2, 2, 2, 4, 4, 2, 2, 2, 2,
                2, 2, 4, 2, 2, 2, 2, 2, 2, 2, 2, 2, 2, 2, 2, 2, 2, 2, 4, 6,
                2, 4, 6, 2, 4, 2, 2, 2, 2, 2, 2, 2, 2, 2, 2, 2, 2, 6, 4, 4,
                2, 2, 2, 2, 2, 2, 2, 2, 2, 2, 2, 2, 2, 2, 2, 2, 2, 2, 2, 2,
                4, 4, 2, 2, 2, 4, 2, 2, 2, 2, 2, 4, 4, 2, 2, 4, 2, 2, 2, 2,
                2, 2, 2, 4, 4, 2, 2, 12, 12, 10, 10, 8, 8, 6, 6, 4, 4, 2, 2,
                4, 2, 2, 2, 2, 2, 4, 2, 2, 4, 2, 2, 2, 2, 2, 2, 2, 2, 2, 2,
                2, 2, 2, 2, 4, 2, 2, 2, 2, 2, 2, 2, 4, 2, 2, 2, 4, 2, 2, 2,
                2, 2, 2, 2, 2, 4, 4, 2, 2, 4, 4, 2, 2, 2, 2, 2, 2, 2, 2, 2,
                2, 2, 4, 4, 2, 2, 2, 2, 2, 2, 2, 2, 2, 2, 2, 2, 2, 2, 2, 2,
                2, 2, 2, 2, 2, 2, 2, 2, 2, 6, 4, 4, 2, 2, 2, 2, 2, 4, 2, 2,
                2, 4, 4, 2, 2, 2, 2, 2, 2, 2, 2, 2, 4, 4, 2, 2, 4, 4, 2, 2,
                2, 2, 2, 2, 2, 2, 2, 2, 2, 2, 2, 2, 2, 2, 2, 2, 2, 2, 2, 2,
                2, 2, 2, 2, 2, 2, 2, 6, 6, 4, 4, 2, 2, 2, 6, 6, 4, 4, 2, 2,
                4, 4, 2, 2, 2, 4, 2, 2, 2, 2, 2, 2, 2, 2, 2, 2, 2, 2, 2, 2,
                2, 2, 2, 2, 2, 2, 2, 2, 4, 2, 2, 6, 4, 4, 2, 2, 2, 2, 4, 2,
                2, 2, 2, 2, 2, 2, 2, 2, 2, 2, 2, 2, 4, 2, 2, 2, 4, 2, 2, 2,
                2, 2, 2, 2, 2, 2, 2, 2, 4, 4, 2, 2, 2, 2, 2, 2, 2, 2, 4, 2,
                2, 2, 2, 2, 2, 2, 2, 2, 2, 2, 2, 2, 2, 2, 2, 2, 2, 2, 2, 2,
                2, 2, 2, 2, 4, 4, 2, 2, 2, 2, 2, 4, 2, 2, 2, 2, 2, 4, 2, 2,
                2, 2, 6, 4, 4, 2, 2, 2, 2, 2, 2, 4, 4, 2, 2, 2, 2, 6, 4, 4,
                2, 2, 2, 2, 2, 2, 4, 4, 2, 2, 2, 2, 2, 2, 6, 4, 4, 2, 2, 2,
                2, 2, 2, 4, 2, 2, 2, 2, 2, 2, 4, 2, 2, 4, 2, 2, 2, 4, 2, 2,
                2, 2, 2, 2, 4, 4, 2, 2, 2, 6, 2, 4, 6, 2, 4, 2, 2, 2, 2, 2,
                2, 2, 2, 2, 2, 2, 4, 4, 2, 2, 2, 2, 4, 4, 2, 2, 2, 2, 2, 2,
                2, 2, 2, 2, 2, 2, 4, 4, 2, 2, 2, 2, 2, 2, 2, 2, 2, 2, 2, 2,
                2, 2, 2, 2, 2, 2, 2, 2, 2, 2, 4, 2, 2, 2, 2, 2, 2, 2, 4, 4,
                2, 2, 2, 2, 2, 6, 6, 4, 4, 2, 2, 2, 2, 2, 2, 2, 4, 4, 2, 2,
                2, 2, 4, 4, 2, 2, 2, 6, 6, 4, 4, 2, 2, 2, 2, 2, 2, 2, 2, 2,
                2, 2, 2, 2, 2, 2, 2, 2, 2, 2, 2, 2, 2, 2, 2, 6, 2, 4, 4, 2,
                2, 2, 2, 2, 2, 2, 2, 2, 2, 2, 2, 4, 2, 2, 4, 4, 2, 2, 2, 10,
                4, 8, 2, 6, 8, 4, 6, 2, 4, 4, 2, 2, 2, 2, 2, 2, 2, 2, 2, 2,
                2, 2, 2, 2, 2, 4, 2, 2, 2, 2, 2, 4, 2, 2, 2, 2, 2, 4, 2, 2,
                2, 2, 4, 2, 2, 2, 2, 2, 4, 2, 2, 2, 2, 2, 2, 2, 2, 2, 2, 2,
                2, 2, 2, 2, 2, 2, 8, 4, 6, 2, 4, 2, 2, 4, 4, 2, 2, 2, 2, 2,
                2, 2, 6, 6, 4, 4, 2, 2, 6, 4, 4, 2, 2, 2, 2, 2, 4, 2, 2, 2,
                2, 2, 2, 2, 2, 2, 2, 2, 2, 4, 4, 2, 2, 2, 4, 2, 2, 2, 2, 2,
                2, 2, 2, 2, 2, 2, 2, 4, 2, 2, 4, 4, 2, 2, 2, 2, 2, 2, 2, 2,
                2, 2, 2, 2, 2, 2, 4, 2, 2, 2, 2, 2, 2, 2, 4, 2, 2, 2, 2, 2,
                2, 2, 2, 2, 4, 4, 2, 2, 2, 2, 2, 2, 2, 2, 2, 2, 2, 2, 2, 2,
                6, 4, 4, 2, 2, 2, 2, 2, 2, 2, 2, 2, 2, 4, 4, 2, 2, 4, 2, 2,
                2, 2, 2, 2, 4, 6, 2, 4, 4, 2, 2, 4, 2, 2, 2, 2, 2, 2, 6, 12,
                4, 10, 2, 8, 6, 6, 4, 4, 2, 2, 2, 2, 2, 2, 4, 2, 2, 2, 2, 2,
                2, 2, 2, 2, 2, 2, 2, 2, 4, 2, 2, 2, 2, 2, 2, 2, 2, 2, 2, 2,
                2, 2, 2, 6, 4, 4, 2, 2, 2, 2, 2, 2, 8, 6, 6, 4, 4, 2, 2, 4,
                2, 2, 2, 2, 2, 2, 2, 4, 4, 2, 2, 2, 2, 2, 2, 2, 2, 2, 2, 2,
                2, 2, 2, 2, 4, 6, 2, 4, 2, 2, 4, 4, 2, 2, 2, 2, 2, 2, 2, 4,
                4, 2, 2, 6, 4, 4, 2, 2, 2, 2, 2, 2, 2, 4, 4, 2, 2, 6, 2, 4,
                2, 2, 2, 2, 2, 2, 4, 2, 2, 2, 2, 2, 2, 2, 2, 4, 2, 2, 2, 2,
                4, 2, 2, 2, 2, 2, 2, 2, 2, 2, 4, 2, 2, 2, 2, 2, 2, 2, 2, 2,
                2, 2, 2, 2, 2, 4, 4, 2, 2, 2, 8, 4, 6, 2, 4, 2, 2, 4, 2, 2,
                2, 2, 2, 2, 2, 2, 2, 2, 2, 2, 4, 2, 2, 2, 2, 4, 2, 2, 2, 2,
                2, 2, 4, 2, 2, 2, 2, 2, 2, 2, 2, 4, 2, 2, 2, 2, 2, 2, 2, 2,
                2, 2, 2, 2, 2, 2, 2, 4, 4, 2, 2, 2, 2, 2, 2, 2, 2, 2, 2, 2,
                2, 4, 2, 2, 2, 2, 2, 4, 4, 2, 2, 2, 4, 6, 2, 4, 2, 2, 2, 2,
                2, 2, 4, 2, 2, 4, 4, 2, 2, 2, 2, 4, 4, 2, 2, 2, 2, 2, 2, 4,
                2, 2, 2, 4, 2, 2, 2, 2, 2, 2, 2, 2, 2, 2, 2, 2, 2, 2, 2, 4,
                4, 2, 2, 4, 2, 2, 2, 2, 2, 2, 2, 2, 2, 2, 2, 2, 2, 2, 2, 2,
                2, 2, 4, 2, 2, 2, 2, 2, 2, 2, 2, 2, 2, 2, 2, 2, 2, 2, 2, 2,
                2, 2, 2, 4, 4, 2, 2, 6, 4, 4, 2, 2, 2, 2, 2, 2, 2, 2, 2, 2,
                4, 2, 2, 2, 2, 2, 2, 4, 4, 2, 2, 2, 2, 2, 2, 2, 2, 2, 2, 2,
                2, 2, 2, 2, 2, 2, 2, 2, 2, 2, 2, 2, 2, 2, 2, 2, 2, 6, 6, 4,
                4, 2, 2, 2, 2, 2, 4, 4, 2, 2, 2, 2, 2, 2, 2, 2, 4, 4, 2, 2,
                2, 4, 2, 2, 4, 4, 2, 2, 2, 2, 4, 2, 2, 2, 4, 4, 2, 2, 2, 2,
                2, 6, 2, 4, 2, 2, 2, 2, 2, 4, 4, 2, 2, 2, 2, 2, 2, 2, 2, 2,
                8, 6, 6, 4, 4, 2, 2, 2, 2, 2, 2, 2, 4, 2, 2, 2, 2, 2, 2, 2,
                2, 2, 2, 2, 2, 4, 2, 2, 2, 2, 2, 2, 2, 2, 2, 2, 4, 2, 2, 4,
                2, 2, 2, 2, 2, 2, 2, 2, 2, 2, 2, 2, 2, 2, 2, 4, 2, 2, 2, 2,
                2, 2, 2, 2, 4, 2, 2, 2, 2, 2, 2, 2, 2, 2, 2, 2, 2, 2, 2, 2,
                2, 2, 2, 2, 4, 4, 2, 2, 2, 2, 2, 2, 6, 2, 4, 4, 2, 2, 2, 2,
                2, 2, 2, 2, 2, 2, 2, 2, 4, 6, 2, 4, 4, 2, 2, 2, 2, 2, 6, 4,
                4, 2, 2, 2, 2, 2, 2, 2, 6, 6, 4, 4, 2, 2, 2, 4, 4, 2, 2, 2,
                2, 2, 2, 2, 2, 2, 2, 2, 2, 2, 2, 4, 4, 2, 2, 2, 2, 2, 2, 2,
                2, 2, 4, 4, 2, 2, 2, 2, 2, 2, 2, 2, 4, 2, 2, 2, 2, 2, 2, 2,
                2, 4, 2, 2, 2, 2, 4, 4, 2, 2, 2, 2, 2, 2, 2, 2, 2, 2, 2, 2,
                2, 4, 4, 2, 2, 4, 4, 2, 2, 2, 2, 2, 2, 2, 2, 2, 4, 4, 2, 2,
                2, 2, 2, 2, 2, 2, 2, 2, 2, 6, 6, 4, 4, 2, 2, 2, 2, 4, 2, 2,
                4, 2, 2, 2, 2, 2, 4, 4, 2, 2, 2, 2, 2, 2, 2, 2, 2, 2, 2, 2,
                2, 4, 4, 2, 2, 2, 2, 2, 2, 4, 2, 2, 2, 2, 2, 2, 2, 2, 2, 2,
                2, 2, 4, 2, 2, 2, 2, 2, 2, 2, 2, 4, 2, 2, 6, 4, 4, 2, 2, 2,
                2, 2, 2, 2, 2, 2, 2, 4, 2, 2, 2, 4, 4, 2, 2, 4, 2, 2, 2, 2,
                2, 2, 2, 2, 2, 2, 4, 4, 2, 2, 2, 2, 4, 4, 2, 2, 4, 4, 2, 2,
                2, 2, 2, 2, 2, 2, 2, 2, 2, 4, 4, 2, 2, 2, 4, 2, 2, 2, 2, 2,
                2, 2, 2, 2, 4, 2, 2, 2, 2, 4, 4, 2, 2, 2, 2, 2, 2, 4, 2, 2,
                2, 2, 2, 2, 2, 2, 2, 2, 2, 2, 2, 2, 6, 2, 4, 4, 2, 2, 2, 2,
                2, 2, 2, 2, 4, 4, 2, 2, 2, 2, 2, 2, 2, 2, 2, 6, 4, 4, 2, 2,
                2, 2, 2, 2, 2, 2, 2, 2, 4, 2, 2, 2, 2, 2, 2, 2, 2, 2, 2, 2,
                2, 2, 2, 2, 2, 2, 2, 2, 2, 2, 2, 2, 2, 8, 2, 6, 6, 4, 4, 2,
                2, 4, 4, 2, 2, 4, 2, 2, 2, 2, 2, 2, 4, 2, 2, 2, 2, 2, 2, 2,
                2, 2, 2, 2, 2, 2, 2, 2, 6, 4, 4, 2, 2, 2, 2, 2, 2, 2, 2, 4,
                4, 2, 2, 4, 4, 2, 2, 2, 2, 2, 2, 2, 2, 2, 2, 2, 2, 2, 8, 8,
                6, 6, 4, 4, 2, 2, 2, 2, 4, 4, 2, 2, 2, 6, 4, 4, 2, 2, 2, 2,
                2, 4, 2, 2, 2, 2, 2, 2, 2, 2, 2, 2, 6, 6, 4, 4, 2, 2, 4, 4,
                2, 2, 2, 2, 2, 2, 2, 2, 2, 2, 2, 2, 2, 2, 4, 2, 2, 2, 2, 2,
                6, 6, 4, 4, 2, 2, 2, 2, 2, 2, 2, 2, 6, 6, 4, 4, 2, 2, 2, 4,
                2, 2, 2, 2, 2, 2, 2, 2, 2, 2, 2, 2, 2, 2, 2, 2, 6, 2, 4, 2,
                2, 2, 2, 2, 2, 2, 2, 2, 2, 2, 2, 2, 2, 2, 2, 4, 2, 2, 2, 2,
                2, 2, 2, 2, 4, 4, 2, 2, 2, 4, 2, 2, 2, 2, 2, 2, 2, 2, 2, 4,
                4, 2, 2, 2, 4, 2, 2, 2, 2, 2, 2, 2, 2, 4, 2, 2, 2, 2, 2, 2,
                2, 4, 2, 2, 2, 2, 2, 2, 2, 4, 4, 2, 2, 2, 2, 4, 2, 2 >>])
    @@ (195 :> [u |-> << 887, 98, 352, 576, 615, 237, 388, 972, 36, 160, 268, 658,
                396, 735, 123, 352, 368, 220, 615, 558, 285, 745, 692, 443,
                99, 638, 875, 658, 250, 590, 308, 418, 853, 388, 15, 777,
                548, 983, 876, 222, 219, 618, 624, 935, 49, 986, 685, 979,
                238, 39, 288, 46, 777, 320, 810, 648, 305, 973, 313, 733,
                988, 596, 739, 436, 907, 157, 944, 410, 540, 904, 8, 450,
                767, 114, 730, 496, 821, 485, 475, 802, 503, 24, 629, 173,
                112, 519, 651, 131 >>,
            z |-> << 9697, -2717, 9697, 18844, -13648, -5877, 3349, -4973, 8584,
                -4973, 8584, -10748, 14947, -5836, -3352, -12813, -12548,
                5400, 10513, -17386, 9863, 8454, -5437, -9128, 2661, 8876,
                3527, -12236, 5433, -16767, -7316, 11044, -3298, -1569,
                3330, 2641, 3330, -6917, -3076, -6917, 5485, 14997, 6021,
                10001, -6975, 10001, -6975, 10001, -6975, 10001, -6975,
                10001, -6975, 10001, 5289, -13417, 11217, 15072, 11217,
                15072, 263, 15072, -4314, 8654, -1239, 10565, -1239, 10565,
                9072, 15364, -213, 15364, -4136, 3342, -254, 13284, -594,
                -29255, 14104, 168, -4519, 650, -11029, 21602, 496, 21602,
                -8797, -1047 >>,
            zc |-> << -18600, -7399, -18600, 12552, 6006, -13776, -794, -7297,
                -12530, -7297, -12530, 16517, -6567, 3640, -8558, -14390,
                -5892, -13093, 20737, 4753, -8587, 10819, 18332, -1300,
                -7709, 3269, 8338, 7792, -14975, 7923, -17251, -2535, 10428,
                -362, 337, 14937, 337, -6855, 4168, -6855, -12992, 14216,
                1724, -5776, 10814, -5776, 10814, -5776, 10814, -5776,
                10814, -5776, 10814, -5776, 11024, 10248, -8938, 6082,
                -8938, 6082, 1330, 6082, 16186, -1355, 6133, -23184, 6133,
                -23184, 919, -2841, -2123, -2841, 2862, -5589, 17583, -138,
                13257, -16911, -1164, 14198, 34, -2384, 4368, 2713, -10076,
                2713, 3618, -10900 >>,
            k |-> << 4, 2, 2, 2, 2, 2, 2, 4, 4, 2, 2, 2, 2, 2, 2, 2, 2, 2, 2, 2,
                2, 2, 2, 2, 2, 2, 2, 2, 2, 2, 2, 2, 2, 2, 4, 2, 2, 4, 2, 2,
                2, 2, 2, 12, 10, 10, 8, 8, 6, 6, 4, 4, 2, 2, 2, 2, 4, 6, 2,
                4, 2, 2, 2, 2, 4, 4, 2, 2, 2, 4, 2, 2, 2, 2, 2, 2, 2, 2, 2,
                2, 2, 2, 2, 4, 2, 2, 2, 2 >>])
    @@ (211 :> [u |-> << 781, 692, 969, 32, 980, 298, 964, 782, 720, 488, 833, 321,
                233, 785, 212, 616, 281, 959, 508, 357, 770, 303, 404, 657,
                930, 583, 723, 345, 587, 285, 894, 872, 169, 159, 865, 260,
                987, 660, 280, 831, 202, 311, 287, 276, 770, 627, 100, 546,
                743, 579, 573, 581, 920, 282, 998, 288, 642, 850, 23, 751,
                449, 181, 255, 995, 520, 355, 870, 486, 330, 51, 973, 13,
                417, 663, 123, 872, 993, 897, 825, 90, 132, 671, 808, 338,
                661, 488, 149, 999, 828, 739, 689, 357, 54, 618, 189, 764,
                15, 883, 98, 730, 867, 33, 148, 700, 151, 493, 494, 756,
                580, 33, 133, 267, 892, 632, 823, 804, 531, 223, 0, 265,
                788, 442, 571, 46, 306, 417, 720, 49, 871, 425, 768, 394,
                567, 938, 552, 23, 861, 423, 103, 481, 323, 493, 60, 757,
                403, 707, 639, 67, 327, 561, 427, 758, 22, 50, 30, 585, 691,
                765, 712, 85, 707, 632, 798, 531, 787, 447, 927, 783, 722,
                315, 924, 182, 279, 176, 832, 589, 490, 724 >>,
            z |-> << 6992, 7103, -966, 7103, -966, 7103, -966, 7103, -966, 12723,
                -4991, -11092, 7288, -6519, 5188, -14803, -22334, 110,
                -22334, 12394, -7445, -7959, 17097, 5530, 1386, 16089,
                -8872, 10037, -16235, 5765, -3284, -909, -3284, 168, -4005,
                -12599, 7990, -12599, 7990, -4532, -6329, -11232, -10072,
                9180, 6103, -8000, 1086, 16455, 5066, 16842, 18282, 7717,
                -2149, 9162, 9777, 9162, 9777, -3221, -13085, -3221, -13085,
                -5706, -21937, 76, -21937, 8906, -399, -20707, -3798, -385,
                17876, -385, 17876, -8142, 3872, 10337, 3872, 10337, 3872,
                10337, 3872, 10337, -5581, 12541, -1467, -11908, 5345, 8726,
                5345, 8726, -10401, -4937, 1474, -11923, 5850, 6371, 2763,
                6371, 2763, 6371, 4550, -8089, 4550, -8089, -230, -24680,
                16325, 4691, -4577, 5208, -4013, 5208, 2784, 11054, 4716,
                1444, -15233, 8444, -2845, 8444, -2845, 20328, -5786, -937,
                -7289, 16235, -2061, 14749, -2061, 14749, -5415, 12703,
                6867, 840, -4123, -9068, -2279, -9068, -442, -20236, -708,
                -7199, 16049, -5393, 16049, 9283, -5876, -1976, 6708,
                -19674, 15166, 17009, 769, 17009, 769, 17009, 10566, 7752,
                -4767, 2481, 9067, 11927, 1490, 14713, -2654, 7689, -9435,
                7050, -9435, 5110, -8174, -5770, -8174, 3910, 3188, -2850,
                17867, -3011 >>,
            zc |-> << 10202, 9116, 18076, 9116, 18076, 9116, 18076, 9116, 18076,
                -449, 9332, -7431, -6795, 6476, -12828, 7857, 1363, 5788,
                1363, -6534, 10271, -16381, -10330, 2028, 7109, 6032, 12834,
                -17681, 6654, -3131, -3186, 1024, -3186, -157, 6115, 9228,
                -5283, 9228, -5283, 5046, -9980, -9978, -9591, -7569, 12962,
                2554, -9276, 3160, 15563, 18135, 16491, 1497, 4165, -13582,
                3989, -13582, 3989, 16017, -2079, 16017, -2079, -7419, 3160,
                1798, 3160, -3484, 10932, -1653, -1434, -2260, -9047, -2260,
                -9047, 3536, -8314, 5735, -8314, 5735, -8314, 5735, -8314,
                5735, 10674, -12499, 21174, -381, 7351, 11027, 7351, 11027,
                13802, -1581, -5517, 4567, -6879, 4001, -4805, 4001, -4805,
                4001, -7989, 4645, -7989, 4645, -11994, -31987, -328, 15037,
                785, -3091, -6323, -3091, 8220, 4538, 5021, 13957, 1736,
                -6865, 14284, -6865, 14284, -16232, 919, -2189, -17096,
                -6077, 10316, -4084, 10316, -4084, 13824, -19845, 1055,
                7028, 454, -1748, 10769, -1748, -9590, -2092, -20378, -101,
                -7417, 14485, -7417, 13801, 1899, -4947, -18873, 16633,
                -4256, 7644, -4204, 7644, -4204, 7644, 7604, 9692, 2447,
                -4948, 14172, 5309, 14219, 1600, 14411, -953, 11381, 8980,
                11381, -2226, -5559, -8330, -5559, -3809, 11789, 25997,
                -784, 17474 >>,
            k |-> << 2, 8, 8, 6, 6, 4, 4, 2, 2, 2, 2, 2, 2, 2, 2, 2, 4, 2, 2, 2,
                2, 2, 2, 2, 2, 2, 2, 2, 2, 2, 4, 2, 2, 2, 2, 4, 4, 2, 2, 2,
                2, 2, 2, 2, 2, 2, 2, 2, 2, 2, 2, 2, 2, 4, 4, 2, 2, 4, 4, 2,
                2, 2, 4, 2, 2, 2, 2, 2, 2, 4, 4, 2, 2, 2, 8, 8, 6, 6, 4, 4,
                2, 2, 2, 2, 2, 2, 4, 4, 2, 2, 2, 2, 2, 2, 2, 6, 4, 4, 2, 2,
                4, 4, 2, 2, 2, 2, 2, 2, 2, 4, 2, 2, 2, 2, 2, 2, 2, 4, 4, 2,
                2, 2, 2, 2, 2, 2, 4, 4, 2, 2, 2, 2, 2, 2, 2, 4, 2, 2, 2, 2,
                2, 2, 4, 2, 2, 2, 2, 2, 2, 2, 2, 6, 4, 4, 2, 2, 2, 2, 2, 2,
                2, 2, 2, 2, 2, 2, 4, 2, 2, 2, 4, 2, 2, 2, 2, 2, 2, 2 >>])
    @@ (213 :> [u |-> << 218, 919, 944, 600, 762, 721, 371, 140, 335, 11, 322, 88,
                217, 919, 841, 347, 76, 387, 146, 90, 61, 255, 694, 615,
                430, 664, 43, 999, 967, 242, 882, 694, 302, 901, 632, 205,
                102, 824, 638, 87, 335, 390, 63, 378, 839, 173, 825, 150,
                973, 687, 860, 340, 15, 884, 358, 908, 549, 930, 711, 836,
                795, 254, 465, 279, 64, 854, 878, 334, 608, 294, 251, 321,
                34, 790, 554, 816, 29, 675, 900, 431, 533, 633, 293, 208,
                194, 140, 117, 236, 181, 284, 718, 830 >>,
            z |-> << 1348, 14162, 1348, 14162, 7906, -8205, -9769, -4030, -6102,
                -601, -6102, -601, -4406, -6103, -4406, -6103, -1863,
                -10431, 9118, 8536, 9118, 8536, 9118, -11761, 18715, -3255,
                3533, 4683, 3533, 4683, 3533, -10929, 5962, 2566, -12068,
                -1650, -7069, 4646, -7069, -2554, -10696, -6298, -1686,
                10767, -3387, 4009, -3128, 8056, -3937, 8056, -3937, -3071,
                7181, -3071, 7181, 1049, 7540, 1808, 8116, 4395, -6553,
                -2340, -17765, -2819, -3515, 10527, -3515, 10527, -15512,
                -10215, -8159, -1105, 13124, 2674, 13124, 6721, -1543, 6721,
                -1543, 12142, 22023, -14167, -9475, -5953, -3660, -6736,
                -3062, -6736, -5752, 9951, 8055, -6174 >>,
            zc |-> << 5938, 5446, 5938, 5446, 9357, 14136, -3496, -8799, -2635,
                -876, -2635, -876, 9857, -2197, 9857, -2197, -7029, -3315,
                15325, -10753, 15325, -10753, 15325, 19668, -7843, 1175,
                6942, -3155, 6942, -3155, 6942, 10756, -2939, 7774, 5438,
                -1220, 2379, 10857, 2379, -6416, -16055, -1578, -6041,
                -3866, 3516, -4025, 2912, 4188, 8886, 4188, 8886, 8353,
                -2485, 8353, -2485, 8741, 860, 3672, 5116, 4994, 7898,
                -16594, -2794, -1425, 8025, -16135, 8025, -16135, 8165,
                -8421, -11374, -424, 2256, 14269, 2256, 2950, 8997, 2950,
                8997, -24563, 5606, 9150, -6710, -5674, -3111, -5573, -4454,
                -5573, -8496, -9819, 5322, 6009 >>,
            k |-> << 4, 4, 2, 2, 2, 2, 2, 2, 4, 4, 2, 2, 4, 4, 2, 2, 2, 2, 6, 4,
                4, 2, 2, 2, 2, 2, 6, 4, 4, 2, 2, 2, 2, 2, 2, 2, 4, 2, 2, 2,
                2, 2, 2, 2, 2, 2, 2, 4, 4, 2, 2, 4, 4, 2, 2, 2, 2, 2, 2, 2,
                2, 2, 2, 2, 4, 4, 2, 2, 2, 2, 2, 2, 4, 2, 2, 4, 4, 2, 2, 2,
                2, 2, 2, 2, 2, 4, 2, 2, 2, 2, 2, 4 >>])
    @@ (216 :> [u |-> << 35, 779, 685, 211, 241, 944, 414, 745, 134, 423, 446, 870,
                510, 341, 296, 800, 670, 103, 480, 749, 701, 568, 705, 612,
                965, 452, 978, 677, 999, 598, 198, 96, 224, 611, 627, 260,
                715, 122, 227, 807, 291, 309, 653, 679, 108, 1, 360, 828,
                247, 666, 824, 611, 281, 298, 402, 253, 553, 856, 860, 495,
                760, 889, 958, 30, 627, 80, 706, 518, 89, 456, 652, 364,
                928, 968 >>,
            z |-> << -10315, 6983, -10315, -6732, 15292, -1189, 15292, -5916,
                -2209, -14790, 10640, 322, -21383, -12855, 9374, 5994,
                -7073, -479, 16580, 8366, 5980, 17331, 8325, 4029, -519,
                3928, 5428, -12855, 5428, -12855, 5428, -1735, 5428, 15656,
                -13808, 8889, -6496, -3126, 6634, -6122, -10214, 10643,
                13140, -7040, 10702, -5290, 10702, -5290, 7815, 10001, 3996,
                -15036, -9776, -7774, -14817, 3504, 11300, 16131, -135,
                16131, 4216, 879, -6932, 879, -6932, 2290, 1676, -8827,
                -927, 20575, -12557, 6212, -3319, 8785 >>,
            zc |-> << 6630, 10519, 6630, -7526, -5310, 6202, -5310, 3969, -10565,
                -21299, -1524, 10923, 1479, -9994, -6344, 10580, 3041,
                -9616, -1312, 10381, 17502, 5788, 15290, 970, 5111, -388,
                -13380, 4188, -13380, 4188, -13380, -2544, -13380, 13692,
                7372, -9855, 3710, -4329, -5884, 9042, -11182, -13146,
                11287, 3222, -4538, 6883, -4538, 6883, -11832, 5144, 11624,
                7663, -10586, -16145, -5836, -16155, 1696, -263, 11428,
                -263, 2822, -3222, 2115, -3222, 2115, -4644, 18676, 398,
                -8681, -5906, 14149, -1966, 14558, -1379 >>,
            k |-> << 4, 2, 2, 2, 4, 2, 2, 2, 2, 2, 2, 2, 2, 2, 2, 2, 2, 2, 2, 2,
                2, 2, 2, 2, 2, 2, 8, 4, 6, 2, 4, 2, 2, 2, 2, 2, 2, 2, 2, 2,
                2, 2, 2, 2, 4, 4, 2, 2, 2, 2, 2, 2, 2, 2, 2, 2, 2, 4, 2, 2,
                2, 4, 4, 2, 2, 2, 2, 2, 2, 2, 2, 2, 4, 4 >>])
    @@ (220 :> [u |-> << 360, 373, 641, 230, 332, 684, 299, 930, 579, 417, 794, 406,
                669, 958, 651, 820, 871, 134, 478, 149, 437, 532, 201, 617,
                245, 923, 325, 357, 221, 350, 261, 599, 389, 452, 279, 328,
                986, 702, 869, 791, 56, 531, 576, 883, 235, 312, 781, 309,
                804, 505, 894, 102, 938, 304, 217, 234, 795, 864, 951, 938,
                86, 252, 948, 793, 321, 924, 396, 839, 242, 260, 754, 700,
                638, 471, 225, 574, 402, 640, 821, 826, 460, 805, 45, 763,
                780, 870, 580, 979, 512, 102, 669, 690, 467, 52, 709, 894,
                490, 206, 413, 685, 584, 237, 160, 254, 119, 862, 892, 496,
                406, 847, 907, 946, 54, 139, 813, 936, 80, 637, 430, 348,
                675, 859, 658, 748, 36, 530, 981, 633, 563, 817, 435, 924,
                251, 477, 102, 727, 903, 723, 342, 411, 772, 889, 113, 656,
                641, 919, 691, 726, 486, 209, 718, 704, 813, 671, 411, 56,
                555, 795, 492, 595, 398, 617, 307, 54, 252, 295, 434, 543,
                151, 56, 110, 634 >>,
            z |-> << -13244, 14679, -12500, -7129, 12357, -11472, 4145, 1328,
                -17477, 13502, -4207, 17029, 2842, 1183, 10615, 2115,
                -11852, -652, -11852, -2047, 12874, -14211, 4900, -13788,
                1776, -2242, -11264, -12201, -6416, -12826, 6244, -16399,
                -9376, -17437, -9363, 7269, 3058, 7269, 3058, 24863, 479,
                24863, 9720, -3008, -7595, 10424, -6981, 9748, 268, 9738,
                -1660, -10084, -1660, -10084, -6895, 7143, 3917, -6356,
                -1987, -6356, -1987, -6356, 5322, -6356, 5322, -1750, 11178,
                -4822, -8096, 8737, 8167, 9647, -4526, -15317, 3904, -18890,
                17019, 10906, 4189, -1563, 13823, 7461, 4348, 7461, 4348,
                2251, 3317, 108, -9546, 2986, 12265, -3320, -6580, 932,
                5927, -229, -14566, -3966, 17105, 7805, -14713, -6212,
                -4943, -5254, -81, -25882, -81, -25882, 11066, 2813, 2200,
                2813, 2200, 2813, 2200, -9778, 2200, -9778, -19069, 13303,
                8471, 3957, 12265, 3801, 361, 3801, 174, 9451, 12941, -2617,
                7699, -1272, -1528, -9523, 2938, 4794, 2735, -8939, -9899,
                14184, 3678, 12438, 3203, 12438, 6616, 2368, 11022, -1029,
                -14692, 6774, 9792, 9018, 5568, -8943, -6221, 826, 14017,
                -351, 25622, -16429, 16396, -15227, -3214, -5599, -8485,
                -5599, 15068, -11788, 2865, -12872, 2865, -12872 >>,
            zc |-> << -14659, -13152, 6546, -11460, -11224, 10553, -1932, 7195,
                16880, -3766, 13208, -9407, 1054, 3578, 5023, 1824, -724,
                -11124, -724, -11458, -24846, 1548, -12396, 6377, -1068,
                5435, -13845, -6235, -11921, -8056, -14999, 14679, -21923,
                -3750, -12034, 3988, 3870, 3988, 3870, 10134, -6831, 10134,
                1935, 4356, -10739, -6948, 10305, -6087, 14064, 143, 3728,
                -6953, 3728, -6953, -7349, -6420, 3172, 10471, -3316, 10471,
                -3316, 10471, -2237, 10471, -2237, 7155, -3411, 6373, -8707,
                -8221, 10367, 13966, 22031, -1583, -14491, 14351, -11851,
                4743, 4130, 12846, -1800, 7016, 3292, 7016, 3292, 10296,
                560, 4097, 302, -7012, 10908, 19211, -484, -1986, 3154,
                9736, -460, -13421, -7995, 17260, 4714, -4804, -6815, -3391,
                9844, -897, 9844, -897, -2974, -3238, -6708, -3238, -6708,
                -3238, -6708, 19371, -6708, 19371, -8767, -11419, 4144,
                8986, 7816, 244, -5429, 244, 627, 19931, 2590, 12929, -1163,
                2175, -16609, -547, -5134, 2701, 4935, 12687, -17560, -4629,
                2572, 13769, -7890, 13769, 2236, 5178, 9316, 17730, -665,
                -9018, 10460, 5887, 10177, 17351, -1240, -6655, 2610, 14487,
                -1920, 15531, -14109, 9318, -1388, -17536, -10278, -17536,
                -22689, 1464, -8283, 6571, -8283, 6571 >>,
            k |-> << 2, 2, 2, 2, 2, 2, 2, 2, 2, 2, 2, 2, 2, 2, 2, 2, 4, 2, 2, 2,
                2, 2, 2, 2, 2, 2, 2, 2, 2, 2, 2, 2, 2, 2, 2, 4, 4, 2, 2, 4,
                2, 2, 2, 2, 2, 2, 2, 2, 2, 2, 4, 4, 2, 2, 2, 2, 2, 8, 4, 6,
                2, 4, 4, 2, 2, 2, 2, 2, 2, 2, 2, 2, 2, 2, 2, 2, 2, 2, 2, 2,
                2, 4, 4, 2, 2, 2, 2, 2, 2, 2, 2, 2, 2, 2, 2, 2, 2, 2, 2, 2,
                2, 2, 2, 2, 4, 4, 2, 2, 2, 6, 8, 4, 6, 2, 4, 4, 2, 2, 2, 2,
                2, 2, 2, 4, 2, 2, 2, 2, 2, 2, 2, 2, 2, 2, 2, 2, 2, 2, 2, 2,
                2, 4, 2, 2, 2, 2, 2, 2, 2, 2, 2, 2, 2, 2, 2, 2, 2, 2, 2, 2,
                2, 2, 2, 4, 2, 2, 2, 2, 4, 4, 2, 2 >>])
    @@ (230 :> [u |-> << 630, 882, 258, 314, 935, 745, 6, 19, 686, 955, 501, 635,
                874, 846, 735, 658, 554, 421, 383, 5, 857, 686, 944, 580,
                75, 260, 477, 420, 514, 470, 143, 208, 0, 55, 711, 26, 694,
                683, 709, 517, 727, 97, 896, 525, 498, 476, 339, 271, 665,
                379, 913, 766, 607, 917, 622, 545, 558, 104, 703, 56, 133,
                177, 279, 587, 692, 703, 410, 159, 59, 423, 288, 101, 422,
                121, 829, 73 >>,
            z |-> << 8730, -3387, -8586, 4263, 2295, 20, 2295, 20, 2295, 20,
                22862, 8975, 8374, 4740, 8374, 6803, -21178, -18647, 4298,
                3507, 4298, 3507, 1130, -7500, -1566, -1579, -25881, 4734,
                -29796, -11533, -3636, 1066, 10839, 1066, 10839, 11520,
                10839, 11520, 1552, 17642, -4880, -1574, 627, -1574, -34858,
                -20999, -12505, 8890, -11128, 7443, 1400, 5545, 7458, 2094,
                8083, 21793, -9364, 3131, -2867, -5620, -2048, -5620, 6366,
                16900, 11060, -7245, -11455, -16815, -1140, -16815, -5652,
                -1735, -9941, 6595, -9043, 6595 >>,
            zc |-> << 2991, 5362, -11153, -1818, 939, 6093, 939, 6093, 939, 6093,
                252, 3243, 12498, 6955, 12498, 19800, 14574, -12587, 8220,
                1474, 8220, 1474, 6271, 1414, -2782, -17056, -7237, -26620,
                14399, -942, -4454, -2236, 11520, -2236, 11520, 10096,
                11520, 10096, 18569, 1353, 2766, 34365, 9587, 34365, -1742,
                -3112, -8789, -12264, 15288, -2169, 2167, 13803, 1915, 7159,
                21738, 17059, 1374, -6082, 1317, -8216, -2331, -8216,
                -16063, 7668, 10478, 16508, -2998, -6034, -6603, -6034,
                -3006, -8968, -2023, -11036, 4392, -11036 >>,
            k |-> << 2, 2, 2, 2, 6, 6, 4, 4, 2, 2, 2, 2, 4, 2, 2, 2, 2, 2, 4, 4,
                2, 2, 2, 2, 2, 2, 2, 2, 2, 2, 2, 4, 6, 2, 4, 4, 2, 2, 2, 2,
                2, 4, 2, 2, 2, 2, 2, 2, 2, 2, 2, 2, 2, 2, 2, 2, 2, 2, 2, 4,
                2, 2, 2, 2, 2, 2, 2, 4, 2, 2, 2, 2, 2, 6, 6, 4 >>])
    @@ (237 :> [u |-> << 987, 238, 13, 818, 160, 979, 582, 527, 424, 618, 184, 281,
                785, 582, 161, 219, 887, 414, 899, 462, 132, 610, 326, 260,
                622, 164, 698, 846, 355, 327, 169, 831, 601, 581, 497, 960,
                216, 207, 378, 84, 319, 660, 339, 725, 491, 154, 143, 761,
                819, 212, 904, 555, 551, 989, 592, 194, 320, 319, 555, 506,
                774, 303, 909, 996, 452, 69, 101, 111, 592, 356, 555, 266 >>,
            z |-> << 8297, -3891, 8297, -3891, 8297, 557, 8297, -25456, 18993,
                -11755, -5848, 9122, 4001, -11690, -4594, 3413, -2075, 8771,
                -869, -10928, 2961, -15875, -11740, 7176, -10876, 5068,
                8220, -4116, -13694, -9613, 3654, 3552, 14528, -850, 5750,
                -5165, -6495, -5165, -7291, -2503, 11303, -12583, 12546,
                -665, -12174, -1324, 4162, 6756, -5210, 1469, 1219, 18804,
                2488, 228, -12834, -5946, -11659, 5843, 3270, 15491, -7307,
                5597, -7523, -91, -7523, 2197, -17419, 2197, -17419, 7845,
                -16648, -7148 >>,
            zc |-> << 25151, 3655, 25151, 3655, 25151, 3247, 25151, 9133, -12132,
                4407, -8459, -6963, 13836, 2858, -5543, -2468, 9383, -1880,
                9326, -1106, -9825, 10149, -8500, -14010, 3972, -8575, 4706,
                9870, -11468, -5027, -3639, 11565, 18042, 26875, -32,
                -12475, -6287, -12475, -2128, -5748, -12770, 12588, -8899,
                17815, -297, -1283, -5657, 5538, 5800, -1043, 8924, 20027,
                264, 1213, 3873, -10126, -11592, -18849, 29378, 352, 10190,
                -2690, -830, 955, -830, -9220, 11234, -9220, 11234, -20239,
                3960, -4886 >>,
            k |-> << 8, 4, 6, 2, 4, 2, 2, 2, 2, 2, 2, 2, 2, 2, 2, 2, 2, 2, 2, 2,
                2, 2, 2, 2, 2, 2, 2, 2, 2, 2, 2, 2, 2, 2, 2, 4, 2, 2, 2, 2,
                2, 2, 2, 2, 2, 2, 2, 2, 2, 2, 2, 2, 2, 2, 2, 2, 2, 2, 2, 2,
                2, 2, 4, 2, 2, 4, 4, 2, 2, 2, 2, 2 >>])
    @@ (245 :> [u |-> << 906, 112, 100, 76, 942, 849, 951, 181, 901, 385, 462, 108,
                337, 739, 586, 930, 781, 984, 40, 560, 420, 552, 995, 635,
                712, 83, 882, 498, 358, 990, 323, 255, 47, 370, 260, 236,
                93, 831, 249, 188, 331, 883, 990, 226, 1, 133, 323, 264,
                960, 218, 472, 210, 675, 304, 659, 424, 343, 358, 444, 314,
                309, 606, 649, 416, 957, 791, 777, 46, 433, 113, 304, 347,
                715, 247, 979, 0, 747, 39, 575, 173, 250, 841, 520, 271,
                688, 972, 424, 406 >>,
            z |-> << -2328, -7489, -2328, -7489, -2328, -7489, -2328, -7489,
                -2328, -7489, -9733, -3105, 12239, 5593, 7063, -20241, 715,
                -20241, 715, -20241, 14311, 1022, -4610, 13968, -4610,
                -22451, -42, -22451, -11552, -13709, -11552, -13709, -1352,
                -13709, -8611, -2932, -7392, -5198, -7392, -5591, 7711,
                -3941, -11659, -3941, -11659, -3941, -11659, -1493, -14648,
                -1493, -14648, 6466, -11954, 10464, -8685, -18553, -12460,
                -8004, -18670, -11408, 8915, 16277, -10125, 5289, -9728,
                6409, -9728, -847, -9728, -3426, -10296, 13052, -9733, 861,
                -12322, 861, -12322, 861, -12322, -5383, 6615, 735, -17597,
                9219, -18611, -667, -18611, 11739 >>,
            zc |-> << 8185, -22675, 8185, -22675, 8185, -22675, 8185, -22675,
                8185, -22675, -936, -7490, -8302, 15443, 1423, 15388, -5468,
                15388, -5468, 15388, -21429, 109, 2356, 8876, 2356, -248,
                10340, -248, -8319, -7411, -8319, -7411, -4721, -7411,
                -7820, -1902, -5935, 6888, -5935, -10332, -3390, -8189,
                -8736, -8189, -8736, -8189, -8736, -15032, -1413, -15032,
                -1413, -10687, 10720, -12811, 18478, -8896, -13789, -20306,
                -5620, -11094, -15876, 11638, 18049, -969, -1664, 6737,
                -1664, -5818, -1664, -6768, -13214, -9223, 8317, -5214,
                2866, -5214, 2866, -5214, 2866, -7044, -4834, 12307, 1571,
                -11173, -15020, 4190, -15020, -22010 >>,
            k |-> << 10, 10, 8, 8, 6, 6, 4, 4, 2, 2, 2, 2, 2, 2, 2, 6, 4, 4, 2,
                2, 2, 2, 4, 2, 2, 4, 2, 2, 4, 6, 2, 4, 2, 2, 2, 2, 4, 2, 2,
                2, 2, 6, 6, 4, 4, 2, 2, 4, 4, 2, 2, 2, 2, 2, 2, 2, 2, 2, 2,
                2, 2, 2, 2, 2, 6, 2, 4, 2, 2, 2, 2, 2, 2, 6, 6, 4, 4, 2, 2,
                2, 2, 2, 2, 2, 4, 2, 2, 2 >>])
    @@ (257 :> [u |-> << 929, 806, 631, 742, 759, 140, 324, 249, 508, 486, 115, 261,
                52, 882, 931, 510, 502, 880, 860, 697, 965, 712, 499, 469,
                452, 586, 177, 598, 639, 156, 224, 863, 308, 809, 511, 274,
                532, 145, 92, 36, 661, 468, 581, 484, 472, 596, 212, 511,
                681, 978, 608, 980, 34, 595, 204, 266, 153, 661, 600, 705,
                175, 333, 100, 34, 977, 206, 905, 783, 710, 9, 827, 492,
                916, 802, 123, 55, 903, 227, 143, 221, 483, 794, 743, 384,
                447, 385, 119, 64, 841, 982, 415, 991, 649, 147, 69, 407,
                225, 726, 687, 336, 820, 237, 68, 708, 991, 725, 349, 644,
                261, 511, 889, 742, 696, 62, 443, 914, 435, 167, 607, 820,
                225, 273, 467, 101, 289, 807, 345, 514, 230, 556, 387, 391,
                105, 927, 955, 291, 823, 289, 465, 928, 679, 790, 777, 857,
                641, 946, 334, 614, 986, 370, 773, 918, 401, 530, 572, 799,
                980, 77, 11, 382, 92, 506, 697, 626, 919, 834, 339, 967,
                147, 590, 308, 110, 166, 772, 601, 77, 151, 572, 65, 104 >>,
            z |-> << 13566, 5011, 13566, 8559, -5643, -4147, -11470, 569, -31270,
                -10249, -3345, 7316, 190, 7316, 190, 7316, 10466, -41, 4253,
                -41, -33508, -41, -33508, -24960, 22313, -12255, 3653,
                16954, -10140, -4463, 4841, -4140, 9592, 533, -17800, 2543,
                -11625, 901, -4049, 901, -4049, 24604, -4897, -29089, 24366,
                -13403, 595, 20064, 2363, 613, 2363, -13147, 909, -13147,
                -6612, -7046, 4384, 10372, 15917, -8699, -5137, -7026, 1219,
                7040, 1219, 7040, 1219, 7040, -310, 8560, -310, 8560, -1840,
                -2911, -1840, -5230, -1840, -5230, -3912, -930, 14512, 6616,
                -6751, -9670, -21379, -9172, 977, -488, 977, -488, 977,
                -13979, -9517, -13979, -1509, -13979, 7411, 9279, -10987,
                10223, -5495, -8683, 1778, -8683, 12982, -8683, 12982,
                -13059, 837, 9967, 3088, 8645, -3736, -905, 8359, -1288,
                -12247, 3682, 11861, -5359, -7425, -2508, -9446, -3025,
                8964, -5489, 2037, -15685, 3162, -21007, -14973, -8614,
                -5546, 8602, -5546, 8602, -5546, -3002, 7768, 2106, 10516,
                6474, 4985, 3760, 4920, -1551, 10841, 12836, 250, 12836,
                250, -1777, 7394, 25106, 13538, -7805, 146, -7805, 146,
                -7805, 146, 19267, 9392, 6986, 1974, -4738, 1974, -16761,
                2790, -16761, -6757, 5114, 4897, 5114, -7300, -6997, 2385,
                -6997, 5342, -6059 >>,
            zc |-> << 7359, 11692, 7359, 8006, 4067, -8485, -8036, -16597, 20007,
                -358, -5390, 38472, 7695, 38472, 7695, 38472, 56, 18494,
                7758, 18494, -529, 18494, -529, -15810, -12231, 3299,
                -12000, 11948, 4117, -5561, -3673, 7857, -5933, 13836, 941,
                -17540, 1074, -2581, 20676, -2581, 20676, -9525, 26329,
                -16206, -6864, 4525, -14867, 1269, 533, 2701, 533, 4249,
                -4435, 4249, -8369, -4747, -9408, 16728, 7757, 5510, -10023,
                -2921, 1744, 9455, 1744, 9455, 1744, 9455, 12978, -161,
                12978, -161, 2719, 2339, 2719, -4006, 2719, -4006, -5004,
                -15251, -837, 8011, 14221, -21346, -9801, -2746, -167, 2802,
                -167, 2802, -167, -4730, 4045, -4730, -6983, -4730, -8980,
                11228, 12598, -5213, 6704, 13034, -3682, 13034, -13457,
                13034, -13457, 7939, -17184, 297, 4963, 10658, 1681, -7038,
                -1134, 8268, -2378, -11384, 3981, 6259, -8980, -17484, -772,
                -5733, -6125, 10925, -21539, 850, -15125, 10517, -15521,
                -2367, 8525, -5538, 8525, -5538, 8525, -18210, -630, 5026,
                6501, 6773, 3866, 9537, 1555, 4183, -15723, -6069, 163,
                -6069, 163, 7552, -24018, 10549, 3265, -2257, -9056, -2257,
                -9056, -2257, -9056, 640, 14656, 2109, -677, 9868, -677,
                7884, -10907, 7884, -3332, 13794, -5978, 13794, 1749, 1171,
                -11420, 1171, -6498, 4751 >>,
            k |-> << 4, 2, 2, 2, 2, 2, 2, 2, 2, 2, 2, 6, 4, 4, 2, 2, 2, 6, 2, 4,
                4, 2, 2, 2, 2, 2, 2, 2, 2, 2, 2, 2, 2, 2, 2, 2, 2, 4, 4, 2,
                2, 2, 2, 2, 2, 2, 2, 2, 4, 2, 2, 4, 2, 2, 2, 2, 2, 2, 2, 2,
                2, 2, 6, 6, 4, 4, 2, 2, 4, 4, 2, 2, 6, 2, 4, 4, 2, 2, 2, 2,
                2, 2, 2, 2, 2, 2, 6, 4, 4, 2, 2, 6, 2, 4, 2, 2, 2, 2, 2, 2,
                2, 6, 2, 4, 4, 2, 2, 2, 2, 2, 2, 2, 2, 2, 2, 2, 2, 2, 2, 2,
                2, 2, 2, 2, 2, 2, 2, 2, 2, 2, 2, 2, 6, 4, 4, 2, 2, 2, 2, 2,
                2, 2, 2, 2, 2, 2, 2, 4, 4, 2, 2, 2, 2, 2, 2, 6, 6, 4, 4, 2,
                2, 2, 2, 2, 4, 2, 2, 4, 2, 2, 2, 4, 2, 2, 2, 4, 2, 2, 4, 4 >>])
    @@ (259 :> [u |-> << 690, 100, 266, 875, 708, 863, 810, 605, 877, 281, 718, 292,
                475, 856, 348, 252, 616, 275, 492, 659, 732, 116, 218, 178,
                958, 459, 949, 369, 1, 887, 832, 891, 786, 48, 917, 889,
                302, 673, 321, 280, 250, 408, 283, 231, 795, 356, 919, 968,
                290, 767, 7, 828, 875, 564, 705, 363, 186, 162, 844, 683,
                351, 74, 923, 100, 741, 746, 414, 751, 418, 590, 464, 223,
                812, 643, 306, 981, 302, 519, 780, 586, 492, 216, 321, 477,
                333, 623, 42, 779, 462, 543, 748, 351, 312, 707, 309, 778,
                38, 736, 524, 54, 649, 423, 746, 206, 186, 105, 6, 141, 930,
                816, 100, 895, 590, 960, 942, 224, 366, 524, 898, 543, 725,
                774, 343, 931, 171, 861, 398, 71, 250, 959, 13, 679, 510,
                692, 37, 746, 889, 340, 239, 803, 514, 147, 386, 908, 542,
                241, 939, 116, 668, 873, 210, 336, 817, 561, 813, 616, 351,
                993, 403, 422, 868, 125, 627, 180, 144, 174, 945, 982, 955,
                629, 741, 955, 184, 546, 795, 627, 444, 511, 760, 500, 147,
                965, 915, 240, 359, 976, 475, 509, 485, 950, 705, 322, 4,
                907, 224, 650, 308, 461, 677, 98 >>,
            z |-> << -6330, -2818, 5944, 3787, 7297, 2746, 4154, 9506, -3698,
                9818, -9808, -2204, 11546, -3936, -12593, 6615, -14638,
                -608, 21341, 12487, -5669, -2645, -5947, 6372, -504, 6372,
                -1432, 2056, 10608, 2056, 10608, 2056, 10608, -3320, 10608,
                -3320, 10608, -11968, -11717, -9613, -5446, -16019, -9471,
                7005, -5654, 6583, 9795, 639, 9795, 639, 1770, 639, 1770,
                17491, -9276, -11291, -4164, 2688, 4674, -10898, -6059,
                2702, 8696, 2702, 8696, -5249, 15083, -4949, 17632, -9297,
                -15153, 6352, 5097, -13716, 1909, 15128, 1909, 15128, 4305,
                -2137, -15071, -6755, -2508, -20703, 11188, -4452, 22396,
                -2002, 22396, 16303, -7591, -13476, 11319, -10225, 10381,
                1779, -6738, 1779, -6738, 1585, -9533, 15536, -7922, -5715,
                4907, 2051, 4907, 2051, 4907, 2051, 4907, 2051, 4907, -6123,
                4098, -6123, 4098, 9474, 1030, 17318, 9046, -6716, 5519,
                -2906, 2288, -2906, -6940, -920, 19492, 1189, 19492, 1189,
                19492, 4830, -3155, 4830, -3155, -11958, 7181, 698, -11782,
                -3341, 7834, 928, -15855, 3392, 8142, 3392, 8142, -2931,
                -6295, 10295, 2506, 13117, 4402, -15541, -14723, 10418,
                -14723, 10418, -11364, 3135, -11364, -3170, -2552, 13686,
                1266, 13686, 1266, 13686, 1939, 14152, 1939, 14152, 5238,
                -9091, 5943, 16128, 10, -11818, -1515, -6913, -1515, -6913,
                1596, -225, 12623, -30375, 6441, 822, -10215, -1437, 6539,
                -1437, 6539, -13351, -3801, 19683, -6625, 9081 >>,
            zc |-> << 3017, -4810, -3703, 6819, 4189, 3209, 12294, 2645, 6397,
                -9818, 10325, -18556, -797, 9295, -7681, -14034, 7609,
                -17871, -1022, 8581, 3434, -3595, -5215, -572, 5723, -572,
                4926, 2807, -12039, 2807, -12039, 2807, -12039, 6565,
                -12039, 6565, -12039, 11649, -9540, -8435, -14937, -6728,
                -7634, -6373, 11669, -2248, -7649, 560, -7649, 560, 10278,
                560, 10278, 5492, 14003, -4905, -3871, -2635, 8775, 13457,
                -2116, -4472, 8503, -4472, 8503, 15236, -5108, 15186,
                -15883, 23816, -1943, -5617, 11099, 10193, -19117, 1064,
                -19117, 1064, 13936, 26362, -374, -10718, -20067, -2774,
                -15060, 1203, -19085, 15015, -19085, 2870, 12706, -10667,
                -10202, 11183, -7095, 17148, 371, 17148, 371, -4712, 18556,
                -4860, 6649, -5347, 969, 8912, 969, 8912, 969, 8912, 969,
                8912, 969, -12599, -22448, -12599, -22448, 581, 9347, 3374,
                7436, 11794, -1997, 10320, -2082, 10320, -1647, -1579, 1069,
                20196, 1069, 20196, 1069, 3059, 7681, 3059, 7681, -7341,
                -6173, 14120, 500, -10427, -2168, 8819, 2636, -7704, 3682,
                -7704, 3682, 3779, -11109, -5316, 12958, 2567, 11876, 12196,
                -18473, -2182, -18473, -2182, 4556, -9169, 4556, -2844,
                -2785, 7324, 4468, 7324, 4468, 7324, -13274, 2205, -13274,
                2205, 12190, 20736, -28879, 710, 16156, 6, 2421, -12750,
                2421, -12750, -472, 4355, -31890, 20532, -206, 1802, 11826,
                2126, -11987, 2126, -11987, 10481, -19022, -4243, 2930, 520 >>,
            k |-> << 2, 2, 2, 2, 2, 2, 2, 2, 2, 2, 2, 2, 2, 2, 2, 2, 2, 2, 2, 2,
                2, 2, 2, 4, 2, 2, 2, 6, 10, 4, 8, 2, 6, 4, 4, 2, 2, 2, 2, 2,
                2, 2, 2, 2, 2, 2, 4, 6, 2, 4, 4, 2, 2, 2, 2, 2, 2, 2, 2, 2,
                2, 4, 4, 2, 2, 2, 2, 2, 2, 2, 2, 2, 2, 2, 4, 4, 2, 2, 2, 2,
                2, 2, 2, 2, 2, 2, 4, 2, 2, 2, 2, 2, 2, 2, 2, 4, 4, 2, 2, 2,
                2, 2, 2, 2, 10, 8, 8, 6, 6, 4, 4, 2, 2, 4, 4, 2, 2, 2, 2, 2,
                2, 2, 2, 4, 2, 2, 2, 2, 6, 4, 4, 2, 2, 4, 4, 2, 2, 2, 2, 2,
                2, 2, 2, 2, 2, 4, 4, 2, 2, 2, 2, 2, 2, 2, 2, 2, 4, 4, 2, 2,
                4, 2, 2, 2, 2, 6, 4, 4, 2, 2, 4, 4, 2, 2, 2, 2, 2, 2, 2, 2,
                4, 4, 2, 2, 2, 2, 2, 2, 2, 2, 2, 4, 4, 2, 2, 2, 2, 2, 2, 6 >>])
    @@ (265 :> [u |-> << 521, 693, 121, 20, 783, 562, 142, 662, 26, 794, 899, 106,
                472, 63, 565, 900, 90, 635, 428, 993, 699, 141, 506, 650,
                591, 42, 902, 716, 803, 892, 571, 294, 591, 491, 654, 779,
                381, 397, 461, 437, 666, 875, 522, 964, 323, 759, 579, 433,
                900, 594, 146, 186, 890, 504, 928, 857, 811, 294, 797, 377,
                981, 695, 760, 332, 729, 150, 609, 359, 480, 596, 833, 684,
                142, 326, 209, 176, 914, 370, 899, 73 >>,
            z |-> << 19296, -7172, 3172, -11132, 3172, -11132, 4058, 1348, -7312,
                1348, -7312, -679, -7312, 1054, 9009, -10093, 2424, -10093,
                913, 223, -7790, 223, 21896, 10638, -5151, 8818, 2835, 8818,
                1358, 1709, -17210, 7290, -2365, 21607, 11710, -5515,
                -14097, -8648, -23645, 19022, 8104, 647, 5408, -597, 11284,
                4579, -16011, 9007, 2027, -10782, -3126, 7841, 105, 7841,
                -5960, 3022, -5960, 9398, -5083, 1547, -7483, 10484, -7483,
                12149, -7041, 3323, -16041, -3068, 24974, 11610, 5055,
                -8290, -4187, -10725, -5565, 7934, -2232, 7934, -9711, 1469 >>,
            zc |-> << 2186, 3666, 14412, 1939, 14412, 1939, -8921, 995, -462, 995,
                -462, -9694, -462, -6991, 1479, 19262, -7305, 19262, -131,
                -11535, 4327, -11535, 1009, 17450, 1031, 6298, 5267, 6298,
                1049, 9326, 6027, -16312, 25896, -1170, 6492, 13017, -16315,
                -23105, -14402, -7184, 3590, 10641, 266, 1570, -7657, 14924,
                19324, -1486, 8589, 2880, -3523, 75, 9927, 75, 9051, 3472,
                9051, -6487, 12284, -395, 11651, 7857, 11651, -8837, 4628,
                -10637, 12481, -22239, -4997, 3375, 9132, 4277, -8621,
                -6410, -4999, -2575, 7141, -2575, 3830, 4723 >>,
            k |-> << 2, 2, 4, 4, 2, 2, 2, 4, 6, 2, 4, 2, 2, 2, 2, 4, 2, 2, 2, 4,
                2, 2, 2, 2, 2, 4, 2, 2, 2, 2, 2, 2, 2, 2, 2, 2, 2, 2, 2, 2,
                2, 2, 2, 2, 2, 2, 2, 2, 2, 2, 2, 4, 2, 2, 4, 2, 2, 2, 2, 2,
                4, 2, 2, 2, 2, 2, 2, 2, 2, 2, 2, 2, 2, 2, 2, 4, 2, 2, 6, 4 >>])
    @@ (273 :> [u |-> << 72, 64, 63, 4, 513, 917, 771, 694, 955, 455, 29, 503, 116,
                462, 463, 223, 743, 940, 807, 304, 945, 54, 995, 184, 375,
                691, 896, 977, 102, 692, 81, 656, 564, 512, 53, 213, 759,
                436, 637, 41, 612, 634, 127, 570, 250, 467, 357, 197, 152,
                907, 865, 920, 473, 933, 699, 346, 40, 699, 449, 455, 528,
                203, 356, 168, 930, 760, 864, 359, 74, 344, 337, 321, 955,
                788, 273, 710, 142, 889, 944, 418, 243, 315, 860, 366, 668,
                669, 131, 389 >>,
            z |-> << 8497, 52, 8497, 52, 8497, 758, 7406, 1854, -577, -4686, 40,
                -10322, -1007, -20928, -15136, 7297, -6024, 2992, -6024,
                2992, 14852, -4558, 14852, -4558, 14852, 6413, 3057, -5235,
                3057, -5235, 2360, 7914, 5458, -6708, -3773, 6806, -3773,
                19805, -3960, 1136, 15686, -9059, 1939, -15605, -2117,
                -21617, -11476, -4344, 7509, -519, 7509, -519, 7509, 1819,
                -10121, -3392, -18815, -4613, -18815, 16109, -14314, -5617,
                -10481, 5413, -3585, 5413, -3585, -6309, -2170, -12909,
                -12627, 2795, 9449, -6871, 9449, -7442, -1153, -15001,
                -1153, -15001, -7918, 8165, -3564, 14393, 12164, -8323,
                -2945, 14965 >>,
            zc |-> << 272, -1939, 272, -1939, 272, 1166, 10338, 791, 5945, -440,
                -4888, 104, -10179, -21452, -2023, -8286, 9468, -1315, 9468,
                -1315, -9614, -11586, -9614, -11586, -9614, 3105, -6332,
                2405, -6332, 2405, -6293, 19232, 27959, 189, 15354, -7504,
                15354, -9173, 1190, -4624, 13137, 3269, -10322, 4380,
                -16435, -4862, -5432, -3778, -458, 8254, -458, 8254, -458,
                3952, 13107, -1138, -21182, 18288, -21182, -25274, 1372,
                -11622, -4541, 3867, 9276, 3867, 9276, -2089, -5927, -12367,
                -11480, -1097, -10174, 8764, -10174, 4369, 6281, -4770,
                6281, -4770, -10986, -4187, 9614, -11397, 12144, 3819,
                -9804, -7436 >>,
            k |-> << 6, 4, 4, 2, 2, 2, 2, 2, 2, 2, 2, 2, 2, 2, 2, 2, 4, 4, 2, 2,
                6, 4, 4, 2, 2, 2, 4, 4, 2, 2, 2, 2, 2, 2, 4, 2, 2, 2, 2, 2,
                2, 2, 2, 2, 2, 2, 2, 2, 6, 4, 4, 2, 2, 2, 2, 2, 4, 2, 2, 2,
                2, 2, 2, 4, 4, 2, 2, 2, 2, 2, 2, 2, 4, 2, 2, 2, 4, 4, 2, 2,
                2, 2, 2, 2, 2, 2, 2, 2 >>])
    @@ (275 :> [u |-> << 437, 755, 988, 929, 102, 232, 116, 827, 881, 943, 396, 679,
                825, 315, 965, 502, 43, 242, 830, 367, 332, 651, 152, 266,
                270, 992, 570, 547, 67, 3, 866, 808, 561, 446, 396, 783,
                575, 410, 139, 965, 721, 513, 681, 629, 568, 25, 422, 875,
                345, 978, 646, 878, 742, 709, 994, 144, 671, 843, 978, 383,
                169, 613, 3, 591, 569, 77, 925, 202, 929, 755, 404, 513,
                786, 658, 741, 727, 508, 866, 771, 181, 541, 505, 653, 247,
                750, 777, 455, 411, 246, 0, 319, 549, 320, 997, 813, 16,
                874, 267, 526, 859, 20, 62, 29, 826, 262, 932, 414, 139,
                792, 389, 534, 92, 258, 115, 858, 788, 918, 533, 60, 444,
                117, 676, 88, 364, 140, 611, 802, 334, 154, 349, 669, 457,
                170, 216, 653, 731, 946, 69, 911, 486, 12, 794, 544, 906,
                199, 41, 693, 676, 433, 716, 447, 275, 265, 936, 565, 674,
                24, 278, 677, 553, 788, 979, 662, 38, 803, 526, 578, 5, 76,
                952, 455, 276, 476, 384, 673, 337, 455, 100, 781, 686, 936,
                310, 492, 446, 25, 256, 24, 705, 554, 941 >>,
            z |-> << 15546, -4264, -2340, -4264, -2340, -4264, 16270, -1397,
                16270, -1397, 16270, 9557, -5319, -6053, 32, -6053, -4344,
                6645, -4344, -14436, 11957, -9640, -4703, -9109, 14899, 218,
                14899, -7416, 2669, 2676, 2669, 2676, -17610, -21436, 13330,
                3759, -18389, -10593, 1069, 20078, 1069, 20078, 10468,
                10395, -4030, -636, 10101, -3482, 8532, 3542, 8532, 3542,
                8735, 4234, 9203, 4234, 9203, -11255, -582, -11255, 3889,
                14688, -7802, 14688, -7802, -5444, 286, -5444, 286, -5444,
                3686, 14872, 6275, 12398, 8764, 640, 11156, 3625, -6425,
                1715, 3944, 21707, -12393, 8230, 8005, -2416, -22718,
                -14879, 5270, -19177, 5270, -19177, -3748, 1959, -3748,
                1959, -3748, 1959, 11433, -5426, 2003, -5426, 2003, -5426,
                2003, -1377, -10654, 3446, -4840, 7316, -8929, -2370, -5256,
                -7048, 3617, -7048, 679, -7048, -863, -10034, 3463, -6094,
                -2366, -9604, 3150, 12427, -5835, -9315, -4244, 13307,
                -4986, -12673, -4872, 6294, 12799, -3139, -286, -3139, -286,
                -3139, 8896, 2155, 8896, 544, 10834, 544, 10834, -6922,
                17030, -4227, -17129, -9485, 1781, 1057, 18590, 9432, 5781,
                9432, 5781, 14348, -2754, 25423, -2754, 25423, 1220, 25423,
                -17407, -599, -17407, -599, -17407, -1863, -23577, 15581,
                -11764, -5527, -9266, 1705, 6913, 4197, -1777, -759, -29552,
                -4228, 6759, 4781, 6759, 4781, 6759, -4801 >>,
            zc |-> << -3807, -2970, -3478, -2970, -3478, -2970, -9391, 5985,
                -9391, 5985, -9391, 5268, 9395, 37, 5373, 37, 10800, -5169,
                10800, -11448, -13200, 4215, -6988, -9271, 22113, 1532,
                22113, 810, 3170, 13345, 3170, 13345, 20344, -11088, -4860,
                14085, 15532, -2639, 17980, 1462, 17980, 1462, 14631, 19556,
                584, -3878, -2094, 8445, 3314, 5529, 3314, 5529, 10110,
                -8767, 4600, -8767, 4600, -3971, 2391, -3971, -11337, 19339,
                1280, 19339, 1280, 14598, 481, 14598, 481, 14598, -25408,
                716, 11392, 8099, 9320, 17729, 250, 4892, 5473, -13194,
                31270, 738, 7550, -8283, 7240, 15002, -11469, -5182, -19133,
                5311, -19133, 5311, 6032, -17312, 6032, -17312, 6032,
                -17312, 838, 7473, -1099, 7473, -1099, 7473, -1099, 6944,
                -2537, -4250, 12841, -23076, 765, -4000, -3299, 545, 4503,
                545, 8351, 545, -6877, -1448, -7500, 2616, -7186, -3619,
                -10183, 4564, 10697, -4452, -9747, -11785, 19867, -1639,
                -5663, -11665, 8453, -86, 8824, -86, 8824, -86, 978, 14214,
                978, -1288, 11868, -1288, 11868, 18486, -5210, 17488, -3985,
                -9108, -956, 7008, 7009, -11735, 19044, -11735, 19044, 2683,
                967, 8529, 967, 8529, 14040, 8529, -3454, 6127, -3454, 6127,
                -3454, -17805, -4773, -10332, 12589, -20110, -1035, -2419,
                10426, 1797, 4085, -19661, -4042, -477, 839, 17878, 839,
                17878, 839, -478 >>,
            k |-> << 2, 6, 4, 4, 2, 2, 6, 4, 4, 2, 2, 2, 2, 4, 2, 2, 4, 2, 2, 2,
                2, 2, 2, 2, 4, 2, 2, 2, 4, 4, 2, 2, 2, 2, 2, 2, 2, 2, 4, 4,
                2, 2, 2, 2, 2, 2, 2, 2, 4, 4, 2, 2, 2, 4, 4, 2, 2, 4, 2, 2,
                2, 4, 4, 2, 2, 6, 4, 4, 2, 2, 2, 2, 2, 2, 2, 2, 2, 2, 2, 2,
                2, 2, 2, 2, 2, 2, 2, 2, 4, 4, 2, 2, 6, 6, 4, 4, 2, 2, 2, 6,
                6, 4, 4, 2, 2, 2, 2, 2, 2, 2, 2, 2, 2, 6, 2, 4, 2, 2, 2, 2,
                2, 2, 2, 2, 2, 2, 2, 2, 2, 2, 2, 2, 2, 2, 2, 6, 4, 4, 2, 2,
                4, 2, 2, 4, 4, 2, 2, 2, 2, 2, 2, 2, 2, 2, 2, 4, 4, 2, 2, 2,
                4, 6, 2, 4, 2, 2, 6, 4, 4, 2, 2, 2, 2, 2, 2, 2, 2, 2, 2, 2,
                2, 2, 2, 2, 6, 4, 4, 2, 2, 6 >>])
    @@ (283 :> [u |-> << 597, 326, 640, 171, 794, 932, 169, 672, 767, 593, 413, 550,
                643, 575, 839, 568, 863, 248, 48, 52, 935, 896, 448, 125,
                475, 487, 679, 902, 349, 4, 150, 28, 275, 814, 530, 858,
                331, 774, 905, 537, 155, 587, 12, 980, 484, 42, 132, 515,
                222, 626, 867, 713, 319, 893, 366, 416, 961, 477, 267, 578,
                399, 497, 420, 622, 252, 708, 208, 827, 340, 145, 303, 794,
                49, 633, 977, 171, 995, 460 >>,
            z |-> << -16742, 11319, -10664, 4744, 5002, 11307, 5002, 11307, 4997,
                -15825, 12752, 20577, 9891, 11738, 2399, 10791, -3999,
                -1212, -10490, -1212, -10490, -1212, -10490, -696, -15947,
                20175, 6513, -2731, 8287, 1301, 8287, 1301, 8287, 1301,
                11438, -4103, 11322, 2422, 835, -12020, 2870, -1869, -5952,
                -125, -5952, -15316, 481, -15316, 5846, 9511, 4066, -9863,
                6872, -2752, -11395, 5017, -281, -17353, 5394, -18421, -577,
                -27150, 18657, -13804, 8484, -9384, 5409, -4928, -9146,
                -4431, 9762, 1696, 1416, 1696, -123, 13843, -123, 13843 >>,
            zc |-> << 9407, -13936, 4577, -5292, -9604, 7287, -9604, 7287, 14218,
                17191, -21931, 7189, 18739, 2624, 11859, 2042, 5778, 9396,
                -1433, 9396, -1433, 9396, -1433, -10699, -30079, -1453,
                2904, 7320, -5906, 13496, -5906, 13496, -5906, 13496, 967,
                8752, -6930, 1641, 9039, 1305, -11305, 336, -199, 3920,
                -199, 884, -11055, 884, -12806, 3279, 6999, 11635, -3153,
                8129, -18245, -906, 5643, -1714, -15979, 14386, -25319,
                -787, -12044, 6819, -10089, 6703, -4822, 10137, -4101,
                -7993, -6517, 472, -4792, 472, 1549, -1789, 1549, -1789 >>,
            k |-> << 2, 2, 2, 2, 4, 4, 2, 2, 2, 2, 2, 2, 2, 2, 2, 2, 2, 6, 6, 4,
                4, 2, 2, 2, 2, 2, 2, 2, 6, 6, 4, 4, 2, 2, 2, 2, 2, 2, 2, 2,
                2, 2, 4, 2, 2, 4, 2, 2, 2, 2, 2, 2, 2, 2, 2, 2, 2, 2, 2, 2,
                2, 2, 2, 2, 2, 2, 2, 2, 2, 2, 2, 4, 2, 2, 4, 4, 2, 2 >>])
    @@ (285 :> [u |-> << 252, 56, 610, 563, 584, 179, 728, 312, 500, 256, 90, 265,
                579, 696, 204, 298, 910, 395, 243, 206, 317, 402, 359, 455,
                275, 584, 537, 140, 828, 469, 391, 953, 951, 806, 835, 95,
                530, 276, 144, 490, 674, 352, 811, 391, 635, 391, 283, 401,
                85, 30, 49, 305, 170, 34, 172, 265, 985, 504, 124, 759, 598,
                979, 937, 850, 650, 9, 637, 458, 550, 486, 338, 632, 834,
                945, 927, 71, 460, 340, 25, 701, 841, 587, 963, 290 >>,
            z |-> << 11651, 1449, 11651, 19929, -12411, 5681, -9177, 60, -16977,
                -3768, -2382, 5383, 17195, -9768, -6530, 5349, -1998,
                -14261, -7537, -6437, -8851, -16994, -6621, -17347, 6036,
                10543, -11313, 2144, -1186, -23492, 5113, 4560, -17696,
                4560, -17696, 681, -17696, -7092, -308, 20504, -11449,
                11019, -4222, 16073, -12878, -15239, -7160, -7751, -1067,
                -8921, -1067, -8921, -5419, -10700, -5419, -10700, 29,
                -10700, 3432, 5463, 2833, 4113, -6419, 4113, -6419, 22073,
                -6419, 22073, -7858, -21171, 11883, 10674, -20479, -703,
                -20479, -703, -20479, 8284, 2933, 8284, 2933, 4748, -10169,
                -10235 >>,
            zc |-> << 20283, -5822, 20283, 15026, 3258, -7951, 11206, -19807, 40,
                -2237, -4169, -15897, 6950, 6491, -9571, -2623, 7883, -5798,
                -6587, -10320, -16545, -11831, -21099, -3405, -16036, 23745,
                1180, -2345, 12822, -6573, -1226, 4179, 2386, 4179, 2386,
                -9140, 2386, -4459, -11687, -1104, 13534, -5199, 12169,
                -12884, 16083, -7609, -15666, -1849, -2475, -5270, -2475,
                -5270, -7556, 115, -7556, 115, 3449, 115, -4966, 14329, 585,
                9563, 21387, 9563, 21387, -18110, 21387, -18110, 29021,
                -1791, -14421, 4244, -5018, -7696, -5018, -7696, -5018,
                4894, 11452, 4894, 11452, 896, -12389, -10527 >>,
            k |-> << 4, 2, 2, 2, 2, 2, 2, 2, 2, 2, 2, 2, 2, 2, 2, 2, 2, 2, 2, 2,
                2, 2, 2, 2, 2, 2, 2, 2, 2, 2, 2, 4, 6, 2, 4, 2, 2, 2, 2, 2,
                2, 2, 2, 2, 2, 2, 2, 2, 4, 4, 2, 2, 4, 6, 2, 4, 2, 2, 2, 2,
                2, 4, 6, 2, 4, 4, 2, 2, 2, 2, 2, 2, 6, 4, 4, 2, 2, 4, 4, 2,
                2, 2, 4, 2 >>])
    @@ (286 :> [u |-> << 145, 233, 415, 304, 864, 399, 163, 13, 939, 9, 258, 56, 921,
                855, 369, 600, 654, 860, 16, 11, 434, 526, 833, 340, 469,
                679, 102, 852, 550, 733, 996, 533, 154, 129, 374, 260, 810,
                789, 799, 908, 43, 152, 698, 343, 581, 543, 127, 39, 720,
                404, 386, 218, 257, 384, 509, 994, 828, 592, 185, 339, 664,
                677, 867, 748, 590, 707, 888, 840, 76, 278, 236, 963, 147,
                99, 821, 887, 398, 121, 300, 42, 990, 664, 211, 925, 129,
                381, 499, 986, 214, 834, 11, 146, 685, 113, 396, 452, 197,
                555, 438, 642, 646, 254, 63, 554, 299, 551, 698, 292, 883,
                471, 809, 650, 436, 931, 458, 490, 872, 159, 778, 185, 151,
                399, 525, 207, 601, 182, 294, 502, 603, 536, 314, 572, 511,
                348, 506, 742, 548, 318, 866, 942, 976, 481, 636, 315, 692,
                959, 476, 212, 782, 582, 513, 265, 685, 785, 749, 113, 615,
                653, 795, 236, 250, 391, 82, 757, 759, 876, 828, 136, 53,
                342, 383, 965, 46, 281, 284, 690, 965, 207 >>,
            z |-> << -4144, -4632, -16928, 7666, -2803, -11392, 12871, -3633,
                12871, -3633, 12871, -3633, 12871, -3633, 12871, 16753,
                9037, -324, 10477, -324, 10477, 12651, -4755, -3929, 19823,
                -6721, 16813, 1650, 16813, -12035, 98, -12035, -13868,
                -3182, -13868, 7790, 5503, 6155, -10204, 4690, -10204, 4690,
                -10204, 9443, 12227, -10654, -6835, -16846, -6835, -16846,
                -13098, -7119, -6785, 1989, 2112, -12453, 3360, -12453,
                -5359, 12616, 12484, 8119, 3885, 5473, 16320, 6298, -1981,
                -9376, -1981, -9376, -9531, -2385, -9531, -2385, -9531,
                -2385, -9531, -3683, -976, -11124, -3047, -11124, -3047,
                -165, -3047, -165, 3314, 4402, 5447, 4402, -7087, 4402,
                -7087, -2453, -10090, -13840, 2532, -19856, 19858, 13585,
                -12857, -18055, 892, -18055, 4669, 18286, -10778, 6504,
                -765, 13721, 5343, -8185, 7345, -731, -6792, 10864, -6269,
                4528, -6269, -3739, -3137, 6236, -14517, 4517, -12140,
                -5742, 272, 25066, 8158, -19367, 6974, 4260, -21750, 920,
                16989, 3263, -19142, 8035, -171, 22512, -171, 22512, -14208,
                11448, 1259, -301, -14793, 6511, 4085, 4358, -17343, 8883,
                10410, 6919, -4834, 2652, 15628, 11326, -6444, -7772, -6209,
                -7425, 1420, 7936, 4918, 468, -2162, -11516, -1554, -11516,
                3882, -9801, 9832, -9801, 9832, 4943, 4475, 4943 >>,
            zc |-> << -5520, -14524, -7348, -4117, 10197, -3391, -16703, 9907,
                -16703, 9907, -16703, 9907, -16703, 9907, -16703, 10868,
                3876, -2424, -25969, -2424, -25969, 1000, 9912, -20824,
                -3330, 3034, 3634, 11538, 3634, 1159, 1463, 1159, -7285,
                -9367, -7285, -6005, 5913, 5952, 12977, -8190, 12977, -8190,
                12977, -18101, 22928, 1244, 15705, -14177, 15705, -14177,
                -5300, -8267, -14242, -24105, 41, 3673, 11891, 3673, -10498,
                -12302, 11571, 3929, 5741, 14990, 7148, 3358, -3794, -7877,
                -3794, -7877, -2567, 9078, -2567, 9078, -2567, 9078, -2567,
                -7002, -425, 6355, -9541, 6355, -9541, -24006, -9541,
                -24006, -6, -8393, -4648, -8393, 3405, -8393, 3405, -9132,
                -22125, -2165, -13710, 17970, -8626, 13206, 7654, 4939,
                -7087, 4939, -18172, 4762, 10283, -3524, 10222, -1271,
                10978, 19497, -1079, 7549, -30623, -270, 5554, -5544, 5554,
                -3367, -10873, -24283, 1281, -13076, 3869, -8884, -18873,
                714, 23220, 3811, -17896, 27409, 1607, -21807, 448, 16450,
                5087, -3971, 4315, -3115, 4315, -3115, 10487, -10994, 527,
                5788, -1230, -6610, 13950, 26356, 1012, -11263, 6749, 7910,
                3123, -8875, 11757, 5895, 7206, -8221, -14324, -1921, -2303,
                7877, 3391, 537, 1953, -15529, -4397, -15529, -975, -9930,
                -11132, -9930, -11132, -4224, 5498, -4224 >>,
            k |-> << 2, 2, 2, 2, 2, 2, 10, 8, 8, 6, 6, 4, 4, 2, 2, 2, 2, 4, 4, 2,
                2, 2, 2, 2, 2, 2, 4, 2, 2, 4, 2, 2, 4, 2, 2, 2, 2, 2, 6, 4,
                4, 2, 2, 2, 2, 2, 4, 4, 2, 2, 2, 2, 2, 2, 2, 4, 2, 2, 2, 2,
                2, 2, 2, 2, 2, 2, 4, 4, 2, 2, 8, 6, 6, 4, 4, 2, 2, 2, 2, 4,
                6, 2, 4, 4, 2, 2, 2, 6, 2, 4, 4, 2, 2, 2, 2, 2, 2, 2, 2, 2,
                2, 4, 2, 2, 2, 2, 2, 2, 2, 2, 2, 2, 2, 2, 2, 2, 4, 2, 2, 2,
                2, 2, 2, 2, 2, 2, 2, 2, 2, 2, 2, 2, 2, 2, 2, 2, 2, 2, 4, 4,
                2, 2, 2, 2, 2, 2, 2, 2, 2, 2, 2, 2, 2, 2, 2, 2, 2, 2, 2, 2,
                2, 2, 2, 2, 2, 2, 2, 4, 2, 2, 2, 4, 4, 2, 2, 4, 4, 2 >>])
    @@ (291 :> [u |-> << 98, 674, 650, 415, 758, 370, 648, 996, 979, 363, 147, 630,
                349, 631, 839, 177, 485, 339, 653, 260, 804, 517, 728, 35,
                797, 378, 237, 727, 517, 678, 819, 370, 457, 624, 195, 503,
                700, 19, 376, 112, 748, 340, 337, 191, 338, 263, 585, 484,
                996, 177, 762, 836, 941, 626, 146, 172, 959, 430, 871, 669,
                93, 930, 501, 833, 681, 358, 997, 839, 149, 431, 522, 274,
                964, 578, 139, 30, 647, 654, 452, 312 >>,
            z |-> << 2900, 11508, -10075, 14851, -6638, 14560, -318, -9861, -318,
                -9861, 3714, -14480, 12594, 10510, -3537, -595, -21216,
                12484, -12629, 7949, 808, 17616, -5029, -13427, -5029,
                -13427, 7907, 1327, 20165, 9755, -4589, -7064, 21892,
                -12001, 179, 19124, -8661, -443, -8661, 3119, -7859, -12651,
                -10645, -5578, -12351, 5662, -4548, 1637, 6274, 5416, 6274,
                -10073, 1606, -10073, -2624, 10405, -814, 10405, 3737,
                -6590, 12706, 31, 12706, 4998, -10868, -2245, -2233, -2245,
                -2233, 8792, -17713, -10780, 808, -10780, 13339, 754, 13339,
                -6198, -18917, -11318 >>,
            zc |-> << -6681, 13322, 17997, -4850, 13247, -12650, 1117, -3821,
                1117, -3821, -10013, 12568, -14420, 4075, 3722, -13217,
                -1923, -12992, 8113, -6261, 14057, 1348, 12310, -6217,
                12310, -6217, -9115, 17658, 1934, 5447, 11290, -21658,
                -7465, 4903, -14102, 368, -2772, -1716, -2772, -4869, 12222,
                -12456, -5594, -10678, -8414, -15580, 26035, -49, 4891,
                -6658, 4891, 3611, 5595, 3611, -2835, -1949, 5373, -1949,
                8201, 2744, 66, 7764, 66, 9214, 13865, 2179, -11402, 2179,
                -11402, -26388, 1797, 2357, 4767, 2357, 12746, -2400, 12746,
                20346, -4748, -10578 >>,
            k |-> << 2, 2, 2, 2, 2, 2, 4, 4, 2, 2, 2, 2, 2, 2, 2, 2, 2, 2, 2, 2,
                2, 2, 4, 4, 2, 2, 2, 2, 2, 2, 2, 2, 2, 2, 2, 2, 4, 2, 2, 2,
                2, 2, 2, 2, 2, 2, 2, 2, 4, 2, 2, 4, 2, 2, 2, 4, 2, 2, 2, 2,
                4, 2, 2, 2, 2, 4, 4, 2, 2, 2, 2, 4, 2, 2, 4, 2, 2, 2, 2, 2 >>])
    @@ (303 :> [u |-> << 750, 281, 550, 810, 621, 435, 187, 360, 288, 587, 655, 145,
                98, 553, 668, 221, 23, 125, 743, 538, 82, 758, 30, 538, 998,
                10, 951, 64, 406, 512, 309, 667, 506, 214, 74, 420, 359,
                206, 304, 708, 938, 907, 990, 774, 683, 819, 931, 821, 269,
                822, 899, 142, 921, 186, 711, 85, 702, 201, 810, 227, 648,
                295, 184, 812, 676, 47, 904, 624, 808, 506, 150, 69, 648,
                462, 221, 412, 53, 845, 718, 722, 732, 684, 289, 140, 769,
                879, 857, 487, 21, 505 >>,
            z |-> << -8416, 4041, 13416, 4619, -10709, -13103, -5010, -13754,
                6767, 17680, -9266, 19427, 1207, 19427, -11195, 3674, 2615,
                3674, 2615, -8377, 1435, -1428, 398, -1428, 3408, -1428,
                3408, -1428, 3408, -19582, 10884, 757, -14959, -18528,
                -1387, -18528, -11819, -6563, 10919, 3124, 9598, 7145, 9598,
                7145, 9598, -5638, 7860, -5638, 7860, 5907, -4776, 5907,
                -4776, 5907, -4776, 2499, -9436, 5548, -5745, 6587, -13381,
                -8944, 4846, 5683, -3182, 11832, 2409, 11832, 271, -11959,
                -5405, 1985, -5405, -15032, -4376, -6061, 9802, 4806, 9802,
                9609, 8994, -11474, -7365, 3930, 4367, -4169, -393, -4169,
                49, 4525 >>,
            zc |-> << 9614, -17420, 2192, 11851, 20052, -2710, -11223, -9081,
                -16324, 9980, 4061, 6143, -9085, 6143, 6787, -5645, 16615,
                -5645, 16615, 770, -2315, -6676, -4855, -6676, -25637,
                -6676, -25637, -6676, -25637, 1272, -12350, 20872, 319,
                -10412, -7459, -10412, -5682, -9849, -10219, 1488, 5497,
                10725, 5497, 10725, 5497, 7879, -5612, 7879, -5612, -8742,
                2443, -8742, 2443, -8742, 2443, -5102, 6407, -5334, 6544,
                -12129, 9686, -5799, -4903, 10025, 1245, 4754, 7837, 4754,
                13870, 206, 21095, -5778, 21095, -2045, -14001, -1183, 9644,
                7591, 9644, 9199, 11336, 10014, -4324, -5238, 3103, -105,
                11589, -105, -4182, 54 >>,
            k |-> << 2, 2, 2, 2, 2, 2, 2, 2, 2, 2, 2, 4, 2, 2, 2, 4, 4, 2, 2, 2,
                2, 8, 2, 6, 6, 4, 4, 2, 2, 2, 2, 2, 2, 4, 2, 2, 2, 2, 2, 2,
                6, 4, 4, 2, 2, 4, 4, 2, 2, 6, 6, 4, 4, 2, 2, 2, 2, 2, 2, 2,
                2, 2, 2, 2, 2, 4, 2, 2, 2, 2, 4, 2, 2, 2, 2, 2, 4, 2, 2, 2,
                2, 2, 2, 2, 2, 4, 2, 2, 2, 2 >>])
    @@ (306 :> [u |-> << 290, 954, 324, 489, 877, 802, 997, 344, 956, 704, 939, 302,
                606, 523, 882, 72, 301, 119, 246, 20, 91, 112, 534, 670,
                632, 997, 133, 890, 980, 723, 652, 495, 646, 483, 780, 39,
                570, 35, 608, 890, 72, 459, 173, 172, 539, 99, 523, 813,
                751, 822, 593, 843, 141, 979, 362, 225, 193, 248, 868, 131,
                309, 642, 813, 446, 705, 140, 284, 982, 363, 690, 875, 79,
                117, 659, 250, 464, 34, 284, 905, 441, 267, 870, 276, 689,
                840, 86, 363, 508, 812, 993, 522, 707, 20, 25, 116, 493,
                944, 910, 416, 185, 221, 552, 776, 942, 684, 74, 990, 647,
                522, 972, 803, 404, 831, 797, 74, 840, 252, 112, 558, 400,
                396, 358, 784, 530, 534, 348, 264, 39, 871, 826, 734, 503,
                250, 34, 471, 849, 669, 665, 763, 9, 921, 342, 587, 643,
                179, 756, 828, 839, 29, 187, 257, 795, 726, 254, 300, 186,
                511, 920, 685, 3, 707, 954, 324, 435, 225, 206, 119, 340,
                339, 318, 578, 285, 6, 595, 264, 657, 147, 700, 435, 159,
                192, 396, 599, 383, 976, 900, 498, 332, 508, 594, 814, 320,
                733, 915 >>,
            z |-> << -1194, -1133, -1194, 10603, 2285, 3642, 197, 3642, 197,
                3199, -1569, 8497, 5210, 10302, -6941, -2034, -6941, -3322,
                20128, 892, 20128, 892, 20128, 11227, -585, 8811, -585,
                8811, -585, 8811, -585, 22119, -2497, 15173, -4939, 813,
                -4939, 988, 8829, -12816, -744, -12816, -3925, 1542, -9287,
                552, 13586, 5852, 7092, 3505, 11271, -1292, -12480, -228,
                -12480, -6587, -6127, 5588, 10317, -3978, 10317, 11134,
                -2282, 17887, -7513, -4304, 14155, 7396, 14155, 7396, 3327,
                -12206, 3327, -12206, -2341, -5183, -1270, 5142, -1270,
                -16649, 6189, -3910, 9433, 8745, 1348, -2321, 1348, 13702,
                18605, 99, 18605, 6847, -170, 6847, -170, 6847, -12673,
                -1675, -12673, -5533, 2790, 14915, -5060, 1582, -5060, 3278,
                4726, 3278, 4726, 11696, -4018, 11696, 4512, -4865, -4889,
                -4865, -4889, 1467, -20921, -16088, -16488, 12072, 1572,
                23237, -21076, -12787, 1435, 5462, 1435, 5462, 281, -16670,
                11885, -317, 11885, 4386, 12100, 11667, -2278, 9808, -2278,
                9808, 17810, -10844, 5561, 6744, 3440, -5919, 8004, -5919,
                8004, 6625, -9340, -8520, -9198, 488, 8326, 2352, 422,
                -1154, 422, -1154, -6833, -14761, -6848, -3141, -3383,
                -12615, -12725, 7676, -16623, -15231, 8362, -15231, 8362,
                -9290, 4520, -5683, -11890, -3907, -4182, 15507, -16495,
                2744, -20898, -29, -20898, 1111, 25670, 12430, -5636, 11545,
                3772, -2180 >>,
            zc |-> << -20389, 2930, -20389, -289, 2850, -1240, 441, -1240, 441,
                1485, 3489, -15743, 24116, 621, -3616, -4391, -3616, -4993,
                4090, -9969, 4090, -9969, 4090, 14486, 21790, 12947, 21790,
                12947, 21790, 12947, 21790, -615, 21931, -906, 753, -5285,
                753, -4245, 2442, -1604, -7769, -1604, -3913, -12786, 918,
                -9383, 1021, 7308, 5524, 12138, 3057, 1237, -6264, 793,
                -6264, -5905, -7472, -3806, -13808, -7687, -13808, 5063,
                13272, -4680, 4296, -7193, -10118, 3762, -10118, 3762,
                -7990, 7809, -7990, 7809, -16403, -396, 8838, -2737, 8838,
                -4181, -3873, 6478, -11153, 4872, -22756, -7054, -22756,
                354, 2027, 2169, 2027, -98, -10276, -98, -10276, -98, -3352,
                8261, -3352, -6252, -14816, 2832, 2195, 3796, 2195, 21752,
                222, 21752, 222, -3352, 12828, -3352, 5027, 6700, -3124,
                6700, -3124, -9775, 12180, -15452, -12138, -5993, 14867,
                20466, 4736, -8247, 1633, 7609, 1633, 7609, 17415, 253,
                -953, -5263, -953, 9061, 12364, 7332, 6084, -17645, 6084,
                -17645, 10847, 4875, -6951, 5264, 3327, -7624, -6591, -7624,
                -6591, 8635, 8603, -10513, -5840, -13636, 222, 5337, 192,
                2996, 192, 2996, -18644, -3458, -6398, -2419, -8060, -12530,
                -11298, -17674, 6109, 6186, -12543, 6186, -12543, 4140,
                -7962, 17728, -2239, -4323, -12449, -16062, 14177, -670,
                -155, 9427, -155, -20856, 2430, 3735, 9884, -8844, 2122,
                7157 >>,
            k |-> << 4, 2, 2, 2, 2, 4, 4, 2, 2, 2, 2, 2, 2, 2, 4, 2, 2, 2, 6, 4,
                4, 2, 2, 2, 8, 6, 6, 4, 4, 2, 2, 2, 2, 2, 4, 2, 2, 2, 2, 4,
                2, 2, 2, 2, 2, 2, 2, 2, 2, 2, 2, 2, 4, 2, 2, 2, 2, 2, 4, 2,
                2, 2, 2, 2, 2, 2, 4, 4, 2, 2, 4, 4, 2, 2, 2, 2, 4, 2, 2, 2,
                2, 2, 2, 2, 4, 2, 2, 2, 4, 2, 2, 6, 4, 4, 2, 2, 4, 2, 2, 2,
                2, 2, 4, 2, 2, 4, 4, 2, 2, 4, 2, 2, 2, 4, 4, 2, 2, 2, 2, 2,
                2, 2, 2, 2, 2, 2, 4, 4, 2, 2, 2, 2, 4, 2, 2, 2, 2, 2, 4, 4,
                2, 2, 2, 2, 2, 2, 2, 4, 4, 2, 2, 2, 2, 2, 2, 2, 2, 2, 4, 4,
                2, 2, 2, 2, 2, 2, 2, 2, 2, 2, 2, 4, 4, 2, 2, 2, 2, 2, 2, 2,
                2, 2, 2, 2, 4, 2, 2, 2, 2, 2, 2, 2, 2, 2 >>])
    @@ (307 :> [u |-> << 320, 418, 403, 882, 792, 23, 488, 426, 906, 654, 251, 997,
                748, 354, 72, 964, 586, 312, 929, 534, 638, 854, 378, 563,
                490, 408, 101, 698, 449, 697, 982, 428, 672, 720, 355, 901,
                524, 676, 753, 729, 345, 621, 936, 796, 329, 305, 168, 412,
                989, 706, 542, 712, 4, 521, 505, 240, 608, 854, 654, 670,
                34, 478, 113, 135, 842, 985, 524, 846, 238, 856, 953, 402,
                949, 505, 457, 792, 373, 287, 554, 690, 373, 567, 682, 511 >>,
            z |-> << -7976, -17930, 9455, 2377, -27227, -107, -27227, 8617, 2666,
                -12431, -7507, -6012, -7507, -6012, -17089, 872, -17089,
                4689, 618, 21740, 9747, -3487, 10584, -4190, -25901, -8725,
                3024, -4640, 18339, 18320, -455, 18320, 12005, -8778, 7487,
                568, 20136, 11397, 8260, -8569, 11967, 6040, -12217, -6157,
                -12217, -8848, -3118, 1584, 17915, 3756, 17915, 8631, 81,
                8631, -16191, 5864, 10448, 4043, 13077, -1677, -240, -10110,
                12054, 167, 12054, 167, 12054, -4538, 5638, 5620, -1152,
                5620, 84, -31055, 14359, -5324, -14439, 4538, 18485, -9768,
                10601, 18199, 1207, 17459 >>,
            zc |-> << -17579, -15151, -2382, 3109, -4326, -4330, -4326, -1567,
                7005, 7730, 12797, -2050, 12797, -2050, 7858, 4694, 7858,
                -2050, 7714, 5400, 3809, 10177, -20140, 28317, -2677, -1997,
                -6065, 18296, -4675, -7636, 3056, -7636, 9402, 13409, -2685,
                9295, 2804, 7912, 9124, 12780, -15209, 1677, -10722, 10700,
                -10722, -5176, -11869, -282, 3586, 18204, 3586, 34233,
                -1862, 34233, 338, -13985, 3206, 9297, 11801, 615, -5291,
                -552, 857, 3303, 857, 3303, 857, 6000, -4138, -1221, 5344,
                -1221, 6501, 4253, -2087, 12337, -8575, -17577, 5321, 14760,
                -19692, 6764, 20016, 826 >>,
            k |-> << 2, 2, 2, 2, 4, 2, 2, 2, 2, 2, 4, 4, 2, 2, 4, 2, 2, 2, 2, 2,
                2, 2, 2, 2, 2, 2, 2, 2, 2, 4, 2, 2, 2, 2, 2, 2, 2, 2, 2, 2,
                2, 2, 4, 2, 2, 2, 2, 2, 4, 2, 2, 4, 2, 2, 2, 2, 2, 2, 2, 2,
                2, 2, 6, 4, 4, 2, 2, 2, 2, 4, 2, 2, 2, 2, 2, 2, 2, 2, 2, 2,
                2, 2, 2, 2 >>])
    @@ (309 :> [u |-> << 787, 811, 807, 488, 302, 665, 269, 180, 247, 28, 741, 679,
                200, 385, 34, 485, 986, 825, 843, 839, 696, 585, 676, 175,
                361, 36, 678, 237, 208, 989, 843, 935, 271, 71, 533, 739,
                888, 255, 858, 767, 770, 273, 989, 130, 319, 356, 170, 298,
                298, 147, 853, 209, 557, 717, 939, 324, 642, 846, 154, 117,
                983, 318, 637, 246, 907, 296, 414, 353, 534, 427, 877, 60,
                287, 908, 294, 304, 314, 549, 858, 993, 258, 887 >>,
            z |-> << 5955, 5128, -538, -19235, 10465, -12253, -7928, -5617, 8483,
                -10274, 8483, -10274, -4752, -4005, -170, 3247, 2630, 3389,
                2630, 4936, 7396, 17387, -9661, -4630, -3480, 585, -11147,
                -7324, -2996, -1205, -2996, -1205, -2996, 613, 16862, 5113,
                -3101, 6212, 3979, 7450, -7597, -3875, -10920, -3875,
                -10920, -10560, -5315, -10591, -7927, 479, -3778, 2831,
                17255, 2487, -1740, 11211, 9937, -2101, -13068, 10709,
                -13068, 10709, -13068, 3477, -2739, -7039, -17918, 5065,
                -24343, 10077, 5083, -1369, 5083, -2681, -10383, -10839,
                5004, 11263, 5112, 2132, 5112, 2132 >>,
            zc |-> << 5504, 5197, 13930, -1158, -12506, 8784, -5712, -7108, 11443,
                6142, 11443, 6142, -12431, -987, -5345, -99, 2660, 3217,
                2660, 8543, 16868, 8476, 5246, -10845, -1041, -1518, 7592,
                -6582, -1595, 2298, -1595, 2298, -1595, -7731, 2391, 3152,
                4936, -4228, 5345, 7370, 9075, -7925, -13796, -7925, -13796,
                -4591, -8671, -10615, -4526, -477, 4604, -14204, 4583, 1233,
                4347, -13823, 4093, 2108, 7074, -14167, 7074, -14167, 7074,
                -2162, 5484, -16654, -10486, -21289, 11655, -1950, -2643,
                -2828, -2643, 5335, -10923, -11384, -18899, 1546, -3189,
                2839, -3189, 2839 >>,
            k |-> << 2, 2, 2, 2, 2, 2, 2, 2, 4, 4, 2, 2, 2, 2, 2, 2, 4, 2, 2, 2,
                2, 2, 2, 2, 2, 2, 2, 2, 6, 4, 4, 2, 2, 2, 2, 2, 2, 2, 2, 2,
                2, 4, 4, 2, 2, 2, 2, 2, 2, 2, 2, 2, 2, 2, 2, 2, 2, 2, 6, 4,
                4, 2, 2, 2, 2, 2, 2, 2, 2, 2, 4, 2, 2, 2, 2, 2, 2, 2, 4, 4,
                2, 2 >>])
    @@ (310 :> [u |-> << 818, 668, 974, 610, 782, 312, 60, 660, 796, 908, 540, 40,
                565, 308, 115, 986, 625, 722, 740, 116, 973, 430, 709, 599,
                978, 227, 90, 729, 542, 636, 27, 403, 368, 22, 708, 713,
                212, 374, 95, 880, 944, 429, 836, 471, 731, 100, 771, 824,
                503, 412, 767, 864, 434, 484, 193, 467, 352, 485, 403, 317,
                716, 876, 236, 29, 797, 143, 999, 69, 561, 511, 201, 574,
                543, 753, 963, 761, 980, 264, 207, 915, 64, 765 >>,
            z |-> << 5353, 13162, 723, 13162, -6881, -3951, 1775, 11060, -5690,
                874, -5690, 778, -17975, -6957, 14282, 9548, 14282, 9548,
                -5348, 17159, -610, 17159, 7532, 2955, 2447, -2110, 2447,
                3204, 21353, -2441, -755, -17049, -1961, -9290, 10262,
                -9290, -5450, -7766, -1008, 12008, -1008, 12008, -1047,
                17327, -4859, 2087, 6296, 155, -26411, 14429, 5136, -1936,
                -6558, -13949, -1478, -21335, -2189, -25289, -16647, 11530,
                6486, -3319, -4180, 1053, -4180, 1053, 5538, 1053, 5538,
                -14339, 3388, 13251, 16066, -8333, -6447, -8333, -6447,
                -8333, -6447, -7515, -6447, -7515 >>,
            zc |-> << 10116, 5142, 3108, 5142, 10395, -1683, -4866, 5982, 499,
                8861, 499, -5430, 6170, -3466, 8053, 8827, 8053, 8827, 3356,
                -5715, 4140, -5715, 15830, 615, -4361, -1404, -4361, 17138,
                6740, 703, -3690, -12549, -540, 6878, 10062, 6878, -12512,
                -2404, 6406, -2502, 6406, -2502, 12508, -2103, 2817, -3077,
                5267, 13169, 1161, -4698, 3771, 10806, -27580, -706, -13825,
                -4727, -21916, -3884, -8776, -9697, 3737, 4736, 3485, -7400,
                3485, -7400, 28316, -7400, 28316, 575, -13513, 22946, 2737,
                -6723, -2945, -6723, -2945, -6723, -2945, 10895, -2945,
                10895 >>,
            k |-> << 2, 4, 2, 2, 2, 2, 2, 2, 4, 2, 2, 2, 2, 2, 4, 4, 2, 2, 2, 4,
                2, 2, 2, 2, 4, 2, 2, 2, 2, 2, 2, 2, 2, 4, 2, 2, 2, 2, 4, 4,
                2, 2, 2, 2, 2, 2, 2, 2, 2, 2, 2, 2, 2, 2, 2, 2, 2, 2, 2, 2,
                2, 2, 4, 6, 2, 4, 4, 2, 2, 2, 2, 2, 2, 6, 10, 4, 8, 2, 6, 4,
                4, 2 >>])
    @@ (311 :> [u |-> << 454, 439, 735, 465, 189, 615, 294, 428, 814, 200, 542, 643,
                154, 171, 832, 123, 266, 168, 461, 219, 552, 288, 906, 26,
                267, 178, 678, 166, 650, 495, 275, 708, 875, 332, 430, 900,
                900, 60, 151, 604, 88, 88, 587, 947, 86, 33, 525, 415, 584,
                360, 795, 228, 374, 142, 162, 961, 822, 794, 791, 732, 252,
                926, 4, 916, 772, 451, 19, 508, 975, 327, 449, 646, 839, 1,
                325, 98, 467, 426, 365, 505, 323, 332, 973, 750, 557, 182,
                194, 814, 931, 869, 706, 995, 168, 530, 278, 517, 682, 794,
                120, 495, 674, 76, 944, 854, 649, 638, 106, 272, 852, 496,
                33, 131, 729, 892, 996, 68, 478, 498, 781, 328, 216, 181,
                305, 764, 887, 466, 982, 621, 317, 714, 475, 925, 434, 402,
                71, 711, 387, 791, 55, 941, 266, 268, 608, 332, 787, 235,
                512, 849, 70, 492, 520, 427, 217, 569, 324, 900, 531, 165,
                926, 499, 657, 294, 280, 604, 634, 173, 318, 417, 867, 382,
                754, 798, 832, 797, 413, 510, 6, 565, 316, 63 >>,
            z |-> << -21970, 16464, -2535, -13630, 4474, -15119, -6004, 12898,
                -5171, 2012, 21035, -9937, -2983, 3666, -7479, -3667, -7479,
                -1460, -14943, 2734, -17685, 5206, -7789, 5368, -7789, 5368,
                -9301, 4583, -686, -17871, 9508, 6815, -3614, -7711, 8953,
                -7841, 3255, -7841, 3255, -7841, 5992, 1729, 5992, 286,
                -25228, 286, -25228, 16975, -18082, 11786, -6329, -5987,
                -9946, -1786, 4941, 6079, 4941, 6079, 6751, -9055, 2069,
                708, -2694, 708, -2694, -3722, 71, 4486, 20486, -5653,
                20486, 10096, -6667, -754, -6667, -754, -24699, -19101, 944,
                -20385, -11672, 3649, -13039, 3649, -13039, -4941, 5183,
                3984, 1182, 3984, 1182, -17790, 1182, -17790, 1436, 19955,
                10312, -3200, -112, 20538, -5481, 3983, 12866, 3983, 12866,
                -8001, -3074, 7040, -124, -5286, 5338, 3989, 5338, -389,
                -2564, -389, -2564, 15169, -6727, -10984, -5985, -5644,
                10471, 4187, -874, 3650, 345, -15095, 11566, -2047, 7968,
                -1173, -19992, -7008, 1881, -8051, 12798, -381, -9106, -381,
                -9106, 6936, -16080, 11039, -6747, 785, 11950, 33103, -140,
                33103, -26502, -14243, 3501, -18379, 6713, 739, -12548,
                21488, -10, 21488, -12874, -10431, 7305, 16403, -10907,
                -5239, -7987, 10357, -3095, 13789, 7483, 4996, 4502, -3865,
                3194, -2341, 190, -18289, -4282, -1486 >>,
            zc |-> << -16510, -4236, 17060, -1534, -12030, 8488, -17217, -2938,
                5440, -14044, 6280, 4128, -3135, -3623, -5264, -5913, -5264,
                -12623, -2044, -14728, 4345, -2712, -5623, -9683, -5623,
                -9683, 4969, -10171, 21901, -375, -10237, 3794, 8081,
                -18587, -1555, 2000, -10804, 2000, -10804, 2000, 1171,
                -8139, 1171, -5224, 7645, -5224, 7645, -16862, 10991, -5558,
                6883, -13012, -3481, -1893, 5407, 6149, 5407, 6149, 8454,
                8534, -1199, 1084, 15155, 1084, 15155, -375, -3993, 81,
                -6985, -19452, -6985, 4368, -2901, -9255, -2901, -9255,
                -11021, -10437, -22908, 638, -12320, 15903, 2363, 15903,
                2363, -5128, -5029, 7113, -12719, 7113, -12719, 2475,
                -12719, 2475, -17975, 1935, 6384, 2484, -10523, -476, 2251,
                9426, 13875, 9426, 13875, 2821, -5316, -4553, 11839, -42,
                3119, -6404, 3119, -7660, -35264, -7660, -35264, -86, 11027,
                -6659, -5324, -9257, -7682, 2860, 10000, -256, 1366, 10111,
                -9826, 18229, -450, 7635, -13436, -1591, -3807, 15138,
                -4946, 719, -9174, 719, -9174, -14814, 10425, -6441, 7336,
                -15947, 444, -12487, -7792, -12487, 7518, -3641, -14315,
                7230, -2942, 9331, 1189, -74, 7950, -74, 9893, -9759,
                -15350, 12738, 4486, -9448, -17445, -2334, 9672, -6368,
                6397, 4480, 5038, 13300, -26254, 50, -1435, 6505, -1801,
                -3048 >>,
            k |-> << 2, 2, 2, 2, 2, 2, 2, 2, 2, 2, 2, 2, 2, 2, 4, 2, 2, 2, 2, 2,
                2, 2, 4, 4, 2, 2, 2, 2, 2, 2, 2, 2, 2, 2, 2, 6, 4, 4, 2, 2,
                4, 2, 2, 4, 4, 2, 2, 2, 2, 2, 2, 2, 2, 2, 4, 4, 2, 2, 2, 2,
                2, 4, 4, 2, 2, 2, 2, 2, 4, 2, 2, 2, 4, 4, 2, 2, 2, 2, 2, 2,
                2, 4, 4, 2, 2, 2, 2, 4, 6, 2, 4, 4, 2, 2, 2, 2, 2, 2, 2, 2,
                2, 4, 4, 2, 2, 2, 2, 2, 2, 2, 4, 2, 2, 4, 4, 2, 2, 2, 2, 2,
                2, 2, 2, 2, 2, 2, 2, 2, 2, 2, 2, 2, 2, 2, 2, 2, 2, 4, 4, 2,
                2, 2, 2, 2, 2, 2, 2, 4, 2, 2, 2, 2, 2, 2, 2, 2, 2, 4, 2, 2,
                2, 2, 2, 2, 2, 2, 2, 2, 2, 2, 2, 2, 2, 2, 2, 2, 2, 2, 2, 2 >>])
    @@ (315 :> [u |-> << 616, 279, 125, 315, 996, 423, 112, 981, 719, 999, 409, 596,
                87, 646, 138, 824, 906, 373, 400, 618, 856, 250, 535, 944,
                958, 92, 361, 311, 765, 881, 750, 570, 282, 620, 318, 851,
                0, 336, 282, 982, 377, 871, 139, 108, 631, 90, 419, 443,
                883, 927, 920, 336, 521, 637, 587, 390, 653, 928, 890, 734,
                799, 346, 323, 960, 608, 139, 743, 971, 178, 429, 919, 343,
                389, 100, 549, 391, 100, 746, 1, 119, 497, 264, 229, 600,
                875, 294, 452, 880, 138, 75, 802, 311, 209, 868, 956, 346,
                193, 175, 861, 566, 161, 99, 396, 491, 627, 842, 817, 423,
                884, 118, 477, 125, 662, 296, 857, 319, 661, 147, 424, 594,
                11, 364, 418, 955, 787, 591, 138, 863, 279, 189, 783, 188,
                722, 105, 513, 77, 408, 471, 787, 880, 822, 351, 478, 540,
                706, 563, 87, 783, 623, 535, 952, 229, 363, 441, 822, 228,
                165, 865, 550, 434, 525, 757, 466, 43, 897, 464, 861, 180,
                942, 873, 99, 233, 995, 268, 755, 263, 995, 382, 457, 278 >>,
            z |-> << -14732, -6449, -3758, -9521, 16852, -9521, 16852, -7921,
                16852, -7921, 16852, -7921, 2436, -9232, 2262, -13162,
                -2382, -13162, 16582, 10158, -4284, 2312, 6748, -2479,
                -14065, -2479, -14065, 10667, 4424, 3320, 4393, -16821,
                8117, -15173, 8610, -12470, 9421, -12470, 9421, -354, 9421,
                2782, -7393, 2782, -7393, -1635, -14696, 9995, -2323, 2690,
                -2323, 2690, 22352, 11374, -17595, 16085, 5770, 8237, 3123,
                8237, -5745, -13178, 2137, 1070, -10206, 4184, -2763, 7920,
                -2763, 7920, -2316, -11301, -8358, 1143, -21819, -8373,
                2623, -63, -17341, -63, -17341, -8692, 5195, 9668, -3772,
                -4169, 10250, -10157, -6139, -10157, -6139, -10157, 3964,
                -10959, -1216, -10959, -4883, 2510, 1990, -11976, -2084,
                -2175, -2084, 23336, 10523, 3559, -3032, 9657, -10709, -608,
                -10709, 3590, -12619, 7663, -4247, 11355, -9141, -2389,
                18602, -1402, 5443, -11043, 5443, -10529, 4308, -10529,
                -8492, -4163, -8492, 5613, -6124, 5996, -5497, 334, -8170,
                -1609, -7730, 14742, 3504, 673, -4877, -3218, 27134, 18257,
                5403, -8405, 6483, 5540, 6483, 6230, -8656, -6375, -8656,
                12784, -5317, -5978, 1311, 1501, -21280, 10169, 16154,
                -2110, -5935, 11270, -846, 11270, -2526, 9050, -2181, 9050,
                -2181, 9050, -8179, 9050, -8179, -8053, -17522, -8053,
                -17522, 5054 >>,
            zc |-> << 7784, -3805, -7631, -1889, -15773, -1889, -15773, 1849,
                -15773, 1849, -15773, 1849, -6864, 3739, -2521, -16735,
                7654, -16735, -13944, 3374, 6125, -16409, 533, -7317,
                -10304, -7317, -10304, -7565, 3086, 5050, 15538, 5487,
                -14616, 10082, -4454, -9369, -3102, -9369, -3102, 1396,
                -3102, -8308, 2365, -8308, 2365, -8338, -20853, -1476, 5962,
                -20874, 5962, -20874, 3429, 17846, 14105, -11452, 2070,
                6462, 5204, 6462, 11224, -11434, -818, 4544, 3074, -6201,
                -12662, -1322, -12662, -1322, 6206, -15982, -2319, -9260,
                9947, -2262, -4260, -10458, -169, -10458, -169, -7587,
                -13902, 2596, 6915, -18135, -1271, -6591, 9859, -6591, 9859,
                -6591, -3130, -5497, 3609, -5497, -4619, -2251, 10902, 2338,
                -25002, -8435, -25002, -1581, 3909, 3829, 12680, -1907,
                -641, -10361, -641, -8269, 10057, -4371, 8408, -12670, 4191,
                -11164, -14909, 270, -974, -18375, -974, 2656, 13575, 2656,
                -6040, 6857, -6040, -6151, 5565, -8408, 3101, -9734, 261,
                -7434, -24504, -1481, 2649, 792, 10630, -21724, -14866,
                3537, 17486, 1302, 22407, 12730, 22407, 491, -20233, -12608,
                -20233, -2322, 6315, -4849, -1200, 10899, 16323, -26078,
                1608, 16051, -440, -1107, 9475, -1107, 2856, -8192, -3277,
                -8192, -3277, -8192, 8846, -8192, 8846, -22148, -3372,
                -22148, -3372, -16818 >>,
            k |-> << 2, 2, 2, 4, 8, 2, 6, 6, 4, 4, 2, 2, 2, 2, 2, 4, 2, 2, 2, 2,
                2, 2, 2, 4, 4, 2, 2, 2, 2, 2, 2, 2, 2, 2, 2, 4, 6, 2, 4, 2,
                2, 4, 4, 2, 2, 2, 2, 2, 4, 4, 2, 2, 2, 2, 2, 2, 2, 4, 2, 2,
                2, 2, 2, 2, 2, 2, 4, 4, 2, 2, 2, 2, 2, 2, 2, 2, 2, 4, 4, 2,
                2, 2, 2, 2, 2, 2, 2, 6, 4, 4, 2, 2, 2, 4, 2, 2, 2, 2, 2, 2,
                4, 2, 2, 2, 2, 2, 2, 2, 4, 2, 2, 2, 2, 2, 2, 2, 2, 2, 2, 2,
                4, 2, 2, 4, 2, 2, 4, 2, 2, 2, 2, 2, 2, 2, 2, 2, 2, 2, 2, 2,
                2, 2, 2, 2, 2, 2, 4, 2, 2, 2, 4, 2, 2, 2, 2, 2, 2, 2, 2, 2,
                2, 2, 2, 4, 2, 2, 2, 8, 4, 6, 2, 4, 4, 2, 2, 4, 4, 2, 2, 2 >>])
    @@ (329 :> [u |-> << 573, 390, 70, 858, 749, 465, 485, 311, 305, 244, 554, 884,
                420, 414, 715, 243, 40, 963, 264, 362, 169, 390, 621, 843,
                31, 225, 114, 685, 671, 196, 906, 592, 939, 315, 167, 734,
                503, 369, 559, 539, 774, 165, 447, 304, 870, 108, 788, 660,
                862, 427, 404, 149, 987, 333, 13, 899, 468, 284, 637, 936,
                151, 264, 77, 530, 985, 852, 870, 237, 962, 180, 832, 610,
                974, 811, 28, 188, 984, 117, 837, 925, 515, 614, 565, 110 >>,
            z |-> << -19130, -6744, -2282, 4191, -2282, -12125, -19663, -11237,
                -10596, 3356, 9932, -1995, -17599, 16297, -9693, -10663,
                -7876, -10663, -7876, -10663, -3777, 15711, 10608, -3849,
                3433, -3849, 3433, 11218, -10463, 6426, 1880, 6426, -1696,
                -9146, 5247, 297, -23165, 9293, 15369, 15206, -5893, -1938,
                -18377, 7463, 6273, 1979, 6273, 8806, -2153, -19040, -10894,
                -751, -18033, -751, -18033, -751, -18033, 8800, 5696, -3192,
                -4671, -3192, 585, 3260, -3594, 4075, -3594, 4075, 3746,
                4075, 3746, 3179, 23974, 285, 23974, 285, 23974, 285, 23974,
                285, 23974, 11413, -9569, 3131 >>,
            zc |-> << 12953, -1713, 16381, 6014, 16381, -29801, -1477, -10916,
                -8038, -15736, 1409, 9601, -16460, -6467, 8150, -4435,
                -13455, -4435, -13455, -4435, -11411, -14138, 3758, -2740,
                -7132, -2740, -7132, 12152, 5897, 1349, 8294, 1349, 4028,
                -5093, -7441, 17414, 710, -20322, 23275, 2184, 4839, -12353,
                -4932, -3940, 11278, -2690, 11278, 3891, 10765, -14415,
                -2976, 9396, -2670, 9396, -2670, 9396, -2670, -13828, 1790,
                -1775, -6920, -1775, -8114, 204, 5068, -3919, 5068, -3919,
                11319, -3919, 11319, 738, 3155, 8018, 3155, 8018, 3155,
                8018, 3155, 8018, 3155, 20043, 1607, -5106 >>,
            k |-> << 2, 2, 4, 2, 2, 2, 2, 2, 2, 2, 2, 2, 2, 2, 2, 6, 4, 4, 2, 2,
                2, 2, 2, 4, 4, 2, 2, 2, 2, 4, 2, 2, 2, 2, 2, 2, 2, 2, 2, 2,
                2, 2, 2, 2, 4, 2, 2, 2, 2, 2, 2, 6, 6, 4, 4, 2, 2, 2, 2, 4,
                2, 2, 2, 2, 4, 6, 2, 4, 4, 2, 2, 2, 10, 8, 8, 6, 6, 4, 4, 2,
                2, 2, 2, 2 >>])
    @@ (344 :> [u |-> << 313, 769, 303, 18, 224, 334, 575, 492, 118, 231, 999, 715,
                92, 267, 793, 293, 832, 705, 432, 696, 44, 320, 540, 803,
                712, 908, 178, 607, 795, 163, 925, 266, 806, 213, 955, 957,
                780, 298, 984, 219, 321, 189, 94, 766, 703, 362, 928, 764,
                136, 914, 212, 958, 317, 120, 891, 758, 888, 974, 908, 33,
                820, 741, 218, 153, 245, 622, 754, 623, 533, 834, 512, 519,
                18, 29, 793, 179, 636, 587, 770, 389, 712, 173, 537, 530,
                487, 989, 754, 60 >>,
            z |-> << 10707, -7506, -6867, 8350, -6867, 8350, -2652, -10416,
                -3048, -5045, -2505, -5045, -2505, 8417, -6636, 8431, 5230,
                -5718, 17748, -1689, -1065, 4345, 13908, 6297, 5078, 12777,
                3968, 12777, -4981, 8112, -1652, 8112, -5712, -6847, -7086,
                -6847, -7086, -6847, -9994, -6847, -9994, 7669, 1925, 7669,
                -9405, 6178, -7492, -5280, -7492, -876, -7492, -876, -7492,
                4366, 2803, 4366, 5650, -8311, 5650, -8311, 5650, -8311,
                -5251, -4610, 6536, 13619, 6576, 6043, 12542, 473, 29402,
                -3844, -5513, 4710, -5513, 4710, 11408, 14294, -5516, 15244,
                -8374, 1463, 19281, -13056, 2922, -4225, 7249, -4225 >>,
            zc |-> << -7397, 10271, -11386, -18260, -11386, -18260, 27298, -201,
                -4328, 2673, -4379, 2673, -4379, -6688, 9438, -5235, 8469,
                17416, -6094, 727, -2698, -19506, 1839, 8982, 2639, 4660,
                -11819, 4660, 4382, -6180, 3009, -6180, 6112, -10755, 9894,
                -10755, 9894, -10755, -5750, -10755, -5750, 10029, -2924,
                10029, 13992, -1975, -3595, 3851, -3595, 2204, -3595, 2204,
                -3595, 2902, 4242, 2902, 7502, 7132, 7502, 7132, 7502, 7132,
                -4265, -6264, -13619, 6535, 13572, 22563, 1240, 12660,
                19246, 152, 5048, -11050, 5048, -11050, 17901, 4596, 13568,
                -7908, 5442, -12865, 23818, 30330, -77, -5498, -11050, -5498 >>,
            k |-> << 2, 2, 4, 4, 2, 2, 2, 2, 2, 4, 4, 2, 2, 2, 2, 2, 2, 2, 2, 2,
                2, 2, 2, 2, 2, 4, 2, 2, 2, 4, 2, 2, 2, 8, 4, 6, 2, 4, 4, 2,
                2, 4, 2, 2, 2, 2, 8, 2, 6, 4, 4, 2, 2, 4, 2, 2, 6, 6, 4, 4,
                2, 2, 2, 2, 2, 2, 2, 2, 2, 2, 2, 2, 4, 4, 2, 2, 2, 2, 2, 2,
                2, 2, 2, 2, 2, 6, 6, 4 >>])
    @@ (353 :> [u |-> << 436, 263, 815, 680, 741, 305, 88, 750, 204, 261, 431, 220,
                511, 146, 145, 763, 291, 521, 174, 693, 143, 141, 474, 314,
                609, 936, 972, 637, 306, 550, 548, 481, 776, 416, 934, 427,
                625, 830, 903, 191, 832, 932, 935, 708, 223, 14, 656, 196,
                357, 778, 967, 270, 548, 258, 327, 518, 554, 977, 685, 395,
                686, 234, 983, 298, 297, 186, 624, 628, 819, 107, 752, 520,
                444, 875, 237, 500, 468, 964, 330, 171, 686, 196, 494, 329 >>,
            z |-> << -16291, 7777, 5607, 11379, -8679, -5548, 2015, -7707, -6602,
                -4583, -14446, 610, -11766, -7808, 4190, -7808, 1879,
                -13021, 5368, -8053, -19669, -804, -19669, 9350, 6300,
                -14067, 683, -14067, 4821, 19528, -10621, 15331, -4279,
                6857, -1164, 19300, 11018, 4579, 1626, 4579, 1626, -9693,
                1626, -9693, -10994, -5383, -10994, -5383, 12188, 3577,
                -16507, 3577, -16507, -8399, 2220, 27807, 3945, 16096,
                -9064, 16096, -10756, -10615, -9075, -10615, -9075, 4625,
                14545, 11357, 1356, 2848, 1356, -27369, 10411, -3398, 50,
                -33230, 5323, -723, -9793, 5248, -9911, -242, -20718, -2345 >>,
            zc |-> << -4387, -5839, 9786, 8526, 10754, -2628, -3305, 6547, -8153,
                -16083, -3520, -15229, 373, 9884, -5631, 9884, -18557, 843,
                -9061, 4363, -2675, -11460, -2675, -15823, 1578, 10001,
                2347, 10001, -18530, 20099, 28113, -1025, 14186, -1315,
                7013, -11074, 4199, -4250, 3402, -4250, 3402, 7294, 3402,
                7294, 5671, -11462, 5671, -11462, -6221, -17020, 3301,
                -17020, 3301, -11757, -20458, 9552, 450, -8998, 16116,
                -8998, 7548, -10550, -5858, -10550, -5858, -11648, 14139,
                4563, 16453, -4434, 16453, 10313, -1530, 4847, -16032, 867,
                -362, 1985, -5052, -9213, 6102, -14129, -630, -20536 >>,
            k |-> << 2, 2, 2, 2, 2, 2, 2, 2, 2, 2, 2, 2, 2, 4, 2, 2, 2, 2, 2, 2,
                4, 2, 2, 2, 2, 4, 2, 2, 2, 2, 2, 2, 2, 2, 2, 2, 2, 4, 6, 2,
                4, 4, 2, 2, 4, 4, 2, 2, 2, 4, 4, 2, 2, 2, 2, 2, 2, 4, 2, 2,
                2, 4, 4, 2, 2, 2, 2, 2, 4, 2, 2, 2, 2, 2, 2, 2, 2, 2, 2, 2,
                2, 2, 2, 2 >>])
    @@ (355 :> [u |-> << 231, 452, 941, 139, 721, 868, 628, 199, 192, 407, 994, 308,
                222, 521, 510, 139, 749, 708, 305, 511, 253, 653, 667, 770,
                436, 768, 826, 475, 645, 315, 378, 628, 712, 692, 515, 510,
                592, 727, 631, 331, 544, 297, 286, 222, 638, 637, 461, 191,
                886, 850, 627, 19, 524, 886, 536, 798, 939, 645, 277, 650,
                816, 65, 777, 641, 285, 461, 127, 872, 260, 829, 663, 596,
                76, 554, 436, 397, 967, 21, 267, 140, 853, 307, 68, 805,
                820, 532, 588, 677, 484, 598, 965, 656, 244, 740, 736, 448,
                822, 51, 75, 41, 539, 163, 790, 473, 320, 281, 559, 341, 32,
                813, 708, 953, 371, 770, 461, 787, 341, 669, 893, 426, 637,
                947, 76, 854, 870, 581, 554, 430, 709, 132, 387, 657, 276,
                96, 657, 561, 577, 567, 737, 264, 791, 190, 867, 694, 77,
                412, 423, 805, 753, 878, 524, 780, 818, 145, 280, 547, 537,
                224, 287, 59, 235, 336, 727, 353, 615, 268, 484, 953 >>,
            z |-> << -2730, 6836, 6679, 4279, 6679, 3290, -11977, -5558, -3856,
                -10311, 1157, -10311, 1157, 15007, -11439, 4135, 8411,
                -10206, 1114, -16811, 7809, 13104, 11430, -3512, 14989,
                6323, -956, 21827, -13671, -9941, 14799, 14338, 10011, 1539,
                20527, 25743, 15594, 7998, -14547, 5280, -18305, -10548,
                -9467, 6155, 13692, -6072, -13699, 1709, -1395, 3705, -1395,
                199, 10085, 954, 14173, -13300, 1737, -13300, 8831, 10771,
                6242, -13635, 6242, -13635, -3258, -10674, 7330, -3761,
                7330, 4911, 10006, -7326, 1011, -20307, -20326, 4118, -6597,
                -4351, -6597, -4351, -4460, -4351, 1322, 5039, 1322, 24309,
                17241, -1822, 25072, 4383, 868, -12216, 8161, 8796, -3604,
                12908, -12415, 492, -12415, 492, -12415, 4503, -1317,
                -19939, -11679, 4705, -19471, -2189, 829, 5910, 829, -1324,
                12929, -2202, 14637, -6281, 12777, 7233, -1744, 19013, 4905,
                14271, 2255, 14271, 2255, 14271, -20658, 17162, -7107,
                -3023, 15819, -12708, -4960, 2747, 7600, 19953, 16447,
                16146, -8914, 8356, -5878, 3072, 4030, -4870, -1552, -15921,
                13207, 6146, 5053, 684, 15099, 6073, -3241, -4484, 3799,
                17907, -15165, -7341, -2691, 12383, -7245, 12383, -8510,
                12242, -14538, -1197, 6220, 3844 >>,
            zc |-> << -15316, -742, 4014, -6971, 4014, 9407, 5130, -5440, -12746,
                -7119, -15247, -7119, -15247, 31632, 318, -5968, 10049,
                10944, -19368, 766, -12530, 12004, 7067, 14906, -3558, 5207,
                12986, -3615, 10748, -15092, -14047, 8638, 11043, 19436,
                29957, 2900, 6348, 13887, 11363, -19862, 4032, -10033,
                -7271, -12376, 13775, 21562, -1719, -1363, 371, 10156, 371,
                -3900, 640, 10010, 1753, 8691, 5250, 8691, -13040, 5139,
                12262, 8993, 12262, 8993, -17942, -1114, -5315, 5864, -5315,
                9928, 16978, 1663, -7888, 17461, -12495, -905, -4266, -1938,
                -4266, -1938, 8198, -1938, 13184, 4800, 13184, 8883, 8550,
                20234, -4075, 927, 2584, 7475, -8664, 8964, 16675, -2044,
                1453, -5738, 1453, -5738, 1453, -5211, 14631, -2908, -9597,
                -17178, 7344, -742, 380, 8895, 380, 4671, -6143, 15385,
                -1974, 11353, -11957, 3125, 9292, -10179, 1511, 21177,
                10280, 21177, 10280, 21177, 16351, -5652, 4065, -9819,
                -11357, 8955, -2744, -7054, 19404, 15755, 18997, 4584, 8997,
                -6765, 5527, -2591, 7597, 2244, -7518, -18202, -3302, 7403,
                3379, 10466, 1334, 5342, 2913, -7236, -17470, 22866, 2057,
                -9522, -1300, -8888, -11744, -8888, 13159, -15630, 7218,
                -17468, -218, -15711 >>,
            k |-> << 2, 2, 4, 2, 2, 2, 2, 2, 2, 4, 4, 2, 2, 2, 2, 2, 2, 2, 2, 2,
                2, 2, 2, 2, 2, 2, 2, 2, 2, 2, 2, 2, 2, 2, 2, 2, 2, 2, 2, 2,
                2, 2, 2, 2, 2, 2, 2, 2, 4, 2, 2, 2, 2, 2, 2, 4, 2, 2, 2, 2,
                4, 4, 2, 2, 2, 2, 4, 2, 2, 2, 2, 2, 2, 2, 2, 2, 4, 6, 2, 4,
                2, 2, 4, 2, 2, 2, 2, 2, 2, 2, 2, 2, 2, 2, 2, 2, 6, 4, 4, 2,
                2, 2, 2, 2, 2, 2, 2, 2, 4, 2, 2, 2, 2, 2, 2, 2, 2, 2, 2, 2,
                2, 6, 4, 4, 2, 2, 2, 2, 2, 2, 2, 2, 2, 2, 2, 2, 2, 2, 2, 2,
                2, 2, 2, 2, 2, 2, 2, 2, 2, 2, 2, 2, 2, 2, 2, 2, 2, 2, 2, 4,
                2, 2, 2, 2, 2, 2, 2, 4 >>])
    @@ (372 :> [u |-> << 229, 148, 638, 144, 19, 591, 972, 188, 205, 488, 560, 907,
                829, 783, 829, 310, 915, 452, 52, 696, 708, 312, 807, 968,
                676, 425, 201, 35, 156, 259, 426, 983, 759, 565, 61, 964,
                706, 258, 32, 896, 270, 402, 707, 145, 719, 63, 122, 901,
                340, 341, 765, 732, 477, 858, 572, 97, 985, 956, 405, 0,
                982, 982, 431, 343, 958, 111, 207, 157, 238, 87, 134, 252,
                593, 908, 351, 651, 451, 195, 615, 292, 160, 814, 598, 613,
                44, 690, 169, 6, 901, 431, 676, 950, 108, 872, 82, 331, 22,
                177, 959, 276, 909, 738, 174, 319, 192, 206, 27, 545, 15,
                190, 600, 135, 277, 58, 373, 501, 246, 967, 246, 55, 247,
                363, 491, 307, 506, 856, 205, 582, 661, 346, 753, 290, 507,
                262, 407, 804, 727, 270, 862, 5, 828, 719, 162, 856, 612,
                336, 600, 905, 103, 271, 620, 994, 669, 625, 327, 97, 39,
                733, 725, 489, 909, 287, 45, 50, 547, 36, 435, 221, 858,
                399, 124, 526, 817, 317, 291, 123, 153, 412, 746, 219, 232,
                349, 915, 587, 232, 168, 675, 519, 482, 945, 429, 39, 459,
                98, 524, 359, 539, 723, 633, 254, 676, 444, 442, 651, 106,
                386, 698, 862, 150, 599, 234, 196, 560, 657, 710, 516, 644,
                212, 16, 824, 48, 650, 443, 275, 461, 121, 660, 365, 270,
                931, 344, 148, 487, 991, 524, 811, 447, 139, 90, 773, 293,
                113, 337, 342, 955, 337, 864, 664, 534, 928, 124, 874, 706,
                699, 371, 388, 532, 539, 698, 733, 104, 592, 516, 301, 148,
                828, 811, 454, 285, 519, 487, 400, 229, 493, 565, 275, 846,
                598, 745, 864, 657, 611, 592, 946, 968, 988, 492, 677, 683,
                77, 500, 525, 464, 862, 237, 35, 258, 73, 560, 698, 621,
                741, 798, 750, 742, 288, 195, 670, 495, 769, 366, 46, 873,
                135, 679, 566, 290, 385, 254, 923, 639, 446, 308, 411, 235,
                121, 416, 524, 96, 869, 953, 142, 740, 127, 567, 865, 28,
                388, 293, 383, 186, 184, 926, 765, 354, 131, 322, 337, 708,
                6, 501, 629, 417, 102, 86, 790, 345, 288, 542, 444, 283,
                498, 41, 231, 463, 805, 245, 469, 227, 14, 470, 245, 796,
                502, 954, 815, 352, 77, 842, 289, 234, 582, 448, 912, 898,
                487, 504, 189, 622, 369, 538, 697, 485, 638, 753, 516, 845,
                715, 360, 321, 592, 757, 781, 134, 586, 211, 521, 258, 975,
                40, 134, 232, 984, 235, 298, 634, 54, 122, 852, 755, 234,
                443, 38, 705, 704, 511, 512, 211, 347, 638, 554, 568, 811,
                142, 319, 839, 148, 971, 686, 729, 198, 646, 226, 880, 812,
                287, 926, 980, 91, 775, 40, 803, 379, 882, 382, 807, 432,
                876, 735, 660, 979, 243, 481, 368, 332, 332, 281, 502, 884,
                287, 346, 922, 888, 760, 967, 403, 626, 676, 288, 821, 244,
                662, 553, 672, 784, 265, 283, 249, 805, 806, 617, 997, 757,
                127, 510, 802, 282, 310, 165, 977, 688, 585, 440, 969, 351,
                981, 248, 252, 768, 278, 774, 450, 466, 888, 983, 250, 100,
                384, 581, 698, 497, 158, 718, 261, 972, 126, 684, 635, 796,
                288, 395, 511, 833, 214, 655, 191, 793, 912, 147, 567, 306,
                150, 452, 402, 459, 403, 134, 753, 151, 642, 182, 699, 663,
                57, 879, 788, 186, 427, 241, 61, 236, 25, 185, 256, 755, 97,
                741, 51, 436, 680, 970, 814, 3, 837, 679, 575, 549, 620,
                398, 196, 479, 247, 302, 150, 621, 873, 853, 969, 693, 608,
                889, 254, 551, 382, 712, 630, 999, 762, 161, 547, 850, 168,
                567, 65, 275, 316, 107, 543, 305, 316, 241, 975, 842, 420,
                473, 38, 313, 444, 846, 985, 739, 845, 163, 899, 993, 934,
                334, 258, 848, 430, 756, 87, 633, 252, 996, 153, 16, 810,
                279, 499, 781, 154, 519, 298, 292, 812, 782, 390, 41, 952,
                859, 714, 758, 110, 62, 491, 573, 637, 867, 591, 994, 969,
                673, 925, 424, 148, 376, 320, 346, 607, 483, 900, 821, 524,
                801, 162, 932, 814, 183, 931, 745, 570, 537, 394, 481, 214,
                756, 859, 519, 195, 940, 357, 453, 850, 556, 185, 310, 635,
                159, 402, 28, 180, 353, 818, 305, 160, 304, 771, 868, 368,
                930, 230, 214, 687, 144, 549, 404, 93, 899, 666, 515, 522,
                556, 195, 964, 699, 590, 624, 428, 213, 931, 384, 869, 783,
                757, 943, 10, 295, 696, 51, 492, 469, 28, 5, 244, 401, 813,
                812, 850, 236, 51, 561, 746, 828, 742, 217, 72, 992, 557,
                673, 907, 48, 972, 995, 82, 497, 590, 297, 558, 465, 284,
                512, 566, 789, 667, 471, 578, 921, 86, 497, 746, 926, 734,
                253, 0, 876, 827, 300, 287, 398, 383, 624, 338, 968, 128,
                474, 758, 193, 247, 494, 82, 317, 431, 142, 58, 73, 684,
                578, 135, 918, 236, 193, 561, 747, 617, 886, 939, 179, 883,
                706, 643, 112, 738, 403, 752, 236, 317, 418, 281, 408, 251,
                880, 551, 19, 735, 392, 209, 864, 907, 768, 432, 154, 269,
                737, 455, 322, 594, 702, 957, 902, 451, 60, 935, 417, 743,
                185, 153, 211, 410, 143, 882, 513, 410, 478, 23, 303, 431,
                73, 870, 644, 975, 398, 26, 574, 690, 424, 742, 258, 743,
                752, 358, 147, 506, 864, 91, 198, 799, 414, 360, 916, 651,
                45, 709, 767, 606, 206, 403, 148, 313, 984, 844, 283, 777,
                90, 829, 849, 506, 710, 930, 536, 247, 473, 467, 598, 797,
                761, 465, 272, 364, 142, 150, 466, 583, 603, 47, 230, 433,
                349, 901, 81, 992, 834, 577, 307, 706, 866, 8, 519, 382,
                177, 803, 67, 436, 68, 938, 93, 194, 205, 772, 421, 698,
                227, 759, 453, 47, 841, 822, 752, 889, 195, 748, 657, 598,
                329, 687, 2, 67, 579, 594, 422, 530, 614, 669, 512, 857,
                166, 552, 276, 180, 591, 112, 128, 796, 678, 303, 688, 646,
                252, 111, 611, 166, 902, 705, 384, 777, 455, 242, 393, 753,
                221, 920, 969, 643, 393, 508, 245, 650, 151, 636, 383, 419,
                171, 397, 661, 485, 626, 80, 305, 195, 534, 924, 572, 567,
                715, 230, 12, 475, 121, 993, 913, 190, 349, 602, 738, 145,
                679, 467, 929, 413, 368, 534, 444, 875, 682, 94, 996, 763,
                549, 270, 918, 833, 23, 54, 715, 34, 1, 543, 378, 847, 652,
                371, 915, 971, 937, 388, 767, 879, 960, 881, 57, 645, 883,
                106, 466, 918, 922, 912, 789, 233, 593, 972, 98, 135, 880,
                325, 249, 800, 358, 571, 980, 920, 164, 577, 712, 834, 674,
                954, 401, 121, 989, 919, 640, 60, 98, 568, 455, 421, 970,
                787, 372, 297, 984, 967, 455, 40, 772, 860, 139, 976, 52,
                559, 839, 677, 363, 915, 202, 85, 682, 808, 339, 442, 102,
                223, 37, 346, 457, 73, 888, 701, 267, 294, 610, 36, 809, 58,
                486, 580, 926, 210, 817, 581, 385, 546, 601, 280, 103, 211,
                669, 528, 89, 829, 829, 674, 607, 802, 909, 611, 787, 219,
                128, 871, 677, 356, 583, 184, 780, 307, 32, 782, 715, 17,
                840, 299, 478, 795, 243, 824, 611, 730, 317, 913, 400, 169,
                13, 245, 392, 180, 402, 835, 310, 702, 259, 817, 939, 793,
                180, 105, 983, 742, 98, 64, 307, 992, 258, 153, 567, 973,
                573, 524, 854, 433, 124, 523, 764, 788, 260, 978, 195, 340,
                70, 161, 245, 505, 999, 411, 517, 585, 611, 326, 784, 718,
                843, 58, 709, 876, 930, 720, 856, 75, 412, 544, 414, 327,
                502, 672, 198, 43, 893, 65, 865, 738, 677, 677, 589, 280,
                33, 890, 603, 802, 435, 214, 630, 50, 79, 102, 391, 790,
                617, 82, 473, 245, 449, 885, 614, 194, 213, 2, 726, 27, 955,
                155, 686, 377, 965, 572, 856, 824, 34, 984, 241, 326, 642,
                938, 852, 809, 350, 855, 962, 903, 593, 806, 788, 415, 343,
                7, 418, 536, 259, 722, 239, 187, 931, 38, 335, 263, 522,
                368, 217, 934, 553, 91, 189, 419, 740, 247, 978, 753, 37,
                627, 855, 163, 345, 948, 705, 34, 861, 491, 422, 460, 386,
                273, 564, 604, 898, 539, 792, 347, 771, 229, 614, 323, 79,
                759, 604, 493, 763, 918, 218, 212, 306, 719, 64, 621, 530,
                499, 77, 58, 645, 74, 461, 13, 110, 543, 927, 865, 817, 892,
                445, 294, 232, 464, 998, 72, 857, 964, 780, 79, 166, 586,
                626, 194, 182, 299, 782, 722, 473, 254, 196, 517, 488, 159,
                777, 42, 380, 727, 278, 190, 343, 69, 244, 527, 856, 739,
                55, 346, 188, 536, 921, 790, 831, 722, 842, 231, 955, 769,
                967, 510, 168, 730, 403, 52, 539, 296, 898, 452, 218, 917,
                416, 877, 483, 743, 37, 464, 847, 828, 298, 307, 414, 642,
                162, 695, 109, 543, 345, 599, 299, 613, 389, 278, 67, 678,
                909, 981, 414, 549, 977, 286, 282, 526, 784, 768, 720, 619,
                183, 235, 854, 988, 503, 522, 42, 516, 539, 200, 740, 270,
                833, 748, 0, 99, 796, 50, 316, 992, 129, 141, 587, 25, 604,
                270, 470, 101, 932, 965, 158, 548, 420, 282, 119, 185, 879,
                934, 950, 409, 546, 996, 553, 443, 192, 139, 718, 785, 985,
                984, 743, 181, 646, 679, 16, 256, 980, 492, 35, 775, 217,
                362, 837, 353, 59, 661, 559, 656, 490, 498, 980, 47, 341,
                26, 102, 983, 789, 39, 897, 965, 194, 543, 156, 199, 669,
                369, 431, 668, 962, 464, 5, 531, 699, 829, 10, 328, 690,
                262, 792, 919, 359, 639, 415, 218, 74, 702, 38, 917, 500,
                554, 750, 539, 676, 744, 853, 418, 750, 599, 643, 746, 835,
                852, 248, 113, 561, 804, 263, 461, 178, 607, 896, 14, 623,
                463, 292, 8, 549, 171, 348, 314, 604, 975, 150, 159, 512,
                851, 169, 167, 758, 744, 98, 419, 882, 218, 266, 992, 480,
                457, 447, 929, 326, 75, 756, 858, 461, 203, 669, 949, 655,
                884, 55, 974, 629, 222, 144, 342, 164, 144, 969, 89, 59,
                929, 468, 144, 759, 821, 860, 656, 542, 555, 449, 355, 671,
                430, 423, 850, 723, 185, 869, 671, 772, 342, 131, 486, 244,
                176, 410, 327, 0, 312, 441, 849, 589, 155, 857, 410, 592,
                993, 799, 260, 184, 874, 554, 719, 780, 353, 770, 953, 319,
                806, 403, 454, 591, 521, 446, 530, 894, 867, 886, 122, 846,
                146, 426, 190, 513, 756, 807, 367, 407, 831, 664, 796, 888,
                188, 937, 71, 185, 569, 496, 287, 779, 890, 141, 19, 292,
                154, 550, 424, 849, 707, 875, 948, 964, 20, 492, 785, 479,
                620, 604, 284, 361, 612, 470, 771, 307, 141, 410, 740, 349,
                525, 922, 771, 104, 728, 489, 82, 345, 678, 613, 330, 80,
                221, 393, 329, 914, 499, 776, 961, 283, 291, 673, 798, 516,
                329, 215, 315, 939, 845, 824, 466, 723, 979, 170, 863, 787,
                377, 195, 568, 986, 730, 469, 995, 604, 900, 452, 700, 188,
                208, 198, 795, 510, 139, 782, 218, 497, 740, 397, 779, 501,
                98, 442, 968, 394, 530, 682, 605, 978, 601, 414, 32, 417,
                892, 484, 132, 663, 990, 488, 744, 168, 231, 902, 493, 373,
                531, 441, 873, 536, 534, 752, 162, 145, 755, 57, 888, 714,
                777, 282, 732, 937, 533, 63, 334, 509, 781, 428, 714, 836,
                766, 328, 552, 825, 857, 127, 660, 262, 573, 719, 588, 764,
                330, 189, 422, 517, 54, 885, 527, 433, 171, 566, 648, 515,
                502, 198, 466, 584, 995, 694, 55, 483, 598, 199, 378, 802,
                97, 636, 524, 981, 335, 678, 450, 699, 66, 277, 655, 62,
                445, 623, 975, 924, 256, 151, 58, 991, 144, 645, 206, 781,
                989, 813, 294, 154, 594, 483, 831, 628, 357, 177, 113, 785,
                388, 255, 963, 396, 574, 839, 800, 493, 914, 772, 434, 531,
                837, 679, 186, 77, 374, 493, 798, 422, 103, 195, 581, 650,
                376, 617, 760, 390, 539, 140, 344, 508, 926, 205, 432, 871,
                478, 995, 140, 708, 12, 310, 205, 848, 944, 604, 689, 443,
                393, 643, 341, 143, 886, 133, 518, 557, 898, 512, 366, 708,
                380, 775, 32, 811, 889, 235, 828, 466, 506, 369, 708, 657,
                743, 623, 234, 870, 496, 842, 148, 167, 566, 311, 487, 246,
                537, 556, 44, 296, 496, 697, 884, 290, 210, 640, 37, 774,
                897, 693, 482, 53, 992, 342, 402, 737, 417, 897, 382, 507,
                485, 89, 371, 710, 110, 353, 665, 874, 213, 565, 160, 648,
                213, 853, 456, 638, 7, 196, 835, 271, 698, 301, 841, 596,
                800, 955, 669, 31, 46, 202, 117, 292, 727, 395, 641, 181,
                692, 901, 25, 917, 148, 565, 511, 398, 91, 735, 405, 451,
                92, 695, 369, 635, 188, 524, 389, 226, 667, 842, 953, 926,
                333, 56, 735, 487, 715, 611, 165, 217, 527, 692, 700, 464,
                12, 225, 871, 336, 324, 651, 556, 519, 106, 440, 156, 742,
                888, 841, 399, 329, 453, 130, 462, 660, 117, 71, 982, 282,
                828, 676, 489, 49, 998, 821, 786, 491, 230, 704, 402, 320,
                957, 311, 153, 518, 457, 950, 8, 550, 85, 120, 860, 875,
                525, 171, 234, 541, 409, 485, 38, 169, 398, 119, 763, 30,
                241, 59, 143, 646, 809, 620, 811, 603, 686, 100, 261, 757,
                525, 306, 173, 578, 997, 541, 372, 164, 400, 129, 737, 607,
                598, 365, 249, 133, 217, 948, 680, 315, 758, 661, 182, 944,
                704, 330, 692, 379, 171, 33, 619, 473, 468, 656, 472, 179,
                935, 322, 11, 399, 21, 322, 806, 157, 479, 797, 407, 101,
                774, 829, 241, 718, 231, 236, 272, 998, 323, 243, 342, 527,
                983, 307, 143, 866, 837, 223, 855, 775, 52, 248, 166, 986,
                63, 355, 869, 878, 698, 55, 934, 599, 375, 949, 50, 702,
                105, 529, 904, 376, 200, 21, 217, 396, 788, 811, 734, 36, 0,
                7, 992, 462, 44, 97, 3, 837, 959, 586, 422, 401, 949, 912,
                270, 540, 528, 429, 721, 23, 450, 797, 92, 438, 661, 360,
                289, 936, 290, 419, 188, 863, 270, 922, 776, 826, 80, 987,
                857, 686, 465, 619, 142, 560, 155, 622, 485, 425, 308, 686,
                479, 89, 898, 718, 584, 904, 202, 555, 127, 891, 384, 413,
                407, 606, 294, 322, 51, 689, 573, 531, 113, 600, 152, 461,
                28, 398, 604, 805, 243, 724, 194, 249, 185, 742, 107, 859,
                839, 797, 523, 822, 639, 271, 848, 788, 73, 901, 233, 964,
                70, 132, 18, 803, 787, 843, 18, 770, 973, 236, 352, 66, 347,
                200, 136, 400, 440, 833, 102, 720, 985, 699, 2, 302, 333,
                281, 506, 434, 547, 846, 426, 82, 57, 96, 628, 795, 402,
                439, 328, 718, 873, 583, 215, 628, 305, 888, 964, 265, 756,
                377, 682, 777, 87, 894, 935, 240, 539, 830, 112, 891, 352,
                251, 859, 868, 288, 552, 100, 302, 251, 144, 739, 370, 283,
                192, 162, 507, 847, 567, 510, 90, 60, 559, 157, 131, 89,
                969, 97, 226, 281, 938, 201, 432, 927, 7, 241, 572, 718,
                750, 52, 679, 494, 132, 899, 702, 251, 981, 891, 230, 667,
                445, 932, 868, 615, 420, 235, 180, 116, 430, 905, 58, 357,
                481, 53, 441, 592, 387, 565, 288, 322, 103, 421, 763, 482,
                955, 0, 138, 507, 672, 677, 984, 148, 737, 48, 125, 75, 212,
                730, 384, 781, 290, 454, 392, 971, 295, 368, 712, 943, 646,
                726, 505, 406, 691, 506, 232, 486, 551, 507, 30, 559, 294,
                756, 542, 7, 254, 56, 751, 283, 463, 196, 330, 766, 739,
                853, 363, 493, 911, 857, 57, 775, 137, 455, 767, 751, 892,
                693, 560, 33, 401, 819, 444, 807, 866, 78, 865, 218, 525,
                663, 139, 190, 102, 214, 901, 786, 566, 251, 965, 661, 633,
                53, 7, 145, 619, 641, 644, 813, 865, 214, 769, 292, 414,
                178, 961, 483, 584, 691, 567, 345, 442, 286, 610, 649, 352,
                859, 196, 138, 445, 156, 437, 417, 798, 900, 333, 561, 43,
                905, 75, 471, 373, 36, 168, 810, 889, 798, 140, 199, 318,
                869, 771, 675, 366, 15, 899, 147, 517, 164, 930, 454, 200,
                529, 855, 19, 640, 376, 511, 143, 181, 70, 549, 887, 24,
                589, 811, 377, 176, 302, 117, 421, 79, 498, 257, 458, 571,
                465, 198, 63, 968, 846, 955, 792, 518, 591, 28, 589, 701,
                786, 87, 469, 285, 564, 900, 528, 899, 312, 99, 902, 627,
                495, 944, 793, 752, 717, 182, 545, 38, 719, 999, 594, 201,
                445, 748, 284, 629, 140, 155, 888, 12, 355, 827, 165, 285,
                521, 666, 785, 703, 308, 566, 436, 788, 390, 686, 525, 938,
                688, 815, 334, 714, 381, 93, 258, 76, 157, 635, 213, 761,
                780, 80, 23, 146, 587, 792, 332, 846, 808, 202, 884, 706,
                153, 49, 53, 416, 366, 459, 984, 62, 936, 962, 397, 188,
                115, 422, 594, 319, 921, 175, 711, 18, 823, 669, 845, 128,
                574, 999, 761, 20, 210, 771, 488, 900, 325, 70, 219, 826,
                224, 521, 479, 176, 220, 522, 785, 996, 816, 876, 683, 66,
                676, 122, 251, 154, 799, 898, 834, 161, 512, 979, 593, 865,
                264, 577, 977, 171, 480, 346, 848, 106, 610, 308, 135, 29,
                642, 922, 645, 323, 629, 956, 634, 875, 636, 504, 220, 684,
                947, 605, 849, 940, 510, 757, 371, 148, 278, 701, 219, 535,
                105, 694, 604, 698, 528, 987, 237, 354, 4, 466, 468, 769,
                211, 28, 57, 239, 788, 313, 946, 345, 571, 995, 40, 922, 72,
                21, 544, 895, 886, 514, 433, 562, 806, 606, 702, 843, 21,
                527, 504, 872, 501, 316, 670, 744, 102, 969, 762, 742, 161,
                26, 890, 632, 232, 908, 896, 610, 785, 12, 795, 412, 31,
                436, 625, 606, 104, 701, 278, 980, 651, 909, 735, 838, 548,
                494, 217, 210, 893, 975, 130, 66, 395, 814, 471, 552, 154,
                196, 852, 175, 162, 946, 707, 533, 302, 377, 651, 626, 467,
                266, 160, 640, 673, 93, 824, 178, 443, 620, 808, 822, 861,
                301, 845, 954, 392, 633, 805, 101, 594, 33, 882, 784, 678,
                958, 179, 773, 220, 22, 774, 674, 809, 37, 514, 164, 121,
                271, 228, 880, 169, 150, 624, 33, 981, 975, 474, 232, 760,
                590, 756, 443, 558, 888, 849, 973, 962, 914, 199, 551, 646,
                167, 615, 84, 516, 76, 706, 270, 253, 455, 930, 320, 373,
                902, 773, 845, 202, 374, 137, 666, 20, 340, 503, 209, 171,
                186, 567, 556, 783, 946, 255, 776, 360, 243, 588, 474, 981,
                103, 910, 368, 77, 873, 155, 101, 739, 808, 279, 820, 838,
                694, 346, 210, 206, 806, 240, 614, 128, 980, 745, 850, 875,
                678, 278, 380, 453, 153, 839, 101, 274, 388, 966, 887, 573,
                741, 707, 479, 507, 885, 394, 114, 124, 517, 544, 292, 96,
                783, 607, 996, 518, 228, 485, 911, 14, 914, 299, 735, 527,
                124, 643, 232, 526, 103, 358, 557, 451, 561, 979, 943, 517,
                536, 411, 748, 60, 725, 463, 65, 145, 245, 371, 977, 890,
                478, 875, 635, 786, 969, 879, 468, 143, 418, 391, 368, 413,
                114, 487, 782, 243, 145, 392, 352, 572, 170, 17, 720, 1,
                141, 222, 86, 727, 772, 585, 761, 153, 908, 102, 302, 602,
                220, 606, 955, 169, 830, 522, 272, 297, 293, 493, 836, 517,
                815, 593, 136, 260, 735, 542, 614, 188, 333, 794, 666, 231,
                187, 46, 165, 76, 546, 126, 469, 452, 837, 740, 42, 877,
                210, 262, 367, 581, 807, 862, 581, 421, 439, 976, 113, 605,
                950, 543, 961, 713, 311, 524, 162, 862, 305, 891, 683, 678,
                569, 358, 85, 538, 976, 687, 406, 689, 166, 103, 856, 187,
                165, 576, 360, 204, 84, 218, 606, 515, 501, 424, 318, 532,
                797, 244, 828, 403, 504, 905, 484, 124, 588, 176, 865, 762,
                620, 748, 90, 959, 781, 933, 619, 911, 50, 991, 97, 968,
                872, 402, 722, 776, 429, 929, 95, 402, 427, 698, 646, 355,
                220, 107, 177, 576, 290, 665, 246, 678, 422, 291, 892, 257,
                927, 355, 424, 982, 966, 428, 51, 740, 904, 676, 579, 827,
                426, 830, 920, 875, 940, 887, 309, 362, 771, 219, 951, 990,
                254, 573, 881, 691, 406, 865, 657, 9, 591, 714, 829, 932,
                726, 990, 570, 657, 444, 113, 909, 101, 79, 176, 4, 333, 19,
                734, 606, 188, 199, 680, 879, 624, 165, 441, 236, 937, 268,
                346, 300, 856, 656, 6, 118, 656, 593, 471, 566, 664, 195,
                578, 569, 970, 845, 366, 205, 314, 802, 342, 115, 108, 887,
                586, 893, 546, 942, 304, 493, 509, 915, 385, 336, 497, 939,
                12, 501, 610, 475, 630, 878, 453, 17, 232, 304, 956, 985,
                879, 381, 382, 878, 504, 516, 369, 623, 463, 588, 568, 415,
                651, 119, 619, 724, 783, 598, 234, 632, 897, 435, 237, 662,
                586, 895, 480, 841, 420, 303, 99, 158, 793, 269, 207, 317,
                776, 337, 305, 157, 655, 787, 6, 340, 180, 456, 341, 382,
                279, 738, 625, 681, 937, 279, 214, 9, 822, 68, 946, 480,
                485, 2, 229, 655, 98, 310, 808, 988, 78, 982, 680, 368, 51,
                20, 299, 324, 72, 107, 529, 814, 993, 85, 56, 206, 336, 615,
                55, 236, 817, 297, 409, 490, 171, 716, 579, 929, 223, 596,
                505, 504, 556, 870, 413, 778, 269, 604, 900, 359, 0, 990,
                98, 646, 341, 250, 842, 780, 294, 618, 220, 279, 17, 744,
                378, 55, 881, 772, 595, 899, 837, 861, 507, 139, 641, 206,
                761, 472, 765, 930, 849, 44, 512, 961, 633, 52, 803, 114,
                152, 117, 852, 391, 186, 660, 436, 512, 735, 972, 294, 511,
                908, 827, 362, 387, 226, 98, 380, 269, 286, 936, 307, 124,
                512, 519, 85, 574, 35, 319, 141, 201, 904, 358, 714, 48, 87,
                871, 417, 741, 984, 115, 718, 615, 656, 206, 286, 793, 72,
                465, 759, 379, 286, 218, 459, 955, 22, 0, 153, 318, 223,
                234, 622, 252, 682, 178, 275, 416, 368, 599, 996, 182, 529,
                811, 681, 202, 772, 120, 523, 366, 594, 798, 482, 197, 547,
                412, 869, 776, 422, 560, 942, 465, 22, 426, 466, 828, 237,
                220, 719, 600, 811, 395, 160, 177, 63, 831, 737, 873, 614,
                992, 259, 681, 921, 140, 924, 116, 700, 821, 389, 155, 631,
                138, 854, 312, 466, 575, 929, 811, 594, 492, 767, 683, 392,
                503, 690, 445, 22, 484, 541, 719, 47, 206, 442, 835, 100,
                862, 235, 254, 221, 784, 403, 391, 269, 378, 895, 746, 936,
                6, 565, 380, 352, 216, 860, 850, 525, 703, 268, 332, 50,
                816, 849, 25, 302, 81, 894, 883, 537, 872, 300, 844, 916,
                466, 67, 76, 921, 646, 374, 573, 404, 263, 960, 850, 727,
                466, 983, 86, 366, 521, 975, 720, 621, 22, 693, 915, 980,
                767, 837, 366, 531, 504, 6, 714, 43, 895, 656, 495, 129,
                569, 602, 814, 962, 952, 840, 498, 541, 133, 160, 547, 320,
                993, 647, 485, 709, 321, 926, 33, 802, 59, 510, 785, 315,
                150, 949, 773, 264, 424, 945, 938, 194, 704, 40, 899, 578,
                92, 331, 518, 930, 605, 181, 215, 363, 91, 916, 295, 122,
                773, 935, 371, 314, 809, 225, 67, 579, 928, 81, 88, 471,
                606, 39, 495, 801, 788, 629, 224, 739, 714, 188, 712, 509,
                679, 774, 845, 868, 97, 481, 623, 130, 796, 305, 357, 216,
                205, 883, 620, 14, 55, 301, 906, 801, 519, 399, 868, 418,
                163, 513, 925, 70, 846, 657, 683, 870, 671, 491, 545, 47,
                869, 980, 580, 675, 769, 650, 874, 459, 672, 410, 995, 191,
                220, 131, 813, 468, 816, 394, 812, 127, 561, 364, 962, 286,
                234, 329, 152, 495, 148, 439, 661, 340, 789, 951, 269, 147,
                565, 355, 672, 36, 659, 874, 636, 74, 10, 901, 373, 556, 40,
                8, 335, 805, 669, 821, 711, 318, 77, 604, 590, 531, 801,
                474, 621, 68, 783, 623, 367, 446, 289, 631, 936, 248, 22,
                962, 467, 513, 858, 400, 299, 953, 205, 625, 983, 759, 262,
                120, 369, 445, 430, 320, 192, 878, 572, 355, 556, 440, 612,
                751, 517, 996, 702, 167, 28, 695, 843, 663, 341, 419, 982,
                877, 194, 0, 304, 567, 382, 859, 456, 405, 510, 997, 685,
                670, 539, 872, 543, 382, 964, 863, 373, 343, 240, 272, 495,
                522, 464, 532, 984, 468, 538, 763, 702, 712, 107, 395, 746,
                558, 348, 442, 713, 925, 616, 419, 742, 554, 776, 289, 659,
                86, 677, 199, 733, 340, 706, 384, 851, 702, 5, 42, 52, 562,
                163, 300, 396, 390, 948, 561, 445, 827, 667, 679, 190, 413,
                639, 444, 526, 155, 601, 464, 419, 835, 787, 760, 314, 908,
                423, 291, 183, 613, 666, 143, 44, 99, 781, 284, 72, 947,
                924, 148, 131, 972, 374, 778, 449, 334, 340, 654, 281, 357,
                805, 307, 930, 56, 923, 474, 169, 768, 380, 313, 81, 95,
                845, 723, 263, 596, 71, 964, 61, 262, 526, 266, 431, 663,
                723, 971, 270, 840, 176, 14, 802, 352, 142, 212, 334, 742,
                344, 598, 575, 261, 221, 327, 489, 906, 460, 92, 20, 553,
                613, 509, 744, 452, 579, 144, 662, 879, 93, 648, 830, 734,
                788, 340, 192, 534, 377, 436, 658, 378, 298, 364, 675, 214,
                240, 39, 177, 707, 290, 110, 279, 151, 948, 534, 981, 197,
                800, 763, 515, 964, 468, 756, 733, 32, 488, 659, 147, 92,
                814, 419, 526, 834, 613, 997, 672, 938, 816, 305, 697, 318,
                83, 9, 504, 214, 519, 744, 253, 426, 80, 509, 722, 950, 516,
                190, 769, 824, 890, 144, 323, 226, 885, 641, 274, 465, 116,
                588, 425, 268, 969, 643, 81, 173, 569, 182, 355, 237, 782,
                281, 591, 78, 601, 468, 412, 825, 935, 83, 345, 870, 789,
                726, 865, 293, 680, 924, 590, 639, 666, 157, 270, 977, 703,
                45, 127, 336, 119, 411, 917, 335, 108, 158, 650, 964, 461,
                5, 927, 609, 415, 424, 467, 122, 472, 332, 257, 199, 534,
                766, 299, 980, 850, 674, 914, 658, 963, 21, 141, 180, 748,
                997, 452, 759, 666, 282, 290, 774, 229, 480, 462, 664, 486,
                342, 712, 523, 727, 674, 109, 700, 46, 823, 248, 506, 754,
                592, 901, 46, 174, 149, 885, 780, 359, 503, 490, 130, 600,
                456, 589, 487, 238, 409, 232, 70, 198, 636, 921, 466, 718,
                544, 176, 518, 612, 950, 536, 990, 960, 429, 949, 756, 86,
                368, 675, 559, 531, 54, 383, 516, 101, 965, 682, 189, 340,
                290, 738, 252, 675, 126, 519, 626, 25, 55, 438, 170, 292,
                910, 855, 313, 31, 512, 377, 840, 729, 526, 361, 108, 220,
                899, 177, 902, 557, 784, 416, 986, 177, 71, 688, 275, 375,
                175, 877, 524, 846, 782, 926, 374, 154, 149, 300, 479, 149,
                222, 286, 646, 28, 787, 21, 287, 92, 887, 728, 265, 226, 55,
                50, 933, 618, 63, 926, 336, 439, 785, 105, 889, 975, 772,
                757, 78, 827, 671, 580, 779, 995, 344, 683, 480, 700, 793,
                216, 608, 80, 657, 283, 379, 835, 628, 487, 85, 663, 760,
                863, 872, 26, 685, 272, 209, 969, 398, 446, 242, 957, 114,
                238, 647, 251, 116, 992, 148, 574, 920, 768, 953, 358, 349,
                732, 261, 119, 686, 444, 641, 899, 636, 549, 425, 437, 536,
                731, 909, 455, 744, 342, 371, 930, 553, 669, 519, 707, 461,
                634, 362, 388, 763, 352, 946, 683, 263, 416, 761, 898, 141,
                796, 92, 345, 43, 105, 750, 150, 745, 958, 179, 684, 739,
                89, 735, 889, 836, 603, 512, 488, 665, 147, 493, 475, 47,
                358, 586, 598, 907, 919, 522, 253, 413, 515, 351, 69, 680,
                359, 421, 668, 863, 337, 868, 525, 975, 186, 884, 501, 695,
                80, 162, 898, 434, 429, 674, 749, 340, 998, 383, 0, 328,
                972, 982, 171, 584, 416, 140, 911, 339, 638, 657, 368, 286,
                885, 340, 675, 55, 30, 338, 91, 483, 311, 802, 213, 68, 677,
                324, 586, 808, 965, 446, 779, 455, 132, 803, 629, 521, 912,
                170, 507, 548, 697, 423, 367, 823, 962, 945, 372, 610, 633,
                608, 221, 522, 101, 62, 270, 302, 11, 516, 710, 592, 45,
                741, 660, 50, 851, 90, 908, 546, 436, 30, 698, 299, 811,
                784, 750, 472, 849, 13, 11, 798, 327, 876, 658, 393, 584,
                671, 512, 470, 596, 540, 947, 808, 678, 604, 931, 539, 491,
                699, 663, 942, 54, 942, 369, 804, 143, 728, 794, 327, 450,
                550, 133, 668, 619, 97, 771, 732, 936, 563, 798, 662, 973,
                473, 559, 652, 134, 913, 179, 68, 839, 185, 993, 430, 169,
                59, 129, 972, 558, 549, 527, 435, 753, 83, 999, 421, 362,
                729, 153, 469, 810, 447, 810, 533, 982, 327, 975, 409, 328,
                744, 33, 812, 570, 320, 976, 65, 213, 749, 364, 76, 116,
                994, 528, 451, 917, 147, 462, 798, 425, 497, 173, 12, 680,
                975, 710, 278, 163, 316, 76, 436, 578, 842, 414, 116, 220,
                810, 627, 364, 372, 210, 309, 109, 397, 480, 822, 422, 978,
                541, 219, 649, 274, 987, 476, 499, 528, 719, 749, 665, 988,
                759, 898, 538, 45, 100, 925, 416, 476, 603, 601, 198, 923,
                784, 792, 137, 812, 973, 186, 8, 37, 746, 741, 459, 712,
                380, 61, 871, 955, 50, 242, 756, 972, 168, 950, 82, 708,
                512, 399, 268, 932, 971, 311, 948, 377, 967, 854, 253, 781,
                277, 992, 727, 643, 922, 721, 993, 733, 371, 326, 798, 615,
                367, 564, 251, 460, 237, 638, 294, 221, 412, 626, 186, 462,
                621, 878, 350, 816, 786, 968, 133, 643, 297, 136, 686, 120,
                329, 329, 107, 379, 351, 415, 478, 450, 304, 848, 862, 378,
                520, 206, 580, 978, 615, 300, 698, 208, 555, 937, 126, 821,
                222, 466, 370, 959, 265, 883, 601, 244, 969, 210, 530, 926,
                668, 616, 480, 751, 810, 779, 273, 625, 60, 669, 526, 517,
                686, 990, 286, 711, 28, 765, 56, 795, 489, 880, 508, 848,
                290, 45, 387, 950, 673, 765, 358, 929, 151, 337, 891, 975,
                134, 783, 532, 83, 623, 540, 563, 955, 531, 95, 921, 228,
                92, 414, 151, 511, 68, 508, 331, 758, 573, 204, 934, 315,
                670, 373, 45, 782, 876, 513, 351, 275, 646, 981, 270, 821,
                636, 696, 889, 399, 939, 956, 177, 916, 694, 65, 533, 39,
                811, 161, 915, 700, 163, 641, 138, 608, 984, 751, 663, 688,
                509, 634, 799, 38, 678, 362, 169, 423, 710, 460, 29, 783,
                687, 418, 126, 904, 483, 26, 355, 255, 698, 615, 871, 662,
                685, 412, 183, 163, 342, 772, 177, 166, 792, 265, 225, 616,
                2, 644, 797, 847, 650, 59, 253, 756, 17, 447, 120, 653, 943,
                722, 481, 573, 751, 109, 620, 114, 837, 89, 756, 822, 518,
                133, 368, 298, 40, 188, 82, 13, 624, 138, 166, 204, 758, 29,
                801, 298, 606, 818, 370, 815, 574, 598, 321, 2, 197, 729,
                216, 510, 866, 200, 143, 611, 733, 801, 814, 317, 192, 761,
                939, 102, 352, 168, 193, 427, 930, 696, 903, 442, 430, 574,
                183, 672, 379, 770, 373, 967, 991, 428, 50, 530, 236, 551,
                550, 13, 224, 857, 181, 270, 532, 850, 967, 976, 544, 186,
                655, 963, 670, 261, 386, 589, 377, 671, 477, 767, 852, 658,
                502, 444, 334, 590, 315, 37, 293, 121, 879, 322, 392, 167,
                657, 897, 193, 362, 736, 553, 76, 818, 559, 613, 433, 447,
                344, 208, 186, 902, 751, 307, 898, 425, 864, 546, 670, 221,
                322, 4, 0, 853, 485, 666, 208, 633, 394, 20, 280, 754, 598,
                945, 406, 956, 179, 816, 495, 227, 974, 438, 95, 940, 58,
                63, 204, 484, 799, 732, 281, 446, 722, 482, 53, 564, 874,
                33, 361, 837, 59, 115, 568, 778, 475, 233, 510, 848, 443,
                49, 740, 599, 122, 151, 18, 912, 239, 503, 19, 206, 226,
                378, 93, 48, 284, 928, 557, 309, 228, 638, 585, 417, 724,
                512, 919, 436, 546, 606, 296, 758, 486, 102, 893, 716, 89,
                462, 374, 977, 455, 521, 601, 812, 580, 413, 439, 65, 704,
                226, 490, 16, 646, 453, 615, 814, 794, 497, 48, 834, 698,
                524, 289, 91, 215, 594, 253, 957, 835, 197, 265, 659, 450,
                926, 884, 70, 600, 785, 797, 652, 480, 615, 148, 315, 107,
                715, 541, 747, 692, 487, 413, 807, 754, 575, 143, 67, 404,
                971, 99, 860, 161, 615, 960, 437, 393, 942, 204, 565, 764,
                408, 150, 735, 625, 709, 858, 700, 455, 493, 916, 513, 510,
                626, 265, 212, 643, 202, 352, 202, 762, 815, 691, 423, 111,
                508, 66, 512, 442, 988, 101, 547, 691, 718, 563, 849, 89,
                294, 375, 409, 587, 28, 756, 620, 88, 746, 231, 477, 853,
                178, 674, 190, 434, 520, 998, 114, 602, 610, 115, 256, 713,
                439, 584, 384, 869, 284, 211, 731, 942, 261, 191, 808, 385,
                873, 984, 969, 989, 619, 234, 153, 104, 739, 99, 359, 421,
                889, 171, 724, 621, 971, 311, 359, 272, 244, 445, 723, 812,
                599, 181, 215, 332, 128, 245, 810, 218, 952, 394, 737, 50,
                696, 44, 440, 834, 649, 550, 927, 775, 741, 833, 526, 834,
                448, 654, 395, 934, 252, 13, 206, 468, 4, 936, 823, 36, 674,
                278, 373, 100, 435, 168, 946, 875, 884, 27, 937, 917, 322,
                975, 863, 724, 601, 654, 570, 183, 199, 477, 35, 826, 669,
                575, 395, 337, 699, 126, 668, 695, 882, 198, 34, 49, 157,
                293, 852, 245, 639, 891, 911, 371, 335, 184, 32, 701, 238,
                247, 611, 791, 17, 773, 883, 354, 499, 361, 354, 188, 11,
                158, 141, 671, 507, 982, 487, 137, 770, 269, 627, 554, 498,
                409, 162, 599, 228, 630, 381, 588, 226, 303, 560, 575, 980,
                478, 528, 145, 689, 423, 263, 160, 57, 984, 737, 674, 521,
                230, 425, 104, 947, 122, 641, 958, 304, 467, 493, 808, 73,
                386, 474, 619, 319, 750, 702, 474, 496, 9, 361, 418, 305,
                852, 579, 80, 7, 260, 423, 676, 722, 747, 522, 223, 815,
                295, 177, 940, 550, 284, 584, 792, 860, 77, 808, 627, 889,
                489, 946, 953, 71, 308, 398, 788, 118, 980, 618, 164, 827,
                777, 699, 834, 720, 168, 316, 266, 595, 393, 14, 914, 845,
                689, 290, 736, 260, 985, 807, 213, 951, 400, 108, 104, 172,
                312, 324, 557, 770, 680, 779, 467, 321, 732, 153, 885, 321,
                828, 641, 121, 778, 575, 714, 238, 732, 644, 434, 556, 179,
                598, 740, 581, 875, 763, 277, 190, 623, 412, 500, 523, 50,
                169, 686, 940, 894, 447, 774, 918, 693, 797, 938, 339, 619,
                106, 818, 778, 700, 634, 265, 629, 388, 761, 947, 112, 491,
                155, 753, 269, 748, 429, 861, 799, 378, 431, 521, 997, 803,
                636, 159, 893, 370, 464, 969, 795, 737, 164, 134, 562, 162,
                154, 75, 634, 972, 9, 794, 203, 67, 186, 998, 134, 83, 365,
                306, 414, 829, 117, 657, 552, 725, 872, 131, 44, 323, 11,
                653, 803, 82, 276, 606, 188, 108, 395, 483, 916, 257, 106,
                8, 600, 705, 810, 537, 345, 761, 234, 701, 371, 209, 830,
                905, 239, 352, 167, 793, 162, 989, 316, 206, 75, 472, 728,
                256, 400, 141, 53, 239, 764, 659, 241, 727, 796, 324, 15,
                731, 228, 110, 1, 594, 833, 780, 710, 23, 759, 961, 151,
                387, 36, 245, 665, 252, 168, 297, 233, 891, 334, 862, 211,
                105, 769, 214, 445, 767, 264, 337, 856, 725, 252, 993, 10,
                257, 513, 437, 801, 135, 51, 632, 595, 972, 539, 223, 168,
                833, 325, 364, 637, 983, 163, 714, 167, 918, 916, 391, 699,
                730, 313, 55, 766, 207, 853, 412, 500, 19, 870, 122, 718,
                612, 18, 898, 608, 606, 563, 486, 847, 336, 285, 426, 962,
                101, 49, 577, 718, 501, 8, 914, 788, 409, 848, 54, 560, 388,
                634, 237, 626, 306, 987, 63, 514, 234, 742, 236, 909, 450,
                508, 225, 919, 356, 794, 225, 607, 153, 662, 290, 241, 396,
                707, 956 >>,
            z |-> << -5487, 3876, -9669, 3827, 555, 3827, -584, -5390, -584,
                28357, 8698, 5663, 4898, 5663, -5210, 5467, -963, -6459,
                1221, 10870, -10153, 9779, -7629, -13504, -7629, -13504,
                -4815, -4856, -4815, -4856, 2950, -6840, 3884, -6840,
                -10211, -2975, -10211, -2975, -6516, -2975, -6516, 15986,
                -7640, 4478, -2749, -2825, -12584, -2825, -12584, 11902,
                7765, -1671, 11496, 2214, -8821, -1071, -18955, -1071,
                -18955, -448, -18955, -448, -18955, 3393, -4927, -2020,
                -4927, -4692, -2647, 5647, -3959, 5647, 8174, -2545, 13247,
                -6576, -13730, 4648, -15067, -8154, 3803, 3872, 16529,
                -4845, 840, -9018, -1523, 18387, -1523, 18387, 3365, 4617,
                -2424, 4617, -2424, 4617, 2308, 4617, 2308, 4617, 2308,
                -7460, -5270, -10055, -5583, -3330, 440, -3330, -10191,
                4047, -10191, -4132, -1917, -1605, 286, -16496, -7113,
                -1332, -7113, -1332, -7113, -1332, -19528, 696, 11607,
                -3551, 3786, 17934, -12355, 12371, -8230, 654, -17260,
                -5967, 12852, 6256, -9402, 6607, 5399, -7804, 5399, -7804,
                1930, 3239, -15856, 10220, 8229, 7611, -2984, 7611, 11041,
                -14942, 11041, -14942, -6702, 9125, -826, 9125, -826, 8942,
                -2624, 663, -5286, 663, -5286, -709, -14582, 4915, -2928,
                -9699, 744, 13382, -5557, -11587, -6778, 15164, -2836,
                15164, -8100, -6951, -6837, 6630, 1673, -14397, -6232, 5029,
                2206, -23354, 6742, -999, -5264, -489, -9202, 561, -22058,
                5982, 17488, 8261, -13400, 8259, -5947, -19562, 19839,
                -7705, -2488, 15336, 7673, -14087, 3096, -14087, -6969,
                2721, 19436, 12842, 1467, 22085, -11861, -7449, 1412, -7449,
                1412, -7449, -17020, -2977, -10378, 3441, -11982, -13714,
                2659, -1985, -9394, -426, 2611, 124, 13652, -2249, -11122,
                -7394, 1315, -7394, -6387, -3242, -12414, 3578, -1213, 8683,
                3901, 4228, 7770, 3830, 10343, 3830, 10343, -9359, -13595,
                6767, 23199, 18670, 10668, -5018, 2082, 4635, -19091, -8046,
                2672, 4328, -1988, -17771, 1633, -18834, -25166, -13914,
                -377, 28336, -16740, 7349, 3136, 14796, 5957, 3812, 11303,
                14156, 5981, -45, 20300, -45, 20300, 11757, -5268, 1, 34496,
                -25294, 11187, -3887, -2472, 1079, -2472, 1079, 17939, 9117,
                13998, 7965, 6402, 8366, -8739, -8995, 5870, -602, 15733,
                -6346, -4560, 4035, 6785, 4035, 6785, -17288, -8251, -14196,
                2494, 2109, -7801, -18500, -7804, -14486, -4615, -2162,
                7370, -9184, -5823, 4294, -5823, 4294, -5823, 1869, 10733,
                -15277, -807, -15277, -8458, -11901, -4855, -6827, -8963,
                -6827, -8963, -3884, -11532, 12585, 23214, 9, 23214, -11604,
                -8950, -6087, -12990, -6087, -12990, 3596, -22352, -17369,
                -100, -5914, 13818, -2100, 13818, -6112, -1975, -15408,
                -16245, -203, -16245, 7539, 142, 6157, -6285, -5088, -6285,
                -9771, -4901, -9771, 4554, -13562, 8526, 13880, -295, 13880,
                -13810, 4677, -14761, 6483, 18710, -1395, 22483, 13005,
                1056, 12108, 4782, -8856, -14007, 8810, 14620, 7681, -4468,
                2460, -13621, 1117, -16931, -7734, -3706, -7734, -3706,
                -7734, 9439, -7734, 9439, -5154, 4380, -7945, 4380, -7945,
                -3234, -5362, 1096, 10400, 1096, 26822, -14813, -6116,
                12651, 8089, 20613, 13097, -3461, -4241, 9053, -2161, 11258,
                -8390, 11258, -8390, 5514, -12171, 4127, 1566, -5937, 3887,
                1407, -4804, 1407, -4804, 8960, -4804, 8960, -2770, 12088,
                -2929, 10175, 3641, 8418, -1166, -22778, -1166, -22778,
                -14502, -12209, -12270, 222, 10248, -3480, -9427, 6131,
                17026, 2887, 17026, -863, 17026, 14821, -11834, 8542, -5536,
                7613, 6535, 19268, 10927, -7021, -9099, -9724, 7509, 5412,
                4658, -5150, 301, -5150, 301, 14167, -6336, -9753, -8937,
                7787, -14259, 7787, -14259, 4686, -761, -8280, 8253, -8280,
                8253, -7673, 9210, -2691, -16541, 9957, -4146, -2379, -4146,
                -2379, 12963, 17044, -228, -12359, 4944, -9730, 3774, 10482,
                3774, 10482, 11877, -6529, -7690, 2719, 12719, -4697, 6267,
                -10868, 5520, 2160, -17862, 2160, -17862, -8300, -1588,
                -22236, -9558, -23076, -10216, 3881, -6227, 4028, -11006,
                5726, 10310, -4498, -5887, 2658, -5887, -2992, -15175,
                -5849, 8538, -5849, 8538, -5849, 8538, -3728, 2598, 18478,
                -888, 18478, 4861, 7508, 4861, 7508, 4861, 7508, 14284,
                21502, -13864, -12695, -966, -16441, -8219, -8173, 3615,
                9326, 8900, 8813, 8900, 8813, 8900, -3081, 3408, -21367,
                14857, 8696, -6222, 1715, -6222, 1715, 11682, -2621, 2487,
                -7056, -1338, -9352, -6835, 1065, -18709, -10841, -11005,
                -2683, -8312, -2683, -8312, -5591, -509, -5544, 11772, 6839,
                -2629, 6839, -2629, -12079, -1915, -12079, -1915, -12079,
                6653, -2286, 15328, -2844, 2315, -13380, -6048, -28, -6048,
                -28, -6048, -28, 15164, -5257, 675, -18908, -10592, 8921,
                5540, -5087, -4697, 4322, 9697, 4322, 9697, -4367, 27479,
                -144, 27479, 19065, 9208, 2540, -1337, 5379, -1337, 5379,
                -1337, -11215, -3597, -14997, -11272, 11382, -3702, 9407,
                14123, 1018, 14123, -4714, -4772, 4522, -4772, 4522, 849,
                4522, 12651, -23087, -4240, -14916, 6879, 5748, 622, -14029,
                -6852, -1699, -6852, 11686, 1870, -13164, -5728, 10200,
                -10349, -3245, -3796, 10833, -4969, 10833, -5651, -8619,
                -4945, 10276, 4766, -3323, 6186, 6783, -7138, 6783, -8277,
                1599, -21981, -8260, 1943, 2918, 1943, 28068, 26994, -13625,
                7482, 17605, 7482, 17605, -11080, -14095, 9673, -1741, 9673,
                3261, 6959, -2684, 10411, -2684, 10411, -2684, -110, -32257,
                -4754, -5561, 12385, -5561, 12385, 4936, 3707, -4342, 15990,
                860, 15990, 7121, 5362, -8255, 218, 19046, 218, 19046, 6398,
                -55, 26157, -55, 26157, -55, 26157, -16478, 5168, -14308,
                -17978, 1086, 27761, 14078, 6361, -3525, 25107, 7690, 16798,
                -47, 16798, 2043, 1556, -8978, 506, -5353, 506, -5353,
                -10697, -7492, -16310, 15148, -15005, 1719, 16106, -753,
                16106, -7178, -6094, -359, -8472, -2431, -6795, -11092,
                2163, 7508, 2163, 7508, -10583, -6975, -1075, -6975, 2679,
                15923, 6648, 8831, 120, 3508, 120, 3508, 9462, -8216, 3238,
                -6115, 14664, -8114, -7602, -7794, -16355, -6646, -14983,
                5186, 1384, -3655, -12996, -6747, -12996, 4168, -3761, 1689,
                -3761, -11617, -4776, 9231, -3140, -19441, 8923, 16284,
                -1096, -6973, -1096, -6973, 15466, -1286, 15466, -7578,
                -3808, -4113, -4199, -10770, -25814, 372, -25814, -6106,
                -4295, -7568, -6174, -7568, 1403, 3465, 1403, -686, -3474,
                636, 17579, -6962, 15711, -8693, 8729, 8559, -7262, -9731,
                204, 11262, 5698, -3758, 5698, -3758, -18058, 6828, 2377,
                -3864, 5513, 9802, 5513, -12904, -4331, -10844, -4476,
                -4818, 9329, -4818, 9329, -1710, 218, 2901, 218, 18579,
                3682, 644, -16227, -1729, -24237, 23874, 12982, 6364, -2064,
                -17435, -8177, -9686, -131, -1121, 24349, 17891, -5305,
                -19270, -3701, -19270, 7368, -17375, 2784, -17375, 2784,
                -17375, 11044, 7222, -23614, 102, -23614, -11527, 4778,
                -7321, -1068, -7321, 6380, -5618, 6380, -5618, 6380, -4183,
                17153, -10157, 7368, -2846, -6124, 5492, 3443, 5492, 4563,
                -1263, 6197, 7811, 10561, -16725, 12184, 1292, 18087, 1292,
                18087, -14988, 9884, 23160, 15638, 1579, 11576, -2083, 1955,
                -17165, -8173, 3524, -9299, 6274, 2824, 6274, -11776, 10774,
                10575, -12784, -4849, 2552, -11267, -8462, 2886, -8462,
                13168, -2407, -15865, -5832, 14278, -7885, 787, -12118, 787,
                -12118, 1981, -16421, 7391, -9637, 3931, -13139, -12776,
                -12140, -3631, 16559, -1905, 23251, -6978, -2361, -9594,
                1555, 8005, 1299, 17389, 17009, -9507, -10495, -157, -10495,
                11368, -5336, 11368, -5336, 11368, 14860, -6592, 4346,
                -3588, 7718, -1437, -17982, 5750, -24335, 10362, 3703,
                -6241, 2895, -16999, 2895, -16999, 3797, 10468, 847, 10468,
                847, 10468, -21931, 10468, -21931, 10468, 4223, -12363,
                7151, -1573, 13645, -1573, 13645, 4442, 8327, 1668, 8327,
                1668, 8327, 8359, -813, 8359, 5012, -6628, 5012, -6628,
                5012, 3826, -11547, -3517, -11547, -3517, -11547, 7616,
                -5454, 9726, 3401, 2744, 16719, 2744, 16719, 8116, 4899,
                3065, -1142, -9584, 2224, -5397, 2224, -5397, -14503, 1536,
                -14503, -22820, 4260, -14527, -5520, -14527, -478, -5601,
                -478, -5601, 12003, 5080, 12003, 838, 12003, 838, 12003,
                4774, -10895, 6966, 2540, 9924, 2540, 9924, -5558, -7043,
                -9251, -2044, -5712, -1026, -5712, -7819, -10549, 3366,
                -10549, -9152, 8264, -4313, -222, 26513, -222, 26513, 7386,
                3240, 5766, 3240, -18330, 8892, 22233, -15459, -5490, -1632,
                6411, 3450, -8832, 5072, 3775, 5072, 9895, 12572, 12971,
                2139, 12971, -6547, -4252, -11114, 3813, -11114, 10565,
                -12628, 5458, -7025, 7085, -4920, 7085, -4920, -2022, -4920,
                -2022, 14413, -6479, 6854, 3994, 14744, -9066, 5813, -1886,
                -11656, -5974, -11905, -5974, -11905, -3703, 11483, -5007,
                11222, -10416, 7617, -5520, -6762, -5520, -6762, -4324,
                -6762, -4324, -6762, -1795, -6762, 2268, -6762, 2268, 4122,
                626, 8604, 11665, -2123, -10252, 670, 15825, 7281, -6862,
                -5699, -5502, -5699, -5502, 380, -4883, 380, 565, 25852,
                5140, 25852, 17863, -15817, 10881, 7035, 7659, 6730, 1267,
                6730, 7127, 1670, 7127, 11621, -1525, 11621, -22707, -17527,
                286, 20613, -10478, 4024, 8589, 4024, 8589, 4024, 8589,
                11750, 8675, -15977, 2371, 12632, 2371, 12632, -2893,
                -14259, 5650, -4937, -2318, 12959, -2318, 12959, 5139,
                -7273, -538, -16291, -3166, 9958, 2671, -12232, -5768,
                -9840, 4720, -9840, 4720, -9840, 4720, -9840, 3803, 757,
                11057, 2580, 11329, -7681, 11329, -7681, 11329, 5450, -5310,
                3301, -5310, 9413, 1966, 12741, 1966, 12741, 5681, -4014,
                -17892, 10795, -123, 10795, -16773, 8825, -9352, -6972,
                -953, -12210, -953, -12210, 1656, -22643, -12452, -8736,
                893, -8736, 15611, -3341, 15611, -8674, 9982, 1077, 9982,
                1077, 9982, -2026, -4582, 4353, 979, -280, -27101, -280,
                -27101, -12071, -22530, -14730, 4743, 20192, 8497, 936,
                14365, -5938, 12006, -7263, 5681, -15614, -5571, 1116, 5713,
                -1459, 15998, 1710, -6754, -6655, -6754, 10962, -2772, 1700,
                5777, -264, -8196, -6183, 1677, -6183, -724, -3107, 7766,
                1111, 7766, -17904, 2379, -17904, -1317, -17904, -9966,
                -2079, 440, 3058, 17970, 3058, 17970, 3058, 17970, 3058,
                17970, -11862, -5112, -5709, 9880, 7112, -2146, -16686,
                -7724, 826, -19118, -12398, 4556, 14456, -1200, 14456,
                -9390, -8484, -5447, -5568, 11569, 1738, 11569, 4365,
                -10843, -1608, -10843, 1593, 8124, 5279, 5350, 5279, 7549,
                -4616, -12791, 115, -12791, 115, -12791, 5266, -6404, -5798,
                573, -18434, 5921, -1096, -14774, 9878, -1579, 9878, -468,
                16916, 11936, -419, 11936, 2911, -5328, -10553, -7573,
                17980, -10280, 4989, -6598, 1085, -20554, 10878, -16048,
                8653, -14967, -15007, -2949, 1953, 6145, 12812, -524, 12812,
                4010, 2198, -10041, 2198, 14896, 6804, 7670, 7892, -11715,
                -5641, 5619, 34726, 22, 34726, -5927, 218, 28848, -14069,
                6424, -8813, 7583, 5132, 699, -3712, 699, -3712, -1281,
                -3712, 2620, -3712, 2620, -3712, 728, -15038, -2213, -9430,
                -22074, 1732, -22074, 1732, -22074, -16474, -6291, -1426,
                1889, -1142, 11427, -1142, 11427, 1066, 78, -19758, -13476,
                -3513, 4274, 9119, 4973, -7443, 4973, -7443, 4973, 13570,
                -5428, -59, -5428, -59, -5428, -5972, -6973, -5972, 10420,
                -4406, -5167, 1735, 7153, 19552, -1314, -7682, 3986, -716,
                -1348, -716, -12008, 1965, -12008, 1965, -12008, 1965,
                -12008, 1965, -12008, -3952, 5973, -11229, -10244, 18646,
                2273, -411, -1873, 124, 18792, 8740, 12154, -10972, 12154,
                -10972, 8259, 13601, -2230, 13601, -10973, -13962, 18, 2078,
                18, 29817, 18, 29817, 15999, 2545, 19714, 11548, 6396,
                -2537, 15224, 5796, 16858, 12963, 6896, 2429, -4418, -4793,
                1565, 13521, -6254, -2723, -13096, 3964, 8540, -6568,
                -18325, -6568, -18325, -12662, 223, -12662, -4786, -13262,
                9094, 3162, 443, -2220, 443, 11838, -2580, -3627, 5101,
                8023, -4228, -1767, 9697, -2671, -7126, -28106, -90, -28106,
                -22015, 7559, -2077, -5462, 970, 5783, -1212, -14226, 6130,
                3735, 1460, 8013, 656, -12689, 656, -12689, -5080, -4064,
                -9902, -2180, -559, -11563, -559, -11563, -559, -11563,
                4209, 6802, 2777, 3921, 5498, 22409, -18438, -20538, 13691,
                -7523, -18566, 11240, 4612, -8319, 2686, 3822, 11252, -6828,
                -8652, -400, -16354, -6899, -3372, -17236, -5797, 11585,
                -5797, 11585, 2833, -11280, 1220, -2691, 16720, -6445,
                -7694, -6445, -7694, 2250, 1532, 17264, 9167, -6268, 12279,
                10077, -1136, 10077, -4001, -10585, 22577, 5932, -27243,
                14208, 9631, -1458, -2330, -1458, -2330, -1458, -2330,
                -13070, 617, 16297, 7237, -5021, -12118, 11772, 4878, 10875,
                2359, -777, -1402, 2839, -1402, 2839, -1402, -18517, 9485,
                3289, 1749, -7970, 1749, -7970, 1749, -21635, 11321, 4647,
                6842, 14951, -60, 14951, -60, 14951, -1043, 23393, 13945,
                -15446, -8828, 12783, -6199, 15453, -7377, -7972, -2657,
                15300, -7986, 3576, 8178, 3011, -3342, 3011, -834, -8480,
                -2367, 13077, 9983, -15723, -5885, -16223, -5127, -16223,
                6129, -1, 15405, -9907, 10005, -9907, 10005, 10527, 807,
                -20623, -11019, -6806, 4010, -1325, 3145, -1325, 17612,
                2057, 3424, 2057, 3424, -5379, -12029, 3023, 2640, 1664,
                -2328, 1664, -1091, 8422, -1091, 18334, -9210, -5434, -6035,
                5779, 516, -11406, 3633, -6708, -111, 17101, -6303, 13540,
                64, -9344, -1287, 4801, -892, 6890, 19676, 9345, 2819, 627,
                -14845, -4413, -789, 9184, -388, -11072, 3795, 16886, -63,
                16886, -7088, -5018, 3026, -162, -23398, 5675, -24914,
                10440, 1042, 20713, 16279, -6630, -2111, 4286, 3335, 9429,
                3335, 9429, -7279, 9819, 1720, 550, -7250, -1848, 1215,
                15160, -3659, 16881, 8016, 4860, -7304, 5949, 12744, 2748,
                -12333, 3621, -12333, 4918, 16656, 6472, 14499, -7369,
                -10307, -3237, 5960, -6744, -25751, 721, -25751, -12403,
                2494, 19365, 2241, 5813, -14237, -1574, 24250, -3133, -256,
                -3133, -256, 25006, -12857, -4942, 12140, 4079, 2588, 4079,
                3775, -5330, 12511, -5330, 18309, -3950, -1471, 8949, -5137,
                -874, 20979, 2519, -6620, -1449, -6620, -11633, 3905,
                -11633, 3905, -11633, 6279, -5866, -8047, -5866, -8047,
                3048, -4415, 12767, 4206, -14548, -10797, -5086, 2349,
                -5086, -14322, 13662, -984, 13662, 11787, 4161, -289, 8633,
                912, -3528, 11986, 12403, 4857, -9888, -1183, -2020, -1183,
                14359, -3477, -9091, -370, 3507, 18227, -12354, 14247,
                13658, -5845, 8189, -11339, -3931, 1181, 7942, 10418, -3154,
                10418, -623, 1785, -10018, 4322, -10018, 4608, -10018, 4608,
                16007, 1381, 16007, -5537, -21024, 16264, -13674, -9101,
                574, 27575, 574, 27575, 9183, 301, -22857, 14132, -8507,
                13086, 582, -2727, 582, -2727, 6414, -1325, 6105, -23113,
                14250, 9684, 12411, 7057, -13242, 4936, -91, 12308, -1949,
                -2496, 2436, -18082, -1307, -16466, 2374, 23675, -5767,
                -308, -289, 19279, 6779, -3476, -9397, 5789, -3531, 3080,
                3080, 3080, -1785, -6716, -10523, 15108, -10523, 15108,
                -5464, 8947, -2457, 1549, -32755, -8859, -2312, 14371,
                -6129, -3010, 13550, 8181, -2930, 3251, -11917, 4381,
                -11748, 4784, -1427, 21239, 4674, -5131, 4674, -5131, 9314,
                -10748, 8400, 3192, 12897, -1137, 1173, -1137, -2793, -3551,
                -2793, -3551, 10306, -6947, 16425, -10958, 5610, 6155, 4933,
                2126, 4933, 2126, 4933, -25067, -8038, 2406, -6156, -11269,
                -8820, 2742, -9633, 14238, -11395, 1094, -23777, -13478,
                6972, 9330, -2148, -4356, -2148, -4356, 18314, -941, 18314,
                7833, -11223, -4710, 1478, 19221, 11044, -3278, -3014,
                -3678, 4525, -3678, -12518, 11446, 7389, 9487, -9753, -1427,
                -11831, 4798, 5049, -16575, -3289, -16575, -5382, -10781,
                -1102, 20502, -7964, 5119, 8148, 5119, 8148, 5119, -1172,
                -6433, 5118, -465, 5118, -465, -15718, 7568, -7638, -16629,
                2445, -787, -8551, 647, -28249, 6273, -8414, 229, -8414,
                -12871, 718, -12871, 718, -12871, -5163, 2425, -23132,
                -3997, -5665, -9449, -3586, -9449, 3180, 3878, 11134, 3878,
                11134, 3878, 11134, 4658, 11844, 4107, 16112, -6431, -2758,
                8726, 1601, -19240, -9036, 2956, -21786, 83, -21786, -10748,
                -3377, -9946, 3854, 6665, 14980, -16918, -13237, -5681,
                -3402, -11640, 1376, -11640, 10970, 7443, -10374, -10137,
                1228, -10137, 12276, -9413, -11231, -5138, 963, -5138,
                -24197, 20920, -3735, -13218, -2868, -1858, -2868, -187,
                -2868, -4323, 10150, -4323, -733, 14356, -4083, -8714, 2040,
                6027, -5198, 8072, -9398, -7469, -7873, -11346, -7458,
                -11346, -7458, 3637, 3520, -4662, -8069, -4662, 725, -4662,
                5103, 3973, -6797, -1820, -6797, -1820, 8952, -1820, 8952,
                -2987, 3674, -2987, -16676, 1517, -16676, 5095, -6135, 967,
                -6135, 725, 9134, -2390, -12199, -4906, 13182, -4906, 13182,
                5941, 5991, -168, -5962, -168, -5962, -168, -5962, 964,
                -16164, 964, -16164, 964, -16164, -18426, 5614, 2998, -2346,
                2998, 17793, -25395, 16689, 14026, -425, 14026, 19276,
                -1308, 19276, -12061, -13798, 3224, -1558, -6431, -12847,
                3166, -4154, 3481, -3563, 6039, -3563, 4306, -3563, 4306,
                -3563, 22686, -10073, 1889, -11759, 3730, -2798, -26988,
                -17592, 11031, -2177, -8831, 6317, 2981, 6317, 8546, -10509,
                2615, -10509, -13392, -2551, -13392, -17137, 16963, -15594,
                -10221, -3558, 1296, 6887, 10561, -10045, 2380, -10940,
                -1309, -4705, -802, 15945, 12530, -6122, 8155, -8461, -6154,
                -7320, 5877, -4862, 4213, 1403, 4213, 1148, 13167, 4723,
                -13482, 7138, 4022, -2110, 5086, -2110, 5086, 5834, 5086,
                5834, 5086, 5834, 5086, -6962, -5597, -6962, -5597, -6962,
                -5597, -1925, -11236, -3803, -2828, -12335, 12300, -10475,
                3011, -10475, -12293, -10475, -12293, -10475, -12293, 565,
                -28305, 15823, 11838, -2432, -8012, 2469, 12152, 2469,
                12152, -4321, -12795, -18956, 12065, 6546, 2241, -13873,
                5631, -14598, 6695, 8908, -6492, 8908, -6492, 15059, 10695,
                -1356, 12655, 2430, 12655, 2430, 12655, -2984, -12726,
                -2984, -12726, 6052, 4354, -4008, 4354, -9215, -3006,
                -10541, -6199, 4382, -7400, -14193, -8731, -4454, 265,
                12034, 2247, 4203, -8914, -11869, 920, -11869, -1826, -7449,
                -1826, -7449, -1826, -7449, 2537, 7522, -3105, 7522, 4290,
                16697, 4290, 16697, 9626, -673, 1407, -673, -11086, -10332,
                3005, -10332, -2569, 7119, -2569, 7119, -6330, 7356, -12843,
                3030, -12843, -14739, -6651, -765, -1790, 8688, -2819,
                -1690, -2819, -6666, -839, 20793, -17185, 11729, -17231,
                -9903, -6841, -1791, 14801, -1054, 6080, 245, 20590, 245,
                20590, 12018, 4542, 6908, 4542, 6908, -7290, 6908, -7290,
                6908, -7290, 13035, -7091, -3903, -22215, 3555, 14192,
                -9169, 14192, 2313, 1632, 13203, 455, -25835, 16591, 702,
                -15796, -818, 28911, 4229, -5034, 589, -17720, 10119, 2677,
                -2167, -3023, -8336, -3023, -8336, -3023, -13929, -5882,
                11438, 7724, 6592, -3806, -1130, 8807, -1377, -4898, -1377,
                -4898, -1377, 15440, 7627, 4498, 3244, 5628, -4890, -899,
                12103, -2236, 13496, 3242, -3452, 1363, -3452, 1363, 20757,
                -8800, -2941, 1904, -1655, 1904, 1325, 3292, -15739, 11883,
                782, 11883, -5080, 3431, 15252, 3431, 15252, 13589, 11084,
                2941, -3363, 6770, -7591, -6804, -12361, 26038, -205, 26038,
                17090, 6330, -19087, -7305, -17448, 7863, 15987, -13082,
                9283, -3158, -3670, -1657, -11910, -2143, -20029, 13340,
                416, -2890, 7061, -5660, -530, -22677, -530, -22677, -3838,
                918, 4239, 918, 1676, -4044, -3280, -6132, 7930, 3489, 7181,
                -10958, -12591, 590, -12591, 590, -12591, -13975, -802,
                -13975, 1385, 11569, -13050, 2112, -13050, 2112, -11630,
                -2834, 9845, 874, 9845, 12647, 663, 12647, -4633, -11337,
                -5478, -6890, -2008, -7764, -29, -17030, -2844, 23218,
                -11901, -14027, 25432, 915, 25432, 915, 25432, 915, 25432,
                -3931, 751, 16566, 9761, -18112, -650, -18112, 5194, 9042,
                666, 9406, -3007, -6365, -850, 2480, -850, 6863, 8322, 6616,
                8322, -8418, 1903, -5474, -2532, -13045, -2532, -13045,
                -2532, 16078, -8498, 8544, -9778, -1000, -3671, 10574,
                -3671, 10574, -3671, -5163, 1821, 20730, 11128, 6932,
                -10433, 6221, -18009, 14160, -4920, 15802, 2708, 7160, 1684,
                9505, -5405, 12380, -8170, -7845, -2428, -2754, -12218,
                4069, -12218, 6811, 7551, 13464, 2710, 13464, 2710, 13464,
                -6247, 9207, 3620, -5449, 2610, 3479, -7965, -1140, -18229,
                -1140, -18229, -6573, 3369, -12350, -1013, -12350, -1013,
                -12350, -1662, -1944, 18424, -16755, 5372, 5205, 5501, 5205,
                9191, 5205, 9191, 6594, 2060, 6594, -648, 6594, -648, 6594,
                -648, 9394, -2928, -5062, -5105, 5863, -5105, 1190, -23498,
                -13161, -5198, 1229, 14904, 1948, 3674, 1948, 3674, -4517,
                1929, -7756, -3505, -6489, 3905, 984, 442, -3165, 442, 4055,
                578, 10292, -4054, 5211, 3626, -21481, -756, -21481, 9535,
                -15638, 2439, -15638, -7781, 6403, 736, 6403, 2174, -13650,
                10733, 4441, 1269, 8957, 3240, 729, -15239, 6970, 3293,
                1324, 10732, 16263, 166, 16263, -6627, -10129, -4602, 9627,
                -9896, 1903, -9622, 3172, 8550, 15845, 2722, 3029, -21155,
                -6937, -21155, -109, -21155, 15521, -7091, -6659, 7464,
                -6659, 7464, -6659, 3378, -1567, 8735, 9506, 365, 9506, 365,
                9506, 365, 9506, -27578, 390, -27578, 17952, 13410, 4301,
                15663, 8201, 4984, 233, 4984, 10828, 51, -20039, 11336,
                11793, -4488, 7864, -6937, 7864, -6937, 2829, -12884, 2829,
                -12884, 2564, 13043, 2365, 13043, -3959, -4254, -3959,
                -4254, -631, 20083, 13660, -8630, 3140, -10604, 6916, 2394,
                6916, 2394, 7228, 1747, -3708, -15086, -6567, 2462, 12173,
                -1580, 12173, -1580, 12173, -1236, 25536, -11853, -3830,
                4087, -2828, -3726, 2990, 1060, 2990, -18861, -9254, 15076,
                12326, -5767, -17157, -7219, 4236, 13945, -6442, -2255,
                -4224, -2255, 20840, 11967, 4896, 2679, -4223, 8267, 16158,
                -1208, 16158, 11670, -4323, 2058, -4323, 6698, 2629, 6698,
                2422, -7105, 5384, -7105, 7018, 10199, 7018, 10199, -12592,
                179, -12592, -8946, -3608, -8946, 4191, 3659, -2836, 3659,
                -3621, -238, -15673, -238, -15673, 7525, 5044, 14738, -3447,
                19393, 9696, 20382, 2391, 20382, 2391, 20382, 2391, 20382,
                -10327, 3878, -7427, 351, -8122, 2134, -10318, -9206, -2982,
                7552, -2027, -10419, 7883, 1869, 5572, -3961, -5149, -9748,
                3985, 409, -14736, 409, -14736, -5414, -4261, 2809, 16839,
                14543, 8241, -6236, 8241, -6236, -12898, 5132, -7225, 3811,
                -2353, -6662, -2353, -6662, 7877, 2783, 7877, 2783, 7877,
                -6126, 8275, 3856, 4957, -10400, -11475, -6241, 5838, -6040,
                6102, -9593, 6443, -11708, 6443, -11708, 3692, -11708,
                -7877, -8440, -11871, 2444, -7355, -2926, -7355, 3994,
                15810, 1822, 15810, 8762, -1872, 12082, 10191, -2505, -9122,
                28405, 509, 28405, -18109, -5564, 1344, 4997, -15542, 59,
                -15542, -827, 8810, -2499, 10562, -2499, 10562, 1973,
                -10611, 3328, -12460, 1544, -9542, -2780, 8227, -17728,
                21279, 3632, 28708, 266, 28708, -23834, 15070, -2853, 994,
                -2853, -7397, -6782, -4324, -6782, 2024, 10662, -545, 10662,
                3231, 12201, -848, -11525, -848, -11525, -2497, -18245,
                -16018, -11839, -9482, -339, 15060, -6973, -5945, -3182,
                -16249, 9265, -12239, -3826, -1107, -3826, -1107, -3826,
                -1107, 2328, 9004, 4495, 14688, -6005, -3084, 8262, -3084,
                8262, -13546, 5116, 5002, 854, 3671, 854, -17591, -9340,
                -10575, -599, 12593, 668, 13536, 3688, -10379, -4104, 8841,
                3034, 22268, -12022, -5555, 10889, 6148, -11493, -6672,
                -10594, 867, -10594, 867, -10594, -885, -24785, 12250, 5023,
                -2704, -6832, -2704, -6832, -7610, 11352, 13007, 3426, 2395,
                -16907, -15490, 3937, 5448, 2476, 5448, 610, 5464, 2504,
                -9940, 2504, -12458, 1401, -4175, 6564, 3234, 11390, 7098,
                -19295, -6888, 790, 4257, 16634, -8368, 16634, -8972, -3027,
                -4351, -3027, -4351, 2734, -18784, -11803, 5052, 3632, 5052,
                3632, 3521, -27447, -17812, 3551, 14249, -6430, 6774, -3472,
                1133, 9175, -341, -10696, 2346, -12168, 2272, 3770, 6152,
                13875, -3557, 7523, 1736, 7523, 1736, 7523, 15575, -2588,
                15575, -2588, 15575, -2588, 15575, 9128, -3689, 7360,
                -14255, -2010, -14255, 17411, 9951, -13263, -12098, -3145,
                -16892, 2953, -16892, 9814, -11853, 7963, -7757, -16838,
                6067, -2996, 2243, -2046, -9737, 3007, -6114, -728, -6114,
                2822, 4207, 2822, 8026, 12201, -2776, 12191, -3373, -10174,
                -3373, -10174, -3373, -10174, 12558, -7135, 9863, 4677,
                9863, 4677, 9863, 3567, -8102, 10254, 3767, 16091, 171,
                16091, 8223, 18854, 1437, 18854, 269, 18854, -6937, -9855,
                6709, -12246, 6709, -12246, 6709, -12246, 6709, -12246,
                6709, -12246, -5271, 6131, 7531, 2954, -10886, -2154,
                -15334, -8446, -941, -8446, -13142, 7834, 4027, 3338, 10246,
                3338, 10246, -7462, 25589, 18884, -10662, 3415, 16470, 4406,
                -12024, -3946, -12024, -6419, 9972, -5695, -7980, 2097,
                9092, 2097, 9092, 1144, 6762, -1443, -670, 31468, 8591,
                -2040, -15732, -282, 7169, 24588, 7, 24588, -5233, 22648,
                8932, -1282, -3447, 1523, -7556, 1523, -2855, -14737, -2855,
                -14737, 9217, 139, 35118, -22937, 13929, -6605, 23775,
                15060, -19126, 17988, -8287, 2842, 14521, 8932, 4708,
                -14134, 6455, 7966, -1476, -15236, 7309, 9381, 8976, -468,
                12290, -2695, -17175, -6087, -6669, 4211, -6669, -8531,
                -6446, 10687, -6741, -12648, -8494, 4401, 11476, -10373,
                -1786, -10373, -1786, -20354, -11520, -14679, 9643, 7323,
                14878, 4299, -1272, -9042, -286, -21480, -286, -21480, -286,
                -21480, -1192, -7199, 6863, -7199, -2934, 9661, -10563,
                -5013, -10563, -5013, -10563, -5013, -10468, -5156, -10468,
                -5156, 13500, 745, 13500, -6152, 11043, -6152, 11043, -6152,
                11043, -5633, -5744, 6757, -5744, -7337, -2720, -12934,
                5376, 6067, 7227, 1547, 4824, 1547, 23634, 29456, 10601,
                -2366, 14044, -7276, 6813, 8418, -2679, -13492, 2715,
                -13492, 2715, -13492, -12229, 6586, 4419, -7122, 8623,
                -13024, -7231, -6929, -5525, -6929, -5525, 4884, 2957, 4884,
                8651, 241, 1520, 241, -11426, 3691, -11776, 6511, -1684,
                15777, 5672, 164, 5672, 164, 5672, 1121, -5037, -12111,
                -2157, -12111, -3248, -12111, -3248, -12111, 5415, -7605,
                5495, 17304, 1057, 9003, 1057, 9003, -12879, -4545, -12879,
                -13386, -2806, -2409, -14366, -9277, 3050, -1764, -7338,
                363, 29434, -8614, 1467, -4844, -382, -8381, -3384, 13598,
                -2594, 13598, -512, -2273, 15526, -2273, 15526, 3458, 7845,
                3458, 7845, 15661, -11265, -6647, 9153, 15955, -635, 15955,
                -6306, -14705, -9409, -2166, 5962, -10742, -4606, -10742,
                -4606, -10742, -7132, 6134, -13820, 8266, -9586, -5659,
                -5967, -18267, 12723, 1261, 13606, 1261, 13606, 5738,
                -10260, 6246, -4229, 652, -22512, 12251, 13056, -865,
                -14135, 2196, -22259, 10187, 3367, -4004, 15681, 6651, -528,
                -4113, -557, -11194, 12797, -5180, -7501, 7207, 7102, 12376,
                -4124, -11185, -3545, 5275, 5895, 5275, 5895, 2910, 8562,
                5380, 8562, 5380, 8937, 3535, 8937, 3535, 8937, -4019,
                -10823, 3934, -9605, -3452, -4388, -3452, 24554, 7261,
                -2140, 3825, -2140, 15795, 7436, -9346, 845, 19665, -5305,
                -3977, -141, 29100, 17630, -2745, 12219, -2745, 12219,
                -3879, -7755, -3879, -7755, -8189, 6817, -4577, -16673,
                -14864, -7542, 8314, 2796, 157, -20026, 157, -20026, -15266,
                -11852, 4606, 18755, 867, 18755, -10471, -8779, -3780,
                -5044, 3601, -5044, 982, -5044, 982, 10701, 982, 10701,
                -3870, 8242, -7529, -683, -7529, 2204, -12656, 2204, -12656,
                11304, -18856, -15212, 4612, -2534, 4612, -2534, 3519, 3673,
                -2300, 3673, 4439, -2298, 8020, -2298, 6063, 5329, 6063,
                -4173, 6063, -4173, 5280, 4663, -2329, -611, 2969, -611,
                2969, -611, -10971, 1967, 19552, 12226, 31489, -48, 31489,
                -48, 31489, -10950, -376, 1688, -19266, -2181, 18575, -2181,
                18575, -10018, 5155, 14941, 175, 14941, 175, 14941, -6737,
                -8558, -7457, -5120, -7457, -5120, 6275, 6176, 1738, 6176,
                1738, -8488, 1738, -8488, -2712, 2235, 7694, 1647, -12001,
                -5297, -5870, -7339, -6860, -2396, -6860, 3090, -14658,
                -1747, -14658, 9780, -5760, 7293, 1297, 7293, -607, 23762,
                -607, 23762, -4631, -58, 14241, 5901, 5556, -12753, 7368,
                8854, -8722, 5994, 819, 20211, 10875, 5518, -440, 23253,
                -440, 23253, -9484, 2928, -6430, -10094, -12067, -6479,
                2920, 2804, -181, 5705, -1350, 5705, -24751, 910, -24751,
                10021, -2287, -11775, 506, 8036, 4336, 12934, 4336, 12934,
                7782, 3771, -1028, 30292, -6106, 542, 17719, 542, 17719,
                11113, 6766, 8605, -1148, 19842, -8963, -5744, -4451, -5744,
                -4451, 2368, -1369, 13394, -4030, 12237, -2586, 1731,
                -20039, 3691, -7339, -9670, -7339, -9098, -146, -11874,
                -1972, 19329, -12496, 11263, -6950, 2121, -6950, 2121,
                -19484, 13683, -2000, 926, 8352, 3261, -6406, -2496, 9327,
                -2496, 9327, -5478, 10638, 5810, 10638, 5810, 10017, 5638,
                -9945, -5314, 1792, 14784, 8386, 14077, -1192, 23122, -6357,
                -14759, 5540, -14759, -8426, -17692, 8877, 5834, 12597,
                -384, 12597, -384, 12597, 11493, -2910, -16047, 1660, 667,
                5230, 667, -5615, -7988, -5615, -3049, -8683, -20670,
                -18196, -10040, 2470, 1917, -19022, 7816, -19605, 20664,
                14106, 1123, 1617, 8458, -8547, 8458, 4507, 8458, 4507,
                -12362, -9171, 2964, 6125, -2176, 6125, -19852, 6125,
                -19852, 10057, -1379, -22719, 2770, 1517, 4649, 11205, 4649,
                10668, 1244, -22043, 4001, -14822, -3370, -14822, -12126,
                -8047, -325, 34445, -26379, 20673, 3430, -227, 23328, 15693,
                7774, 10576, -5906, -2341, 14535, 3828, -19755, -7570,
                17446, 3989, 1868, -12845, 15541, 3683, 14862, -7314, 9668,
                -6502, 2576, -10311, 6410, -8520, 12739, -8450, 10415, 4560,
                -12083, 879, -12083, 879, -12083, -5035, -8264, -15899,
                5508, 853, -17914, 12627, 5052, 12313, -9995, -3578, 17933,
                -8110, 12526, -12129, 3243, -8163, -24181, 11854, 4577,
                6766, -7752, 6003, -1591, -16891, -8775, 4227, 15786, -8849,
                1639, -7120, 1639, -7120, -3720, 12798, -763, 12798, -763,
                12798, -763, 12798, -2680, -19698, -12212, 12504, -12914,
                -8801, 11380, -6069, 4398, -486, -12789, -486, -12789, 5056,
                -5909, -15224, -5434, 4799, -9526, 4799, -9526, 6195, -7016,
                -446, 1921, -446, 1921, -17286, -4795, 18796, 12429, 7370,
                -3443, 7370, -3443, -5495, -9362, -5495, -9362, -3649,
                -6369, 12081, -8048, 10639, 14395, -15862, -8441, -6834,
                -1295, 9106, -865, -8922, 21299, 413, 21299, 2069, 16899,
                -3158, 22365, -10981, 4125, 8025, 10349, 2621, 10349, 5313,
                8455, -6246, -10759, 1541, -22522, -10456, 19231, -11661,
                -14866, -9498, 14257, -10773, -6848, 5573, -10325, 5573,
                -10325, -6160, -3272, -7430, 3695, 495, 3695, 6251, 5623,
                6251, 935, 5423, -361, 16114, 8128, 21276, -127, 21276,
                -9230, -3282, 8377, -3282, 8377, 12574, 3774, 4485, 10922,
                4485, 10922, -5699, 10922, -10665, -5646, -14982, 23,
                -14982, 999, 16806, -8555, -4675, -7886, 189, 17984, -13817,
                233, -13817, 5837, 6329, -4286, -11008, -4286, -11008, 3881,
                3062, -13443, -2683, -10159, 2203, -15497, -16187, -6604,
                776, -6604, -12841, 2644, -12841, -4987, -12523, 7458,
                -7099, 6700, -7513, 1774, -7369, -24410, 12129, -2386, 8665,
                -2386, 8665, 3051, 6821, 6583, -4105, 10198, 5206, 1572,
                17573, 14008, -9372, -4884, -1273, -7965, -1273, -7965,
                -3660, -7965, -2235, 7790, -2411, -7468, 2869, 4376, 2869,
                -432, -1800, -13846, 1752, -13846, -16266, -10463, -10512,
                -763, -20506, -11954, -7916, 1609, 15633, -7656, 4388, 6024,
                4388, 6024, 2471, 2696, -2703, 5654, -2703, 5654, 15737,
                -40, 15737, 7510, -12324, -9843, 9652, -7152, -1154, -27736,
                20289, -1772, -21378, 12821, 2038, 17600, 9086, -7216, 3297,
                -1670, 446, -5486, 446, 16424, 5326, 8603, -3091, -6112,
                -3091, -6112, 2566, -6112, 628, -36431, -10966, 2700, -9875,
                22795, -3719, -16081, -5053, -14307, 5298, 6601, 5298, 6601,
                -652, 17862, 3610, -12945, 746, 24021, 5287, 520, 2554,
                6075, -808, 6075, -2279, -2792, -2279, 14522, 6386, 13198,
                -6709, -1453, 3294, -9509, -9883, 218, -9883, -5470, -12755,
                10120, -8810, 8180, -7912, 549, 23112, -2602, -12414, -896,
                -12414, -5311, 5179, -23561, -4347, -23561, 130, -23561,
                10687, 4948, 2006, -22093, -8120, -2278, 2615, 1275, 14464,
                1275, 14464, -4055, 2321, 2066, -11202, 2066, -11202, -7894,
                -11271, 1004, 676, 12052, 4228, -10425, -1930, -10425,
                -1841, -4598, -1920, -11889, -4168, -7285, 9191, -2176,
                -9301, -5151, -9301, -5151, -9301, 3309, -9301, -8692,
                -6106, 1725, -6106, 1725, -6106, -7143, -2153, -7143, 14337,
                -2600, -1845, 7374, -1845, 7374, -1845, 8380, 5099, 8380,
                14126, 13072, -2145, 13072, -2145, 18962, 9641, -6270, 5044,
                -7314, 2318, -12798, -8142, 10969, 4122, -2326, -8659, 2498,
                11794, 5428, -8674, -11314, -8674, -11314, -8674, -11261,
                -853, -11261, -15707, -2977, 6989, -2977, 6989, -12760,
                -5048, 2378, 7800, 2378, 7800, 432, -13725, -1356, -13725,
                12906, -9118, -5590, 3592, -5506, 20353, 7652, 2648, 7666,
                -21775, -16477, 14069, 17201, 4336, -957, 16433, -7951,
                -11998, 6260, 923, 19393, 2339, 18647, -3385, 21724, -13999,
                -12834, 13768, -6935, 4720, 1436, -11332, -5535, 14726,
                3620, -3606, 3451, -3606, -2616, -3606, -6343, 2809, -6343,
                4579, 5468, 11221, 5468, 11221, -3902, 2341, 5227, 2991,
                3467, 2991, -24669, 20986, -9077, -221, -33360, -6229,
                -1362, 11011, 17349, 8174, -16715, 453, -16715, -5341, 4800,
                -21854, -5805, 2041, -10869, -10438, 18008, 8557, -3903,
                8530, 767, 4452, 29, 1422, 29, 19396, -5037, -1489, -18853,
                -1489, -18853, 18325, 11546, -7809, -16885, 3096, -16885,
                3096, -16885, 3096, -16885, 3096, -16885, -10737, 12138,
                -2558, 12138, 13965, -12112, -14146, 6244, -3260, 12800,
                -4006, -6701, -513, -6701, -353, -19660, 9888, -5875,
                -11740, 1992, -11740, 8560, 12865, 14745, -579, 14745,
                -2395, -10874, 2766, 5038, 3784, 8731, 30146, 295, 30146,
                18444, -6713, -18836, 11062, -1517, 13668, -1517, 13668,
                15874, 13023, -13340, 1202, -9455, -9215, -1031, -9215,
                18499, 100, 18499, 7061, -5406, -4101, 8152, -4101, -21834,
                1009, -21834, 1009, -21834, -4610, 9219, -10741, 9219, 5547,
                6943, -1818, 11859, 7881, -6113, 7881, -6113, 7881, 3485,
                -10926, 14217, 17557, 1503, -30508, 24215, 9638, 6511, 9465,
                5840, 9465, 6685, 686, -6491, 19148, 10311, 4507, -1616,
                11787, -1616, 11787, -3864, 4404, 8541, -6232, -5565, 19973,
                -10889, 3876, 10891, -7995, 1912, 7554, 1844, 1019, 13755,
                5945, 26094, -255, 26094, 19661, -8908, -3787, -12262,
                -3787, -12262, -3787, -12262, -168, -12262, 17593, 542,
                17593, 542, 17593, 14259, -25842, 15580, -2680, -18649,
                13589, -18649, 13589, -7198, -1066, 13666, -2258, 13402,
                1459, 3597, -665, -17229, -665, -17229, 11751, 2960, -18138,
                2960, -18138, -7213, 6895, -7213, 6895, -7213, -6488, 109,
                -25615, 109, -25615, 8295, 14168, -1229, 14168, -3398,
                -1095, -13064, -10152, -7771, -10152, -7771, -10152, -7771,
                -4921, -5191, -1162, 19700, 11563, -2861, -9594, -2705,
                6303, 4796, -14513, -13639, -12392, -6663, -6757, -2346,
                -4783, 13206, -2988, 3538, 355, -14894, 6331, -13068, -613,
                -148, -613, 33843, 17895, 9589, 7909, 3728, 906, 3728, 906,
                -6051, -1453, -7237, -1453, -7237, 24242, 15529, -12760,
                6479, -4150, 6479, -4150, 2720, -2804, 8516, -2804, 8516,
                -2804, 8516, -2804, 17977, -8302, -5977, 7964, 2351, 7964,
                2351, 7964, 2351, 1099, 2351, 1099, 2351, 1099, -25083,
                -15154, 2449, 3067, -1428, 3067, -1428, 3603, 8084, -4364,
                8084, -7130, 8423, 6396, 8423, 6396, 2025, -7644, -14744,
                -7644, -14744, 10536, 4827, -15431, 9624, -15799, -2604,
                -15747, 6745, -13909, -9783, -4421, 17823, -11633, -1602,
                22398, 9105, -3322, 10807, 5344, 3574, -13674, 3574, -13674,
                -7504, 4111, -7353, -3522, -12083, -7246, -2612, -15193,
                -10206, -6550, -27367, -18480, 8265, 3877, -3288, 3877,
                -14510, 3731, 3405, 584, -15199, 10672, -9744, 2684, 7033,
                -5275, 1595, -5275, -1823, -22237, 4115, 2467, 5582, 2467,
                -14361, 1551, 7908, 1551, 7908, 2171, 10719, -4002, 16487,
                7353, 5665, -7214, 7883, -5763, 1762, 3250, 18194, 19723,
                10045, -525, 10045, -525, 10426, -525, 10426, -525, 10426,
                244, 11997, -4678, 5260, -1238, 5260, 1330, 11279, -6694,
                6049, 7497, -4319, 7497, 3418, 1705, 3418, 1705, -8448,
                2129, 7312, 23100, 5751, 420, -9105, -2408, -1768, -2408,
                -1768, -11200, 391, -7655, 150, -20827, 11643, 4316, -13664,
                11236, -1878, 11236, -11019, -4668, 380, 3952, 380, -21920,
                -13139, 8636, 7915, 4672, 7915, 4672, 14121, 6605, -2329,
                6298, -4044, 2446, -4044, 2446, -4044, 569, -5603, -8499,
                -4254, -8499, 2478, -8499, 4360, -9367, 3058, 1648, 12589,
                7786, 12589, 981, 22812, 11815, -10879, 743, -10879, -10661,
                -2809, 16838, -3379, -4767, -7585, 6842, -7585, -10105,
                -4682, -378, -4682, -611, -12948, 8560, 8844, 9588, 3680,
                12651, -8033, -12482, -4076, -4617, 11781, -6278, -3947,
                4557, -6696, -8659, 5624, 11559, 4545, 11559, 4545, 4190,
                -5058, -10223, 8411, -10223, -370, -10223, 3357, 4777, 828,
                -1512, 26581, 15408, -4536, 2638, -8816, 1890, 6865, 1890,
                6865, 774, -11102, -3383, -14297, -1775, -9799, -1775,
                -9799, -1775, -9799, -1775, -4512, 6480, -6296, 8311, -6296,
                8311, 11951, -4605, 11438, 3013, 18912, -16548, 6359, -8726,
                6359, -8726, 573, 11133, -2966, -4098, 3217, 14670, 8227,
                5346, -5667, -9945, 6000, -2821, -10359, -2821, -10359,
                -4350, -3143, 7286, 1963, 5928, -1276, -20195, 18468,
                -12754, 5468, -10671, 13220, -6092, 3433, -6068, -224,
                -6068, 440, -15839, 3048, 19487, -3004, -2758, 5058, -2758,
                -5747, 2483, 11814, 390, -13404, 390, -13404, 5328, 2812,
                751, -11864, -6833, 13826, -17649, 15096, -2677, 15731,
                5566, 4153, 374, -29661, -19459, 9440, -16942, -1096, -9689,
                -6749, -9689, -3572, -9689, -11417, 4754, 7362, 13450,
                -5159, 13450, 3779, -7867, 20659, 2419, 20659, -11694,
                -16515, -19991, -11375, -5762, -8198, 2415, -8198, 6293,
                -1693, 10631, 1408, 19665, -11130, -6922, 20839, -490,
                20839, -490, 20839, -10962, 5563, -12857, -2666, 5633, 9560,
                5633, 5928, -1265, 5170, -174, 4518, -174, -15564, -8860,
                -539, -8860, -781, 14280, -781, 14280, -781, 14280, 6452,
                -9160, -4289, 17159, -1411, -6701, 915, 10314, 10397, -929,
                10397, 1735, 14500, 1735, 14500, -1347, -15723, 617, 12007,
                -1877, -6151, -9600, 6175, -9600, 237, -1703, 237, -1703,
                237, -3998, -5822, -6392, -5822, -7761, 3645, 1005, 3645,
                1005, -18392, -10482, 6387, 11120, -16660, 16127, 954, 8345,
                -1210, 16090, 22124, -15641, 10169, -853, -9565, -4819,
                3145, -4819, -796, -22166, 2074, -373, 13345, 24541, 12343,
                3312, -17552, -14317, -7190, 1726, -9887, -514, -3642,
                21886, -6573, 21886, 11892, 5292, -132, -6385, 2350, 5119,
                2350, -18400, -5179, -842, 4516, -14931, -4277, -6340,
                -4277, -6340, 8466, -6229, 7764, 1604, 13365, 1604, 13365,
                6332, 5795, -2823, 23720, -10420, -4463, -6832, 3197, 3463,
                16350, 8370, -1303, -26100, 12894, 6063, 4536, -10996, 3842,
                -1504, 3842, -1371, 3724, -1371, 3724, 4448, -729, -20416,
                5982, 15122, 3077, 15122, -4968, -11013, 4602, 7440, 14520,
                7430, 4314, -4086, -4390, 8548, 269, 23170, 23313, -13956,
                -8475, 5944, -11585, -5667, -11473, 6356, 6828, 5728, -6985,
                -9462, 213, -7521, 212, -28638, 2485, 18743, 1102, 18743,
                11094, 4928, 11524, -8881, -2605, -8881, -12806, 16256,
                -4011, -7534, 6402, -7534, 2115, -8306, -1305, 11740, -2876,
                5323, -10189, -2806, 8455, 818, 16109, 2433, 16109, -9050,
                -3267, 8686, -4925, 20349, -18079, 9641, -3971, -9183, 6864,
                355, 5212, -7906, 5212, -4495, 9513, -13408, -5857, -13408,
                -5857, -13408, -5857, -4500, 2903, -4500, -2674, -10456,
                9371, 7811, 5383, 7811, 3125, -13470, -10374, -13470, -9206,
                -3376, 17128, 8373, 3938, -12164, -5302, -6530, -8242,
                -3661, 7234, -5635, 14768, -1235, 14768, -1572, 1114, -1572,
                -752, 12219, 4539, 6922, 7679, 7145, 7345, 7145, 1014,
                12578, -1886, 20101, -11096, 6515, -1667, -1542, -1667,
                -1542, -1667, -11884, 675, -11884, 675, -11884, -8103,
                -8029, -1474, -12279, -2438, 4171, -2438, 4171, -2438, 4171,
                -2438, 4171, 6945, 4171, 6945, 16676, 8663, -12822, -5053,
                -1073, -5395, 8068, 5102, 8068, -18908, -16425, 12647,
                -7198, 3680, 12296, 6929, -2025, 7772, -4872, 7772, -4872,
                7772, -4385, 7074, 8102, -14759, -2297, -14759, -10318,
                -10223, -7835, -10223, -7835, 6217, 12822, 3984, -3147,
                3984, -3147, -14, -22678, -13847, -11117, -1474, 4140,
                -1474, 4140, 945, 3778, -99, -11329, 3795, -7588, 7745,
                8873, -1087, -26144, -11549, 3332, -13910, 6165, -13727,
                13225, -14148, -7324, 5534, 20054, 3287, -176, 26039,
                -11655, 4416, -7128, -15890, -7135, 2525, 8580, 2525, 8580,
                2525, -15612, -4047, -9176, 3251, 3846, 3251, 3846, -424,
                -3210, -5943, 13883, -5367, -1815, -5367, 23189, -15257,
                11279, 8322, -2333, -4355, -2700, -17158, -10746, -17158,
                8130, 2497, -7801, -5039, 17938, -5039, 17938, 11790, 9473,
                1518, -15308, 6299, -5795, -8767, -17583, 790, -17583, 6410,
                13518, 4227, 4851, 8484, 4851, 8484, -282, 6740, -2052,
                -8595, -2052, -8595, 13201, -3312, -10999, 506, -10999,
                3552, 5055, 7197, 8598, 5189, -7920, -5089, -11341, 6265,
                -16623, -1596, 4703, -11221, 4703, -11221, 10151, -8955,
                -5664, -8959, -5664, -8959, -1203, -8959, -5280, -11148,
                -5280, -11148, 6214, 15072, 7301, 10708, -1741, -19818,
                11600, -7071, 9478, -3384, 9478, 4573, -8653, 2943, 3871,
                16750, -9673, 7931, 8224, -8784, 17334, -12913, 3724, 14947,
                5272, 10012, 3362, -7876, -8444, 4715, -12663, 224, 34840,
                -6485, 3831, 5165, 3831, 14981, -1262, 14981, 9807, 2383,
                9807, 11433, -1805, 11433, -8425, 7155, 5368, 7155, 9517,
                -13613, 7616, -13520, 13846, -228, -12210, -228, -12210,
                4693, -8269, 9122, -4401, 10863, 3194, -4953, -11068, 8275,
                1211, -10322, 5233, -10322, -6018, -2720, -6018, 4913,
                -7237, 6594, -7237, -1310, 1845, -12057, -2639, 2483, 2062,
                2483, -6028, -14246, -6028, -14246, -2234, -14246, -2234,
                -14246, -2234, -14246, -7523, 12013, 6651, 3325, 6651,
                17074, 6360, -1114, 11095, -1114, 11095, 7186, 11095, 7186,
                -2210, 7186, -12230, -3828, -2356, -3828, 8546, -1957,
                -4771, 15881, 9044, 15881, 9044, 1653, -20779, 12155, -7743,
                7716, -9208, -12316, 5343, -7041, -2042, -7041, -10320,
                4588, -5043, -10287, 17501, -10287, 17501, -527, 17501,
                -9280, -6048, -10476, 7771, 7186, 7771, 7186, -12009, 8081,
                8569, -6212, -8839, -3744, -8839, -3744, 11664, 4786, 11664,
                4786, 7164, -3432, -4205, -3432, -4205, -3432, -4205,
                -11967, 7697, -11967, -6946, -5223, -10067, 3802, -3124,
                8670, -3435, -2459, 2416, -7154, -2766, 15226, -7673, -8515,
                8960, 4395, -9358, -28036, 957, -28036, 957, -28036, 13657,
                -3633, 12361, 1476, 12361, 3799, 383, -15128, -5892, 3485,
                -4931, -11057, 13888, 5094, -8145, 5094, -8145, -1960,
                15602, -1960, 15602, 10631, -9113, -3536, 4508, -7158, 4508,
                -2710, 143, -4024, 3710, 7689, 3710, 7689, -2015, 15286,
                2304, 15286, 12027, -5863, 12043, -4378, -12486, -5790,
                5080, 1019, 16516, 1019, 16516, 148, -2610, -4236, 11116,
                -4236, 11116, -20605, 870, -20605, 15745, -12926, 6360,
                -14713, 245, -15891, 245, -15891, 7765, -8517, 2769, -1050,
                5089, -15480, 11698, -2241, 11698, -6340, 5302, -10816,
                4387, -12580, -9907, -5672, 15692, -1443, -16230 >>,
            zc |-> << -4212, -9827, 3771, 739, -2923, 739, -14511, -5691, -14511,
                -5525, 1300, 4865, 5687, 4865, 9048, -2500, 8402, -687,
                -2782, 10218, 11314, -5956, 18010, -3388, 18010, -3388,
                -6870, -15842, -6870, -15842, -450, 1026, 15321, 1026, 8743,
                5134, 8743, 5134, -15357, 5134, -15357, -7500, 4471, -7239,
                1383, 7099, -12692, 7099, -12692, -7092, 8891, 17386, -716,
                10981, 1582, 5196, -8307, 5196, -8307, 3144, -8307, 3144,
                -8307, -1163, -4210, -2683, -4210, -6146, -1678, -14942,
                -5856, -14942, 1867, 7024, -12971, 20374, -2202, -12244,
                8376, -4999, -4104, 12326, 14419, 1203, -2013, 5192, 8940,
                -7129, 8940, -7129, 1317, -2512, -6015, -2512, -6015, -2512,
                3960, -2512, 3960, -2512, 3960, 5478, -9524, -5892, -5851,
                315, -4542, 315, 2798, -12492, 2798, -6781, -965, -5610,
                -23458, 100, -13110, -22720, -13110, -22720, -13110, -22720,
                -814, -19535, 223, 4309, -13519, 9122, 13047, -7474, 9990,
                -18654, 533, -15313, -3897, 8399, 9283, -4195, 8090, 5059,
                8090, 5059, -1829, 10292, 10852, -16665, 2041, -14374,
                -5184, -14374, 14949, 10869, 14949, 10869, -2867, 9443,
                17802, 9443, 17802, -229, 5058, -6293, 541, -6293, 541,
                -5097, -3377, -3813, 10451, -2596, -10635, 1107, 9693,
                -10122, -3750, -5369, -11242, -5369, 7119, -7290, -12178,
                -2400, 7927, 4710, -5040, -9494, 20294, 25252, -267, 6317,
                -806, -5589, -923, -9300, 3796, -21352, 3082, 13875, 7261,
                -11513, 19044, -18774, -7498, 2976, -8586, -8813, 4200,
                5296, -10844, 5296, -6096, -13567, 7522, 9599, 18505, 2555,
                5950, 19944, -4224, 19944, -4224, 19944, -4269, -17480,
                -1047, -8124, 14302, -8046, -1412, 5526, -4144, -11855, -67,
                2541, 1052, 13342, -1621, 9796, -1969, 9796, -3413, -7729,
                -12761, -1239, 3400, -3877, 8619, 20435, 619, 6934, 10710,
                6934, 10710, 14495, -15660, -23168, 19366, 3684, 9072, 2958,
                -8860, 25392, 1629, -4557, -2855, 4572, 13465, -3815,
                -18306, 29731, -3058, -5112, -15646, -2824, 4888, -4759,
                11012, 5940, 4019, 8829, 15912, 17190, 1233, 3012, -841,
                3012, -841, 11412, 2287, -8218, 57, 18374, -1083, 5372,
                -1397, -7641, -1397, -7641, 5438, 14910, 7033, 6444, 7651,
                8642, 10018, -6245, -10459, 20716, -290, 12780, -1345,
                -8175, 18373, -8175, 18373, 5480, -15089, -6629, -1443,
                6403, 20553, -5110, -16829, -4878, -3218, -9838, -25427,
                549, 3749, -6402, 3749, -6402, 3749, -10364, 1977, -8266,
                -3404, -8266, -15055, -4413, -4821, 12433, -3537, 12433,
                -3537, -8055, -12609, -9795, 347, -2292, 347, 18364, -1849,
                11432, -9505, 11432, -9505, -18002, 16988, -4443, -18278,
                -15, -1643, -15509, -1643, 7356, -16240, -1749, -1910,
                -3298, -1910, -6467, 14454, 39, -2199, 10874, -2199, -7752,
                7962, -7752, -14627, 21679, -1069, -35488, 9511, -35488,
                215, -11826, 13879, -21871, 3660, 19183, -2333, 7126, 16446,
                569, 7659, 13689, -10987, -16952, 5261, 7015, 3440, -10388,
                4085, -14732, 1534, -10161, -5057, -10161, -5057, -10161,
                -14185, -10161, -14185, 1551, 6023, 7668, 6023, 7668,
                -15310, -651, 18840, 10447, 18840, 24925, 659, -11552,
                -13948, 20476, 16502, 2871, 3016, -8411, -4808, 2087, 9160,
                6367, 9160, 6367, -11369, 6503, -2973, 1903, 8731, -1937,
                -2087, 12117, -2087, 12117, -2823, 12117, -2823, 9028,
                -4615, 13288, -1830, 5814, 12401, -16267, -3174, -16267,
                -3174, -11413, -12235, -9405, -18203, 71, 6306, -13031,
                -2227, -12943, 4310, -12943, 4186, -12943, 10629, 9876,
                -5637, 6969, -11968, 19658, 6038, 6612, 8527, -9858, -8388,
                -6172, 5394, 12130, 3562, -10824, 3562, -10824, 485, 8819,
                -11196, -5060, 17107, 20593, 17107, 20593, -592, 2403,
                -8421, -7613, -8421, -7613, 9301, -7430, 15058, -24041,
                -865, -2590, -8256, -2590, -8256, -18409, 6967, 19231, -85,
                -7719, 8921, -7651, 14227, -7651, 14227, 5438, 9158, -15523,
                -24803, 438, 5482, -11534, 5464, -5801, -11324, 6215,
                -11324, 6215, -4586, -11706, -10810, -23034, -9717, -2684,
                -5598, 4533, -9864, 4941, -9092, 12571, 1664, 5424, 3491,
                5424, -12948, -4244, -7551, -8159, -7551, -8159, -7551,
                -8159, 2364, -4322, -6528, -6242, -6528, 9131, 17897, 9131,
                17897, 9131, 17897, 21953, 8784, 16459, -4240, -14086,
                -1354, -10512, -4618, -10370, 3037, 2481, 15726, 2481,
                15726, 2481, 4885, -16263, 9337, -8210, 14222, 4824, -12218,
                4824, -12218, 1586, 2766, -12247, 1092, -2593, -11408,
                -3203, -9650, 4160, -11508, -7810, 11535, -25392, 11535,
                -25392, -316, -1261, -18641, -1883, 4741, 2698, 4741, 2698,
                -8248, 5040, -8248, 5040, -8248, -4614, 11447, -4157, 1770,
                -7179, 7209, 8503, -18084, 8503, -18084, 8503, -18084, -18,
                4279, -12105, 1803, -10301, -5926, 6123, 13201, -1116, 7228,
                8075, 7228, 8075, 2897, -3234, -7300, -3234, 10171, 3436,
                10207, 7516, 2193, 7516, 2193, 7516, -2413, -10215, -10369,
                -13183, -16241, 24437, -382, 1162, 13201, 1162, 4217, 4742,
                15748, 4742, 15748, 1491, 15748, 23962, 8168, -24483, -953,
                -7669, 4092, 11438, 901, -20868, 5267, -20868, -1559, 11570,
                2368, -9527, -14194, 4133, -11285, -788, -4999, -10800,
                -4999, 9256, -4935, -8564, -7411, 3507, 9300, -1894, -10319,
                -6751, -10319, 4372, -11419, 11445, -1940, 20869, 7023,
                20869, 19427, 10611, 2546, 16570, 12710, 16570, 12710,
                19395, -3507, -3015, 6520, -3015, 4253, 7658, 1175, -10875,
                1175, -10875, 1175, -6600, -7784, -312, -14474, -3889,
                -14474, -3889, 4937, 3308, 5776, 3984, -6282, 3984, 5340,
                7268, 7068, 1876, 6269, 1876, 6269, 2729, -8502, -782,
                -8502, -782, -8502, -782, 7344, -17858, 24366, -2868,
                -18291, 5335, 3242, 10991, 20483, -9205, 1432, -152, -8732,
                -152, 1182, 2828, 8553, 581, 8780, 581, 8780, -10055,
                -15643, -14256, -14177, 11535, -594, -1606, -10843, -1606,
                6046, -7418, -16545, -111, -5566, -18188, -2118, -4993,
                17572, -4993, 17572, 2289, -6004, 1706, -6004, -13439, 3928,
                13996, 2689, -100, 6525, -100, 6525, 13629, 3042, -5258,
                15121, -5604, 7769, -10947, -17468, -6106, -15960, -5492,
                -3387, 10189, 393, -4804, 14783, -4804, -3321, 14908, 2566,
                14908, -2277, -7169, -8968, 16787, -4847, -16868, 7564,
                9071, -772, 9071, -772, -5246, 6797, -5246, 5856, -3457,
                -4939, -13562, -2701, 3967, 10310, 3967, -25261, -195,
                -1219, -17673, -1219, 425, 8907, 425, 3233, -741, -4020,
                6908, 17542, -4905, 8738, -8634, 8283, 12891, -3922, -11836,
                188, -5725, 13236, -5725, 13236, -11020, -2286, 6514, 1291,
                13818, 7682, 13818, 4685, -13191, -2972, -8448, 7667, -7278,
                7667, -7278, 1161, 11950, 2732, 11950, 564, 1801, 7607,
                2342, -16362, -20130, -7834, 4274, 7244, 15861, -2610,
                -13687, -3682, -134, -11833, -9625, 14433, 1218, -8576,
                -14901, -8576, -2760, 7008, 11959, 7008, 11959, 7008,
                -10311, 4065, 3893, -2575, 3893, -4215, -5067, -1084, -7236,
                -1084, -6898, -5834, -6898, -5834, -6898, 14478, -6798,
                7407, -7728, 15745, -635, 7024, 3636, 7024, 2955, 1616,
                -7614, 12322, 16888, 9631, -11083, -7020, 15209, -7020,
                15209, 18414, -24916, 6164, 10594, 20704, 419, 2234, -12399,
                4028, -5732, -12308, 2193, 10402, -3543, 10402, 10683,
                -11266, 13562, 7577, -3094, -8893, 3764, 15125, 5643, 15125,
                -5460, 14968, -2752, -14133, -5998, 7158, 2584, 16302, 2584,
                16302, -24779, 549, -12461, 4178, -10039, 15431, -18522,
                -2956, -11660, -10497, 21135, -2681, 2102, -5078, -6140,
                -13910, 643, 7642, 18623, 5306, 7627, -675, -3148, -675,
                -16583, -11002, -16583, -11002, -16583, 6411, 4441, -8556,
                19737, -588, 7147, -11826, -22111, 14871, -1539, 7607, 2818,
                15537, 3630, 15537, 3630, -2087, -3648, -1752, -3648, -1752,
                -3648, 7887, -3648, 7887, -3648, 9635, 14691, -2205, 6176,
                -5696, 6176, -5696, 3123, 3162, -5069, 3162, -5069, 3162,
                -660, -9691, -660, -14265, 7205, -14265, 7205, -14265, 758,
                -8021, 7685, -8021, 7685, -8021, -6357, 11595, -19109, 509,
                -11883, 6093, -11883, 6093, 5159, 9396, 1178, 5280, -2488,
                6656, 1720, 6656, 1720, 22654, -8936, 22654, -12838, -711,
                -9173, 12440, -9173, 4982, -547, 4982, -547, 2090, 3835,
                2090, -6340, 2090, -6340, 2090, 9119, 14220, -2287, -5758,
                5881, -5758, 5881, 10709, -19534, -1342, -2944, -20635,
                -3095, -20635, -778, 9130, 6499, 9130, -10356, -15392, 1027,
                -7021, -4600, -7021, -4600, 1396, 12580, -5251, 12580,
                13048, -21877, 10188, 7184, -3036, -2242, -10935, 20392,
                617, 9585, 3772, 9585, 16113, 4455, 5047, 7831, 5047, 6692,
                -3214, 13803, 7966, 13803, -18192, 3321, -6145, 10234, 9299,
                8363, 9299, 8363, -18960, 8363, -18960, -1041, 7483, -5417,
                11624, 7136, 11426, -2567, 7819, -3518, -14201, -3989,
                -14201, -3989, -12142, -3333, 8884, -10482, 8782, -5772,
                5072, -4707, 5072, -4707, 2605, -4707, 2605, -4707, -4054,
                -4707, -11585, -4707, -11585, 590, 4028, 25910, 805, 11231,
                -1830, -10653, 1409, 6693, 8255, -10837, -2047, -10837,
                -2047, -16425, -6500, -16425, 7, 5356, -25649, 5356, 13703,
                10178, -6650, 9144, 4878, 3750, -2668, 3750, 4413, 3253,
                4413, -22690, -7389, -22690, 11949, -8691, -20654, 284,
                6013, 6158, 11571, 6158, 11571, 6158, 11571, 11735, 17123,
                6544, 8915, 4333, 8915, 4333, 13538, -3228, -12417, 1428,
                -8483, -4851, -8483, -4851, 12685, 2049, -8442, -1704,
                -15895, -1309, 8949, 4608, -6146, 15042, -8702, 15042,
                -8702, 15042, -8702, 15042, -998, 4831, 2264, 2830, -13853,
                -11420, -13853, -11420, -13853, 1768, 11026, 3762, 11026,
                -3954, 8459, 3893, 8459, 3893, 6049, 13706, -9622, -23914,
                -743, -23914, 2565, -9546, 7984, -5813, -2682, -8460, -2682,
                -8460, -17160, 3932, -5789, 1147, 7237, 1147, -5209, -12902,
                -5209, 8280, 3569, -3918, 3569, -3918, 3569, 2143, -9979,
                -1499, 2138, 11363, -3129, 11363, -3129, -23549, -7838,
                -7407, -16701, 12400, 2231, 9362, 1954, 11439, -6716, 7299,
                -13433, 10121, -2337, -1810, 14127, 24936, -373, 1076,
                -10026, -6511, -10026, -9663, 1399, -6095, 22800, 33388, -5,
                2118, -5091, 2118, -7920, -248, 800, -9829, 800, -4720,
                2734, -4720, 9554, -4720, -7649, -15576, -31, -11814, 12225,
                -11814, 12225, -11814, 12225, -11814, 12225, 4925, -4920,
                -9041, -7020, 9041, 17810, -1817, -6252, -14077, 30002,
                -414, -5576, -7562, -4604, -7562, 9646, -6074, -10799,
                -2020, 891, -16216, 891, 6489, -5340, -4663, -5340, -13574,
                703, 7862, 4678, 7862, 4916, 5883, 402, 5150, 402, 5150,
                402, -7572, 15370, -1245, -6505, 3575, -3018, 9295, -2469,
                -2184, 7883, -2184, 10549, -1167, -1216, -5473, -1216, 3074,
                8685, -11064, -16984, -10857, 4324, -8615, 3309, -9784,
                5771, -16813, 7969, -15327, 15380, -7457, -1512, -4735,
                2678, -22051, 2967, -22051, 415, -18021, -9847, -18021,
                1391, 7216, 9319, 14613, 4419, -6745, -4191, 5703, 2990,
                5703, 289, -5948, 12273, 1851, -7997, 9257, -5211, 6897,
                -943, 684, -943, 684, -3135, 684, -10729, 684, -10729, 684,
                -3292, 6878, -17417, -690, 13529, -12079, 13529, -12079,
                13529, -6047, -3590, -1728, -1565, 5681, -22510, 5681,
                -22510, 99, 722, 18780, -2478, -2995, -7060, 6966, -10803,
                5692, -10803, 5692, -10803, 11115, -84, 3951, -84, 3951,
                -84, -12281, 6809, -12281, -4234, 10157, -1718, -4740,
                19390, 7428, 21493, -38931, -16, -240, -3846, -240, 1526,
                -13742, 1526, -13742, 1526, -13742, 1526, -13742, 1526,
                -4516, -10593, 14605, -19601, -7540, 828, 5426, -133, -1918,
                3007, 5299, -10917, 8821, -10917, 8821, -6700, -13622, 6671,
                -13622, 18063, -4219, 8469, -4378, 8469, 489, 8469, 489,
                3462, 16304, 4368, 8322, 4422, 11038, -4936, 14604, 11727,
                7511, 5079, 2311, 6186, -3123, -9798, 2738, 8046, -16930,
                -1551, -11818, 2321, 22373, -3197, 22373, -3197, 1915,
                -2206, 1915, -10332, -10888, -16107, 695, -12383, -2276,
                -12383, 409, 2749, -3606, -6560, 8459, 2580, -8760, -2051,
                3626, -8612, -12645, 2323, -12645, -17781, -925, 5148,
                -2229, -1607, 4128, 11362, -1835, -10716, 1409, 4219, 3241,
                2401, 5945, 2401, 5945, -3961, -9171, -4647, -2058, 7702,
                -1013, 7702, -1013, 7702, -1013, -5774, 5480, 2480, 9005,
                20485, 16859, 20418, -7177, -11553, 18470, -16856, -2463,
                7248, 5908, -2288, 8245, 7069, 11767, -3713, -11047, -853,
                -5446, -12163, -8937, -18443, -1955, -18443, -1955, 11090,
                2918, -1178, 10729, -16234, 8053, -5843, 8053, -5843, -1896,
                10460, 4303, 7198, 12022, -6631, -5930, 2862, -5930, 12698,
                -22496, -11182, 25151, 10971, -25210, 738, 1431, -11191,
                1431, -11191, 1431, -11191, -3101, -13807, 880, 6038, 11622,
                -17456, -3273, 9808, 6043, 1801, 970, 28093, -12940, 28093,
                -12940, 28093, -301, -7201, 2354, -11862, -4788, -11862,
                -4788, -11862, 14618, -2441, 7815, 3788, -375, -4045, -375,
                -4045, -375, 14891, -3869, 16190, 7460, -13759, -15798,
                23375, -1690, 10392, -4284, -10654, -5689, 12738, -21467,
                487, -5198, 2299, -5198, 17642, -220, -6381, -11365, 15644,
                10565, -2375, -10126, -13450, -10126, -2514, 8659, -2,
                -10277, -12021, -10277, -12021, 6125, 14330, 2037, -6598,
                -10450, -1687, 13000, 3350, 13000, -2603, -1866, 4324,
                -1866, 4324, 12595, -4855, -13393, 373, -104, 17354, -104,
                9209, 2188, 9209, -4343, 5918, -5810, -5845, -5891, 14495,
                333, -4639, 6738, -15162, -146, 14815, -4967, 15272, 27,
                -9035, -587, 3955, -23624, 3327, 16071, 625, 2954, 17621,
                -806, -4462, -1935, 9814, -468, -8516, -778, 2742, -778,
                5230, -6192, -2021, 9321, -1294, -22476, 13675, -1625,
                10650, 22172, 2204, 4961, -2006, -5962, 6051, 7269, 6051,
                7269, 9305, -9170, 916, 7227, 552, -4868, -20961, 518,
                14291, -5664, 5116, 6126, 11345, -19341, 2069, 2505, 8345,
                -8384, 8345, -15963, 5565, 16048, 4853, 11475, -5627,
                -12940, -26437, 265, 10716, 10116, 10716, -2492, -12402,
                8602, 21861, 36842, 114, -14063, -9677, 1372, -6813, 1372,
                -6813, -4232, 4224, -12200, -4890, 22292, -7646, 22292, 195,
                19174, -11492, 19174, -4575, 1815, -2862, -12805, 1828,
                -7054, -9233, 651, -4624, 2529, -4624, 5764, -9519, 5764,
                -9519, 5764, -6563, 8981, -4778, 8981, -4778, -11148, 25322,
                -633, 10878, 13100, -4766, 13005, -3175, 13005, -6549,
                -18964, 4408, -18964, 2591, 4703, 14278, -126, 1388, 14794,
                -25121, 1140, 9134, 5664, -23460, -6793, -23460, -305,
                13467, -1769, -481, -13130, 9862, 14982, -15080, 6144,
                13951, -22754, 1239, -9101, -21594, 158, -1887, -13819,
                -1887, 10840, -77, -6458, -7441, -6458, -3893, -6458, -3893,
                8856, 5855, 8856, 18442, -11199, -12116, 12359, -4051,
                -11113, 9006, -11113, 9006, 1335, 9486, 2171, -9028, 14851,
                -5666, 465, 4015, 465, 4015, -5170, 12811, -32113, 1140,
                -8931, 12867, 8020, 13866, 6167, -3543, 10955, -110, 1897,
                -2644, -12246, 6338, -19690, -814, -16199, 15417, 720, -691,
                -18964, -303, 3477, 6394, -6785, -11937, 1073, 6336, 2128,
                6336, 19384, -268, -16944, -6212, -16944, -6212, 15660,
                -1865, 8323, -24016, 17281, -309, -7409, -8743, 3313, -8025,
                -12001, 3602, 3832, -14210, 2300, -10023, 6087, -3884,
                11583, -6687, -4228, 7556, -4228, 7556, -10702, 10736,
                -4892, 11282, 4137, 412, 3149, 412, -2171, -6560, -2171,
                -6560, -9375, 15100, -12135, 4871, -9280, 2959, 27964,
                -11388, 27964, -11388, 27964, 2867, -1988, -4183, 15289,
                -22197, -1040, -5710, 14443, -13709, 4960, -13663, 5371,
                -5444, -11354, 4568, 5509, -1634, 5509, -1634, -1090, 17311,
                -1090, 15110, 3745, -5571, -14970, 2782, 10602, 18660, -218,
                8339, -3340, 8339, -11679, -13267, 19924, 27600, 479, -9449,
                -2046, -6803, 3152, -9749, 11174, -9749, -19640, -1368,
                -10864, -4774, 3349, 9535, -5382, 9535, -5382, 9535, 20360,
                -145, 5742, 14890, 5742, 14890, -523, -9946, 16054, -9027,
                -960, 1913, -4640, -12053, 12350, -592, 1019, -2243, 1019,
                996, 10614, 996, 10614, 996, -6402, -15595, 10545, -25755,
                -172, -2531, -11621, -2531, -4593, -9440, 5273, -9440, 5273,
                -9440, 5273, 11923, 4595, 12307, 8965, 3008, -4616, -8086,
                16155, 2539, -5349, -12260, 7170, 978, 7170, -4079, -11444,
                -2661, -6016, 14701, 16384, 12392, -7089, -3888, -4418,
                11379, 3424, 11379, -7817, 11938, 5263, 12257, 2665, 12257,
                -10799, 15086, -4105, 23151, -3753, 23151, -20288, -4222,
                21055, -1147, -601, 4563, -601, -910, -601, 3867, -5891,
                3867, -12246, -990, 13150, -2017, -2966, 5017, 6630, -9536,
                7650, -7620, -9110, -7807, -12149, -7807, -12149, -21054,
                198, 5701, -4356, 5701, 786, 5701, -3966, 5120, -5123,
                -5515, -5123, -5515, -3485, -5515, -3485, 1335, 7004, 1335,
                13334, 6600, 13334, -1417, 3153, -2141, 3153, -9634, 672,
                7840, -5026, -13390, -4732, -13390, -4732, 5493, 7949, 2203,
                -492, 2203, -492, 2203, -492, 5120, 17940, 5120, 17940,
                5120, 17940, -14637, -1224, -17199, 4205, -17199, 24683,
                10457, -5284, -2343, -4078, -2343, -7325, -8689, -7325,
                13982, -9150, -1552, 3242, -16694, -3329, -2715, 6581,
                -1890, 19361, 5110, 19361, 8238, 19361, 8238, 19361, -6532,
                3358, -11163, 2064, -10540, 23526, -5289, -6797, -11350,
                19691, -443, 16236, 5442, 16236, 1794, 1578, -13910, 1578,
                -17849, 8665, -17849, -15983, -14782, 8071, -11812, -1412,
                -3070, 17700, 24939, 810, -9174, 3159, -11898, -382, -3732,
                -15489, 4280, 7287, -9297, 6229, -7511, -5833, -7623, 3004,
                4809, 1487, 4809, 14321, 974, 10892, 8265, -4667, 4869,
                3180, 4257, 3180, 4257, 6151, 4257, 6151, 4257, 6151, 4257,
                -12388, -1909, -12388, -1909, -12388, -1909, -5472, -5724,
                -3136, -10269, -20770, -2191, -12404, -5435, -12404, -9404,
                -12404, -9404, -12404, -9404, -18198, 2921, -21843, 1625,
                11482, -1409, -7757, 5281, -7757, 5281, 13067, -20585,
                -6719, -9465, 3826, 10080, 4050, -12515, 9611, -3352, -8157,
                13578, -8157, 13578, -10098, 7047, 911, 1525, -15845, 1525,
                -15845, 1525, 7896, -7588, 7896, -7588, -4176, -17691, 6980,
                -17691, 1202, -6067, -8412, -4325, -6491, 13697, -8513,
                -6131, -4068, -12551, 246, 11508, 27861, 223, 2048, -6842,
                2048, -2688, -9335, -2688, -9335, -2688, -9335, -1262,
                -1196, -13655, -1196, -15195, 5561, -15195, 5561, 8420,
                20236, -3513, 20236, -180, 8403, 5927, 8403, 3725, -11430,
                3725, -11430, 19389, -933, 18552, 9701, 18552, -4436, -5514,
                -638, -9840, -1492, -22154, -5230, -22154, -270, -6380,
                -13257, 14108, -20021, 5358, -11813, -3058, -9037, -4408,
                15922, -233, -11374, 931, -11374, 931, 11669, -6718, -8626,
                -6718, -8626, 14567, -8626, 14567, -8626, 14567, -5330,
                9538, -17984, -9396, -811, -8759, -14311, -8759, 1106, 4952,
                8509, 17773, 1604, -8084, 19556, 406, -15767, -7845, 29828,
                78, -4681, 5090, -8121, 15971, 189, -17885, 9696, -17885,
                9696, -17885, -1680, -10525, -7284, 8592, 4470, 9832,
                -22736, -145, -11135, 3720, -11135, 3720, -11135, -2588,
                8115, 2881, 6559, 18135, 630, -4245, -3739, 12955, -2423,
                2725, 4486, -15043, 4486, -15043, 3231, 4004, -3420, -1355,
                -2303, -1355, 1859, 14192, 4204, 14362, 2253, 14362, 1521,
                -10209, 12851, -10209, 12851, 13346, 5099, 2516, 4317,
                -7175, 9851, -16575, -3275, -5200, 5628, -5200, 7505, 17888,
                8375, -19767, -4663, -15188, 11839, 13282, -3795, 3744,
                -3083, -11071, -1876, -11798, -15125, -3692, 310, 6949,
                -19078, 764, -8006, -5038, -8006, -5038, -1048, 732, -4525,
                732, 2191, 3356, -3915, -10191, -3885, 4753, 11090, 14378,
                663, -11779, 663, -11779, 663, -2138, 7528, -2138, -14166,
                953, 14921, -23539, 14921, -23539, 361, -3170, 1254, -7594,
                1254, 3615, -3536, 3615, 11766, -4302, -8981, -3559, -9751,
                -1454, -8324, -102, -16619, -13451, 24361, -1624, 5107,
                14605, 5107, 14605, 5107, 14605, 5107, 760, -3974, 7333,
                6848, -2598, -8712, -2598, -17157, 1466, 9362, 670, 6418,
                -2975, 23342, 7819, 23342, -72, 9637, 7683, 9637, 5771,
                -13170, 545, -13893, 4109, -13893, 4109, -13893, -3529,
                9791, -14229, 3519, -1043, 3587, -4686, 3587, -4686, 3587,
                -8073, -18274, 2659, 6494, 9691, 11091, -17935, 18751,
                -3137, 12998, -9244, 19568, 421, 3914, 5685, 10292, -9581,
                14797, -2285, -4087, -1569, 5788, -10281, 5788, -7463, 7033,
                4046, -10918, 4046, -10918, 4046, 10922, -4434, 4073, 5644,
                -2020, 6496, 4733, -6097, -11373, -6097, -11373, -21598,
                -283, -4072, 4562, -4072, 4562, -4072, -1347, -9685, -14962,
                8794, -2303, 9935, -8460, 9935, 4508, 9935, 4508, -7034,
                -10312, -7034, 15626, -7034, 15626, -7034, 15626, -263,
                6713, -2058, 6060, -5031, 6060, -15363, 23976, -852, -6014,
                -15176, 1182, 1635, 7565, 1635, 7565, 1906, -4747, 3624,
                -5311, -4669, -4515, 739, -12456, 3121, -12456, 102, 2966,
                2632, 6280, -15909, 587, -2685, -12914, -2685, -4203, 9029,
                -8664, 9029, -4085, 2152, -2438, 2152, 6320, 11233, -14658,
                1260, 4297, 3216, 8919, 22786, 238, -10553, 1358, 5618,
                3239, 649, 7127, 649, 13303, -3703, -7288, -10602, 7111,
                -14998, 867, -6424, 15921, 8356, 18933, 177, -22474, -12495,
                -22474, -1607, -22474, -1823, 6618, 10299, -6736, 10299,
                -6736, 10299, -1411, 4525, -18829, 1074, -3913, 1074, -3913,
                1074, -3913, 1074, 6204, 10129, 6204, -18929, 2745, 12427,
                8197, 4849, 33673, -4077, 33673, 117, 10830, 192, -12179,
                8213, 2768, 8509, 4965, 8509, 4965, 8330, 6394, 8330, 6394,
                -1674, 5054, 8474, 5054, 13325, -797, 13325, -797, -4645,
                -10195, 16048, 2331, -6166, 9650, 2564, 4165, 2564, 4165,
                5026, 12218, 30292, -316, -6409, -1816, -4043, -6560, -4043,
                -6560, -4043, 13500, -14133, 1786, -4356, -3522, 3072,
                -3584, 18354, 2274, 18354, 3238, -14862, -12200, 14828,
                22467, -2375, -4968, -10236, 11295, 2751, -12854, 4261,
                -12854, -9759, 4679, 4685, 2387, 7699, -4744, -12974, 5125,
                -12974, 5088, 872, -8703, 872, 10701, 3530, 10701, 941,
                6940, -6317, 6940, 11077, 5738, 11077, 5738, 556, -5563,
                556, -7524, -5978, -7524, -2992, -10294, -2684, -10294, 965,
                4438, -1489, 4438, -1489, -7733, 14579, 5188, 15690, -18770,
                1450, 7197, -13869, 7197, -13869, 7197, -13869, 7197, 4550,
                -11183, 2064, -8594, 326, -4374, 9293, -8576, -16365, -787,
                4855, -14852, -2471, 2750, 4407, 4605, -12191, -3381, -8648,
                -21391, 154, -21391, 154, -4781, -4469, -13019, 20287, 2886,
                -7300, 12361, -7300, 12361, -7025, -14784, 24953, -204,
                7336, -2075, 7336, -2075, 6109, -4641, 6109, -4641, 6109,
                8581, -5685, 3649, 8638, 13151, -6081, -6159, -5587, 7148,
                -13770, 2969, 4517, 9427, 4517, 9427, 7773, 9427, -14583,
                -21748, -1591, -2491, -14868, -5175, -14868, -955, 4835,
                9565, 4835, 10169, 18582, -33136, 202, 9118, -2507, 11339,
                -10683, 11339, 3916, -2858, -1909, 13216, 1056, 1581, 1056,
                -15567, -309, 5171, -8988, 5171, -8988, 17169, 764, -8712,
                6697, -15701, 631, -7783, -20139, 20981, -16965, 465, 13657,
                6875, 13657, 9757, -5340, 17484, -1941, 17484, -626, -13384,
                -6026, -13384, -546, -611, 9895, -611, 8923, 5792, 10387,
                -1003, 10387, -1003, -10903, -13747, -13188, -17930, -2139,
                -10201, -680, 7703, -4302, -10507, -11789, -18943, 2682,
                -4949, -743, -4949, -743, -4949, -743, -4238, 7501, 14270,
                4824, 4529, -6200, -15997, -6200, -15997, 4950, -13405,
                1169, 12807, -3672, 12807, 1700, -10524, -10337, -18768,
                -247, 12558, 768, 12407, 2677, -6224, -8976, 16878, 8249,
                4420, -10417, -6133, 10856, 7143, -5741, 1311, -7950, 1311,
                -7950, 1311, -10717, -15975, -1734, 7049, 3533, -8335, 3533,
                -8335, -13656, -18415, 3446, 2903, 10619, 17512, -20133,
                -502, 1272, -9095, 1272, 6299, 517, -19521, 11258, -19521,
                891, -1305, 7788, -3258, 6887, 11731, 18261, 9464, -2351,
                -8525, 343, -8238, 16688, -8238, 5101, 3456, -4068, 3456,
                -4068, -11979, 10281, -5570, -13311, 24486, -13311, 24486,
                36963, 546, -7448, -19645, 1574, 7483, -5274, 11828, -25634,
                96, 9155, -430, -9927, 3330, -2012, 5246, 13469, 6698, 2163,
                2191, 6274, 2191, 6274, 2191, -6827, 9894, -6827, 9894,
                -6827, 9894, -6827, 7329, 14505, -1207, -19051, -8355,
                -19051, -6370, 13546, 13411, -6257, -2238, 6127, -12506,
                6127, -12420, 7746, -11292, 17787, -6284, -3233, 4843,
                -1272, 6043, -18794, -468, -980, 4726, -980, 6477, 2505,
                6477, 17762, 2966, 12309, -2726, 6864, -14087, 6864, -14087,
                6864, -14087, -6356, 6914, 1895, -15666, 1895, -15666, 1895,
                7091, 16565, -2630, 8754, 6830, -921, 6830, 5352, 8376,
                2749, 8376, 1881, 8376, 19755, -1412, 14848, 4167, 14848,
                4167, 14848, 4167, 14848, 4167, 14848, 4167, -5463, -10222,
                3577, 9000, 4056, -12256, -3423, -12784, 1773, -12784,
                -10074, -4395, 9156, -8116, 17273, -8116, 17273, 24477,
                -10961, 7594, 5762, -13170, 18781, 648, -5459, 10207, -5459,
                -10187, -6106, 10964, -3268, 9398, 1997, 9398, 1997, 9588,
                717, 3262, -19339, -22693, 195, 7435, -10982, -21152, -36,
                233, -3154, 233, 23829, -4204, 3083, 10349, -334, -651,
                -10367, -651, 9130, -14867, 9130, -14867, -2868, 10564,
                10491, 2935, -14685, 22332, -9853, 19289, 15625, -10009,
                3296, -9059, 7731, 7070, 13487, 5273, -12944, 2648, 9173,
                -3714, -11790, 17631, 1967, 9650, -690, 11591, -6945, -2991,
                8512, -4895, 8512, -6705, -10323, -7059, 11479, -10592,
                -4809, -9698, 6219, -5185, -13124, -5185, -13124, -5591,
                -15460, -7851, -8916, 13911, 10320, 1778, 2526, -6980, 6698,
                -27369, 6698, -27369, 6698, -27369, -36, 2785, -11922, 2785,
                -6205, -5946, 14512, -1471, 14512, -1471, 14512, -1471,
                -11926, -2117, -11926, -2117, 1284, -9770, 1284, -11022,
                -15611, -11022, -15611, -11022, -15611, 1467, 8974, -5615,
                8974, -16448, -25962, -373, -8157, 16498, 1341, 25555,
                -13781, 25555, 33760, 2148, 1610, 10168, -4357, 8790,
                -15050, 2190, 7642, 12409, -7458, 12409, -7458, 12409,
                -7796, -4792, 5396, 9727, -14974, 5518, -9152, 13910, -1516,
                13910, -1516, 13982, 4132, 13982, 2066, 11392, 1421, 11392,
                242, -9403, 5673, -7313, 15938, -1645, 151, -6073, 151,
                -6073, 151, 3879, 1501, -4215, 1702, -4215, 10519, -4215,
                10519, -4215, -10545, 19152, -28029, 919, -18822, 254,
                -18822, 254, -15727, 10795, -15727, -5513, -1914, -8068,
                -7477, -9989, -1495, 4007, -3751, -10676, 18796, 415, -8142,
                779, -985, -4219, -4068, -8988, 7397, -8988, 243, 10216,
                -5315, 10216, -5315, -6095, 14865, -6095, 14865, 11540,
                5991, -9141, -6668, -2144, -7798, -2144, 13557, -8317,
                -7136, -14881, -536, -7045, -8786, -7045, -8786, -7045,
                -7439, -13317, 6822, -11243, 5434, -8100, -16101, -11563,
                -16800, -13350, 1308, -13350, 1308, 9881, 6238, -6838, 3030,
                -10426, 4015, -17244, 4143, 14329, -841, -13835, 12185,
                -2415, 4499, 14332, -20147, 904, 6874, -293, -3602, -24524,
                -1313, 6486, -7041, -9169, 15490, 4004, 12276, -3452, -3729,
                7353, 3749, 7353, 3749, 9505, -11358, 2317, -11358, 2317,
                5560, -6763, 5560, -6763, 5560, 11743, -3456, -10281, 3505,
                -19362, 8312, -19362, -10869, 1273, 25663, 12538, 25663,
                -467, 10836, 15938, -24760, 381, 18520, -454, -4286, -10860,
                3374, -14072, -2084, -14072, -2084, 5306, -8373, 5306,
                -8373, -7207, -6688, 13546, -14742, -7011, -14292, -2553,
                4480, -1193, 10883, -1193, 10883, -12387, -6170, -3626,
                2371, 11844, 2371, 9192, -12126, -1407, -2376, 3267, -2376,
                10173, -2376, 10173, 1063, 10173, 1063, 7224, -4769, -589,
                8421, -589, 6334, 14857, 6334, 14857, -19146, 14594, -6135,
                7100, 17438, 7100, 17438, -241, -22549, -7110, -22549, 204,
                585, 14513, 585, 4816, 2480, 4816, 10549, 4816, 10549,
                -22131, 32806, 21, 21539, 7493, 21539, 7493, 21539, -132,
                -10469, 13278, 3980, -991, 12406, -991, 12406, -991, 1248,
                -406, -12181, 5048, 21951, -1298, 21951, -1298, 11749,
                -2160, 569, -7089, 569, -7089, 569, 10422, -4519, 8656,
                -15983, 8656, -15983, -1062, -9211, 8872, -9211, 8872, 1633,
                8872, 1633, -6566, -20696, 325, 6732, 3972, -5929, -12238,
                -2452, -3711, 4889, -3711, -4265, -10153, 5923, -10153,
                -5858, 6505, 1353, -7054, 1353, -8728, -6417, -8728, -6417,
                1068, -5738, -219, 6164, 12355, 6005, -8459, 9914, 6001,
                -8798, 18495, 1059, 7104, 4379, -9302, -3566, -9302, -3566,
                3184, -3645, 9808, -13797, -6057, -6237, -2241, 8911, 45,
                -2783, -3025, -2783, 4799, 14146, 4799, -2725, 10362, -2843,
                -12549, 257, 9525, 11075, 9525, 11075, 3859, 8146, 20638,
                -5660, 617, 3228, 8112, 3228, 8112, 7250, 12122, 3462,
                10602, -4666, 17268, -6342, -3376, -6342, -3376, -2786,
                13537, -1341, 12076, -4139, 2167, -10455, 9134, -1080,
                -11419, -7767, -11419, -4471, -12083, -142, -11459, -7244,
                12651, -6193, -4543, -11346, -4543, -11346, 8865, -11495,
                744, -2695, 3552, 8946, 2057, 7940, -20662, 7940, -20662,
                678, -5744, 10491, -5744, 10491, 5274, 8553, 11614, -2279,
                -7213, 17170, 24318, 1456, 14127, -4849, 1786, 13744, 12728,
                13744, -20738, -4520, -14184, 1762, -30045, 5467, -30045,
                5467, -30045, 436, 10448, -8020, -732, 173, -12308, 173,
                -3516, 8732, -3516, -8851, -20703, -16262, -7050, -5870,
                -2011, 10052, 9472, -20169, 18416, -11008, 6283, 16506, 56,
                4811, 5208, 4811, 9463, 4811, 9463, 12704, -18131, -494,
                -17796, 2685, -17796, 11317, -17796, 11317, -3298, 11296,
                -10516, -25604, 31, 19950, 12186, 19950, 1137, 10635, 8164,
                -1015, -11997, 9662, -11997, -7330, -9173, -17756, -6236,
                17097, -22563, 230, 3435, -19407, 2287, 10138, 10074, 3192,
                -8781, -6173, 16025, 7680, -19821, -4738, 1999, 6846, 18441,
                -5181, 16307, 2946, 9614, -12731, 2513, -5981, 6102, -8245,
                12443, -9867, 15089, -3425, 7908, 2249, -6276, 2249, -6276,
                2249, -8524, -15882, -15088, -1341, 6265, 20082, -2099,
                9855, 11498, 5802, -12797, -11139, 20390, -26102, 937,
                -11052, 23455, -10629, -2827, 5342, 7466, 10905, -2721,
                8445, -6230, -5776, -11856, 10696, 4136, -2333, 9324, -2333,
                9324, -1871, -5774, 2872, -5774, 2872, -5774, 2872, -5774,
                14853, -5963, -12671, -12954, 9124, -13526, -5293, 9659,
                -1961, 8062, -989, 8062, -989, -6217, 13328, -9749, -2417,
                7417, 8988, 7417, 8988, -15152, 1586, -823, -17068, -823,
                -17068, 1984, -16302, -7903, 9059, -4966, 3620, -4966, 3620,
                11310, -3848, 11310, -3848, -4537, -11109, -8238, 12489,
                -16916, 18751, 5002, -7225, -11034, -20556, -244, 8974,
                -858, 9934, -3732, 9934, 24207, 673, 16404, -13258, 2451,
                -9015, 3438, 4664, -7150, 4664, 7491, 6864, 11289, -5592,
                -13784, 6306, -20124, -7732, 15200, -8973, -14090, -11028,
                6621, -7545, -8661, 10229, -8661, 10229, -3311, -5788,
                -4699, 261, 6517, 261, 7116, -5671, 7116, 15949, 181, 5350,
                -1966, 8927, -1532, -5159, -1532, 4191, 12741, -25247,
                12741, -25247, 1008, 11158, 1766, -10763, 1766, -10763,
                9262, -10763, 11601, -2464, 213, -2796, 213, -14922, 1310,
                8499, -15611, -1388, -8372, 765, 731, 6428, 731, -6692,
                5262, -8618, -7113, -8618, -7113, -2753, 8334, 8437, -17506,
                -915, -9505, 18560, -5206, 2271, 2533, 2271, 2811, -12435,
                2811, -10929, -6897, -6939, 9197, -15957, 1632, -7336,
                23739, -8874, -3240, -6445, -3609, -6445, -3609, 3898, 8719,
                4082, 7268, -11653, 2217, 7343, 11459, 11705, 4562, -7276,
                569, -3414, 569, -3414, -8342, -3414, -9665, -1643, 6113,
                -3144, 931, -9899, 931, 5251, -139, 17951, 6840, 17951,
                -18122, -24739, -894, -10542, -3337, -8271, -6388, -14092,
                2012, 10154, 8849, 2531, 8849, 2531, 6471, 920, -3032,
                -7262, -3032, -7262, -2867, 419, -2867, 11710, 9418, -10210,
                -7370, 7274, -15610, -14606, -4667, 20956, -1893, -9490,
                18309, 1834, 11835, 3225, -6410, 740, -16549, 7037, -16549,
                438, 14736, 1973, -2870, 12233, -2870, 12233, 3531, 12233,
                -22551, 15384, -274, -9948, 22575, -11152, 25864, -795,
                -14539, -4853, -11710, 2134, -11710, 2134, 8143, -2763,
                17611, 1793, -13168, 3920, 1317, 6334, 193, -953, 5277,
                -953, -7163, 1730, -7163, -10891, 18876, 25084, 471, -5555,
                -23832, 384, 5797, 557, 5797, -10669, -9689, -8890, 8494,
                -11517, 3721, -10751, 3499, 692, -2309, -6493, -2309, -8460,
                -2615, 2328, 8295, 2328, -5051, 2328, -3842, 7342, 17449,
                4207, -2876, -3188, -1832, 8991, 2903, 8991, 2903, 13882,
                -397, -4703, 9384, -4703, 9384, -14294, -4311, -863, 10542,
                843, 5174, -3801, 6543, -3801, -1816, -8086, -19043, -681,
                -5263, -9468, -13366, 678, 9087, -2694, 9087, -2694, 9087,
                5597, 9087, -7435, 1650, 6330, 1650, 6330, 1650, -19230,
                5610, -19230, -3050, 1883, 1127, 7798, 1127, 7798, 1127,
                17834, 9740, 17834, 4064, -11057, 19853, -11057, 19853,
                -1872, 6598, 6489, -13203, 1887, -6191, 9292, -14652, -3938,
                10756, 23159, -270, -6325, 7395, 3901, -6785, 9224, -6785,
                9224, -6785, -21505, 3944, -21505, -3244, -4383, -12451,
                -4383, -12451, 7555, -3269, -11250, 1377, -11250, 1377, 677,
                -12881, 4355, -12881, -8336, 8917, -3500, -7326, 18646,
                -7922, 2706, 7777, 20888, 14588, -19553, -23921, 2750, 2451,
                8773, -2996, 12381, -14730, -1861, 7463, 6086, 20588, 1737,
                18283, -6210, 13666, -15843, -5817, 12396, -1559, 3500,
                8759, -15639, -4713, 2378, -1218, -4173, -1218, -6917,
                -1218, 4545, -4427, 4545, -6509, -9493, 8661, -9493, 8661,
                2278, -4081, 3156, 24886, 11316, 24886, 27411, -1420, 4254,
                -11836, -8981, -336, -4372, -17904, 15301, 1975, 1546, 8335,
                1546, -15223, -25935, 2352, -2005, -4868, 13966, -18553,
                -8445, 3967, 8730, -3762, 10995, 241, 10273, -1161, 10273,
                108, 2343, 9099, -17443, 9099, -17443, -7403, 8096, 12222,
                17050, -12074, 17050, -12074, 17050, -12074, 17050, -12074,
                17050, -2491, -13992, 6572, -13992, 12332, 14479, -8735,
                -3456, 7887, -11628, 1581, -2652, -1492, -2652, -8979,
                -1675, -6155, 6197, 11864, -4857, 11864, -17398, 3599,
                -2812, 5054, -2812, 14887, -1331, -3347, 11858, 22844, 453,
                4720, -12886, 4720, 4505, 17289, -10853, -4547, 5309,
                -15758, 5309, -15758, 13094, 15998, 5211, -15193, 523,
                -10741, -1959, -10741, 1414, -3044, 1414, 16141, 1098, 1461,
                12310, 1461, 16216, 8785, 16216, 8785, 16216, -620, -5917,
                10666, -5917, 6071, 7892, 16452, -938, -3610, 10564, -3610,
                10564, -3610, 8270, 16283, -17830, 8683, 20593, 13169,
                -7255, 23045, 590, 16208, 10061, 16208, 1618, 7522, 31081,
                -789, 12601, 1661, 5465, -5059, 5465, -5059, 3302, -6856,
                6631, 10660, -19476, -19652, 1488, -8435, 15338, 2372,
                -2841, 8814, 981, 6999, 2932, 10933, -11489, 4570, -11489,
                7736, 3714, 4093, -2591, 4093, -2591, 4093, -2591, 1185,
                -2591, 20981, 4356, 20981, 4356, 20981, 25892, 10835, -3974,
                1633, -10636, -8141, -10636, -8141, 4764, -12019, -1352,
                13411, -2255, 13634, 248, 3509, -9054, 3509, -9054, -8262,
                13028, 7150, 13028, 7150, 13211, -7925, 13211, -7925, 13211,
                -2081, 1918, 14738, 1918, 14738, -971, -1759, -11688, -1759,
                13531, -27533, -119, 9692, -5098, 9692, -5098, 9692, -5098,
                -9054, -2243, -7775, -15873, 2651, 11430, -2149, -3705,
                -5684, 11705, 13625, -14478, -5463, -10132, -3294, -8967,
                -24600, -814, 12479, -571, 4040, 2229, -11880, 8675, -34972,
                3070, -34972, -488, 2323, 8438, 11937, 2426, 9366, 2426,
                9366, 514, 7409, -25459, 7409, -25459, -5536, 15928, 4291,
                6304, 3342, 6304, 3342, -3157, 16675, 8708, 16675, 8708,
                16675, 8708, 16675, -3431, 14774, -1629, -7993, -4694,
                -7993, -4694, -7993, -4694, 18628, -4694, 18628, -4694,
                18628, 3075, -6570, -1314, -1290, 5204, -1290, 5204, -949,
                -7078, 6272, -7078, 9018, 13315, 2176, 13315, 2176, 3864,
                13911, -10909, 13911, -10909, -6125, 12472, 13398, -19881,
                4086, -16355, -2378, -12788, 9381, -7213, -13999, -12421,
                4685, -13489, -6873, 2911, 8418, -5112, 5895, -9135, 9684,
                -9135, 9684, -4178, -7997, 3622, -7840, -12095, -3142,
                -8477, -12349, -18028, -25629, -11951, -4660, -4640, -23348,
                9810, -23348, 997, -13564, 575, 2410, 8811, -10727, 6645,
                -14186, 887, 6109, -1851, 6109, -15135, -5744, -1159, 9307,
                -3412, 9307, 5705, -14629, 569, -14629, 569, 5477, 15532,
                23680, -1291, 5957, 6289, 8917, -14178, 1650, -4568, 20427,
                27662, 1874, -10119, 14497, -10119, 14497, -293, 14497,
                -293, 14497, -293, 10430, 306, 7784, -1308, -5014, -1308,
                3447, 7386, 12593, -1989, -3106, -9282, -3106, -4416, 14902,
                -4416, 14902, 657, -7187, 22028, 14913, 802, 6035, 714,
                -1606, -8378, -1606, -8378, -2766, -12024, 201, -7660, 1046,
                -7580, 15147, 3408, -12182, 4410, -12182, 14871, -1299,
                10648, 2966, 10648, 1986, -8693, -13242, -5638, 11031,
                -5638, 11031, 9806, 3326, 9034, -1440, 1814, 5232, 1814,
                5232, 1814, -7402, 406, 5069, 3911, 5069, 5132, 5069,
                -10350, 3670, -10151, 371, 10942, 11977, 10942, 19730, 1581,
                5323, 14143, -1917, 14143, -4432, -12117, -6136, 18107,
                -398, 17333, 10371, 17333, -2215, -165, 9179, -165, -2002,
                -7636, -10535, 15247, 2981, 8407, 11063, 17074, -3442,
                -3839, -9875, -6795, 5313, -3815, -5188, 8348, -7409,
                -13223, 5631, 3891, 5631, 3891, 9693, 1723, -1405, -8086,
                -1405, -3426, -1405, -8275, 1660, 1649, 17894, -6761, 4522,
                2923, -8575, 2748, -3021, 5463, -3021, 5463, 13184, 574,
                -9397, -9367, -1923, 3387, -1923, 3387, -1923, 3387, -1923,
                -5092, -7401, 9437, -15672, 9437, -15672, 3999, 11324,
                -4698, 12816, 14179, 9150, -8359, 7080, -8359, 7080, -15061,
                327, 3631, -3443, -10324, 6977, 6365, 5128, 9745, -5919,
                -7058, -7620, -4600, -7620, -4600, -4710, -13245, -1230,
                4299, 2888, 8969, -16655, -17142, 3018, -10040, 15230,
                -5914, 13021, -928, -972, 1534, -972, -6458, 1843, -15495,
                19806, 315, 3096, -3898, 3096, -7960, -17332, 1112, 4183,
                1901, 4183, 1901, -10708, 945, 2037, 8484, -14429, -17498,
                12833, -10823, 20431, -1323, 4215, 9237, 21424, 1493, -6457,
                -17325, 8311, -436, -16059, -3672, -16059, 7625, -16059,
                -3686, -10033, 2914, -7802, -11527, -7802, 16595, 999,
                10815, 12942, 10815, 19903, -20852, -6824, -6052, -5349,
                10713, 3857, 10713, -3047, 9011, -2180, 10990, 5389, 6813,
                -10850, -1841, 11761, -1841, 11761, -1841, 6279, -12134,
                16322, -585, 14493, -8227, 14493, 1318, 6024, -1058, 13515,
                -4579, 13515, -233, -1341, 4178, -1341, -14458, -762,
                -14458, -762, -14458, -762, 8294, 9779, -17362, -4149,
                17882, -264, -6351, 1770, -4281, -3123, -4281, -9772, 3563,
                -9772, 3563, 15208, -1451, -15822, 359, 11654, -766, 2537,
                14906, 2537, -16149, 2694, -16149, 2694, -16149, 32, -13094,
                -6865, -13094, -2321, -1829, 7551, -1829, 7551, 5505, -7356,
                -12535, 18048, 17275, -5905, 17850, 239, 7991, -21902, 9720,
                8178, -7989, 16189, -328, 2536, 5731, 2536, -8731, -6596,
                -546, 4018, -27348, 5248, 4004, 12827, 16412, -20454, -1000,
                -3660, 7405, -15529, -68, -8774, 20728, -8774, 4377, 5645,
                14553, -38, 18997, 8622, 18997, 2146, -2672, -1210, -13596,
                5715, 4744, -8177, 4744, -8177, -12470, 20015, -902, -6880,
                4688, -6880, 4688, 6087, 11306, 21541, -4091, 3432, -8513,
                -3208, -5829, 17822, 2759, 10769, 19461, -3883, -3641, 7312,
                15240, 2338, -779, -6802, -779, 1461, -10958, 1461, -10958,
                1113, 5384, -11991, -1436, 3746, -13853, 3746, 14403, -2871,
                -6828, 13972, 8711, 4334, 7723, 18418, -30733, -130, 8536,
                28602, 1956, 7555, -6906, -11892, 5592, -11470, -5670,
                -7200, 5693, 9432, 17483, -1861, -10023, 143, -7514, 6116,
                -291, 4624, -9313, 4624, 9687, 17025, 2092, -14656, -5216,
                -14656, -17522, -16951, 741, 2211, 13624, 2211, -3535, 7623,
                -15691, -742, 3156, -9818, 5746, -13244, -26878, 34, 14828,
                -9186, 14828, 2610, -5161, -9908, 17335, -14651, 13182,
                -3013, 6819, -6850, -8544, 186, -5208, -6099, -5208, 12115,
                -2921, 6061, -4480, 6061, -4480, 6061, -4480, 2692, -4788,
                2692, -7646, -18558, -1897, 14419, -7885, 14419, 805, -8321,
                -13934, -8321, -8182, -15739, -4213, 5982, 12394, 3794,
                -5921, -11085, -3724, -5340, -5924, 6234, -6569, 5284,
                -6569, 678, -2545, 678, -5756, -2173, 10161, 20314, 916,
                5158, 8403, 5158, 12618, 1009, 12342, -6643, 16457, -1565,
                -105, -14441, -105, -14441, -105, 9343, -1793, 9343, -1793,
                9343, -14251, -2538, -9088, -2396, 5733, 6762, 5733, 6762,
                5733, 6762, 5733, 6762, 15343, 6762, 15343, 10944, 18873,
                2872, -5321, -14169, -265, 18207, 9825, 18207, 13637,
                -10544, -10286, 3849, -8131, 10601, 3550, 2571, -4554,
                -8091, -4554, -8091, -4554, 6062, -12934, 2884, -11469,
                7374, -11469, -5383, 7851, -8127, 7851, -8127, -14122, 4880,
                2834, 8315, 2834, 8315, -22237, -15, -13190, -5186, -1402,
                -8636, -1402, -8636, 20637, 62, 3766, -396, -5088, 8900,
                -14021, 20863, 29795, -571, -3092, -11366, 5076, -12834,
                15133, -17687, 4571, -10213, -18037, 15976, 517, 3942,
                -19402, 945, -8266, 17533, -5163, -4972, 20316, 11734,
                20316, 11734, 20316, 1251, -14681, -1728, -8672, 1187,
                -8672, 1187, 997, -18989, -32335, -273, -23524, -6811,
                -23524, -5031, 10132, -8096, 10306, 18785, -34257, -18,
                -7146, -18399, -7146, -4483, 11098, 1476, -15786, -7787,
                -15786, -7787, 9325, 8537, 16661, 1249, -5509, 8936, -5577,
                4138, 6870, 4138, -16352, 3894, 3439, 11748, 2777, 11748,
                2777, 9990, -166, -4594, -16133, -4594, -16133, -4660, 2505,
                3889, 2048, 3889, -3640, 5961, 10023, 5126, 7848, 5274,
                -9199, -8900, -15280, 14927, -352, 8577, 10144, 8577, 10144,
                -8989, 8823, 6078, -2279, 6078, -2279, 5457, -2279, -9209,
                -11914, -9209, -11914, -18962, 3211, 10910, 6918, 15054,
                -3593, -8919, 4734, -5145, 7320, -5145, 10635, 3230, -3992,
                14291, 5906, 7921, -8942, 13171, 19527, -20074, 2269,
                -12081, 6129, 15575, 2172, 4800, 9300, -6081, -11840, 17837,
                -26402, 1078, 346, 1623, -9139, 1623, -2863, 9482, -2863,
                6392, 5147, 6392, -15318, 4922, -15318, 2566, 9969, 6137,
                9969, 14196, 7775, -13829, 15729, -5893, -10094, -311,
                -10094, -311, -6372, 9078, -8467, 15639, -2104, 3849, 12228,
                -19714, -26645, 52, 4147, 11620, 4147, -22130, 8254, -22130,
                -369, 5111, 8219, 5111, -1203, -10789, 2230, -2576, 707,
                -6495, 707, 5988, -9914, 5988, -9914, -6923, -9914, -6923,
                -9914, -6923, -9914, -16962, -3128, 19931, -8076, 19931,
                3967, 3861, -2871, 5609, -2871, 5609, -15136, 5609, -15136,
                -4118, -15136, 4170, -24642, -8845, -24642, -333, 3364,
                -2932, 7763, 5988, 7763, 5988, 13590, 5075, -7203, 7625,
                -10136, 14501, -5427, -4698, -12455, 3176, -12455, -4581,
                -5190, 4394, -6429, -2136, -6429, -2136, -8031, -2136, 8694,
                -14846, -2898, -7667, 11880, -7667, 11880, 7433, -9184,
                6563, 10497, 7542, -2609, 7542, -2609, 3291, 5695, 3291,
                5695, 9535, -10622, -1021, -10622, -1021, -10622, -1021,
                7984, -11846, 7984, -5187, -8548, -7649, -2589, 7411, -3950,
                4319, -1798, -3534, 6757, -14475, -3098, 8746, -12283,
                -4092, 6952, 8537, 6159, -16970, 6159, -16970, 6159, -2824,
                2999, 17197, -5000, 17197, 765, 4633, 2136, -4906, -3462,
                9413, -14274, -13716, -8004, 5257, -8004, 5257, 7513, -8481,
                7513, -8481, 9227, 11244, -1484, -3738, 6503, -3738, 10941,
                -26405, 4, -6399, 14998, -6399, 14998, 469, 15546, 8446,
                15546, 20314, 28002, -459, 9288, -9556, -16839, -809, -5921,
                5852, -5921, 5852, 18183, 9, 13555, -2876, 13555, -2876,
                11091, -6433, 11091, -13125, 6605, -13233, 9612, -7362, 872,
                -7362, 872, -8500, 7822, -1784, 8738, -29937, 471, -5675,
                6573, -5675, 6815, -13552, 3348, -9353, 9755, -8033, -14213,
                -7786, 5951, -12046 >>,
            k |-> << 2, 2, 2, 4, 2, 2, 4, 2, 2, 2, 2, 4, 2, 2, 2, 2, 2, 2, 2, 2,
                2, 2, 4, 4, 2, 2, 4, 4, 2, 2, 2, 4, 2, 2, 4, 6, 2, 4, 4, 2,
                2, 2, 2, 2, 2, 4, 4, 2, 2, 2, 2, 2, 2, 2, 2, 4, 8, 2, 6, 4,
                4, 2, 2, 2, 4, 2, 2, 2, 2, 4, 2, 2, 2, 2, 2, 2, 2, 2, 2, 2,
                2, 2, 2, 2, 2, 2, 4, 4, 2, 2, 2, 10, 4, 8, 2, 6, 6, 4, 4, 2,
                2, 2, 2, 2, 2, 4, 2, 2, 4, 2, 2, 2, 2, 2, 2, 2, 6, 6, 4, 4,
                2, 2, 2, 2, 2, 2, 2, 2, 2, 2, 2, 2, 2, 2, 2, 2, 2, 2, 4, 4,
                2, 2, 2, 2, 2, 2, 2, 4, 2, 2, 4, 4, 2, 2, 2, 4, 4, 2, 2, 2,
                2, 4, 4, 2, 2, 2, 2, 2, 2, 2, 2, 2, 2, 2, 2, 4, 2, 2, 2, 2,
                2, 2, 2, 2, 2, 2, 2, 2, 2, 2, 2, 2, 2, 2, 2, 2, 2, 2, 2, 2,
                2, 2, 2, 2, 2, 2, 2, 4, 2, 2, 2, 2, 2, 2, 2, 2, 2, 6, 4, 4,
                2, 2, 2, 2, 2, 2, 2, 2, 2, 2, 2, 2, 2, 2, 2, 2, 2, 4, 2, 2,
                2, 2, 2, 2, 2, 2, 2, 2, 2, 4, 4, 2, 2, 2, 2, 2, 2, 2, 2, 2,
                2, 2, 2, 2, 2, 2, 2, 2, 2, 2, 2, 2, 2, 2, 2, 2, 2, 2, 2, 2,
                2, 2, 2, 4, 4, 2, 2, 2, 2, 2, 2, 2, 2, 2, 4, 4, 2, 2, 2, 2,
                2, 2, 2, 2, 2, 2, 2, 2, 2, 2, 2, 4, 4, 2, 2, 2, 2, 2, 2, 2,
                2, 2, 2, 2, 2, 2, 2, 2, 6, 4, 4, 2, 2, 2, 2, 4, 2, 2, 2, 2,
                2, 4, 4, 2, 2, 2, 2, 2, 4, 2, 2, 2, 2, 4, 4, 2, 2, 2, 2, 2,
                2, 2, 4, 2, 2, 2, 2, 2, 4, 2, 2, 2, 2, 2, 4, 2, 2, 4, 2, 2,
                2, 2, 2, 4, 2, 2, 2, 2, 2, 2, 2, 2, 2, 2, 2, 2, 2, 2, 2, 2,
                2, 2, 2, 2, 2, 2, 2, 8, 4, 6, 2, 4, 4, 2, 2, 2, 4, 4, 2, 2,
                2, 2, 4, 2, 2, 2, 2, 2, 2, 2, 2, 2, 2, 2, 2, 2, 4, 4, 2, 2,
                2, 2, 2, 2, 2, 2, 4, 6, 2, 4, 4, 2, 2, 2, 2, 2, 2, 2, 2, 4,
                4, 2, 2, 2, 2, 2, 2, 2, 2, 2, 2, 6, 2, 4, 2, 2, 2, 2, 2, 2,
                2, 2, 2, 2, 2, 2, 2, 2, 2, 2, 4, 4, 2, 2, 2, 2, 2, 2, 4, 4,
                2, 2, 2, 2, 4, 4, 2, 2, 2, 2, 2, 2, 2, 4, 4, 2, 2, 2, 2, 2,
                2, 2, 2, 4, 4, 2, 2, 2, 2, 2, 2, 2, 2, 2, 2, 2, 4, 4, 2, 2,
                2, 2, 2, 2, 2, 2, 2, 2, 2, 2, 2, 2, 2, 4, 2, 2, 2, 2, 6, 6,
                4, 4, 2, 2, 2, 2, 4, 2, 2, 6, 6, 4, 4, 2, 2, 2, 2, 2, 2, 2,
                2, 2, 2, 2, 2, 6, 4, 4, 2, 2, 2, 2, 2, 2, 2, 4, 4, 2, 2, 2,
                2, 2, 2, 2, 2, 2, 2, 2, 2, 2, 4, 4, 2, 2, 2, 2, 2, 2, 4, 4,
                2, 2, 6, 4, 4, 2, 2, 2, 2, 2, 2, 2, 2, 6, 6, 4, 4, 2, 2, 2,
                2, 2, 2, 2, 2, 2, 2, 2, 4, 4, 2, 2, 2, 4, 2, 2, 2, 2, 2, 6,
                4, 4, 2, 2, 2, 2, 2, 2, 2, 2, 2, 4, 2, 2, 2, 4, 6, 2, 4, 2,
                2, 2, 2, 2, 2, 2, 2, 2, 2, 4, 2, 2, 2, 2, 2, 2, 2, 2, 2, 2,
                4, 2, 2, 2, 2, 2, 2, 2, 2, 2, 4, 2, 2, 2, 2, 2, 2, 4, 2, 2,
                2, 2, 2, 4, 4, 2, 2, 2, 2, 4, 2, 2, 2, 2, 6, 4, 4, 2, 2, 2,
                2, 2, 4, 4, 2, 2, 2, 2, 2, 4, 2, 2, 2, 2, 2, 4, 4, 2, 2, 2,
                6, 6, 4, 4, 2, 2, 2, 2, 2, 2, 2, 2, 2, 2, 2, 2, 2, 4, 2, 2,
                2, 2, 2, 4, 4, 2, 2, 2, 2, 2, 2, 2, 2, 4, 2, 2, 2, 2, 2, 2,
                2, 2, 2, 4, 4, 2, 2, 2, 4, 2, 2, 2, 2, 2, 2, 4, 4, 2, 2, 2,
                2, 2, 2, 2, 2, 2, 2, 2, 2, 2, 2, 2, 2, 4, 2, 2, 2, 4, 2, 2,
                2, 2, 2, 2, 2, 2, 2, 4, 4, 2, 2, 4, 2, 2, 2, 2, 2, 2, 2, 4,
                2, 2, 2, 2, 4, 2, 2, 4, 2, 2, 2, 2, 2, 2, 2, 2, 2, 2, 2, 2,
                2, 2, 2, 4, 4, 2, 2, 2, 2, 2, 2, 4, 2, 2, 2, 2, 2, 2, 4, 4,
                2, 2, 2, 4, 2, 2, 2, 2, 2, 2, 2, 2, 2, 2, 2, 2, 2, 2, 2, 2,
                2, 2, 2, 2, 4, 2, 2, 2, 6, 4, 4, 2, 2, 2, 2, 4, 2, 2, 2, 2,
                4, 2, 2, 6, 4, 4, 2, 2, 2, 2, 2, 2, 2, 2, 4, 2, 2, 2, 2, 2,
                2, 2, 2, 2, 4, 4, 2, 2, 2, 2, 2, 2, 2, 2, 2, 2, 2, 2, 2, 2,
                4, 2, 2, 2, 2, 2, 2, 2, 2, 2, 4, 2, 2, 2, 2, 2, 2, 2, 2, 4,
                4, 2, 2, 2, 2, 2, 2, 2, 2, 2, 2, 2, 2, 2, 2, 2, 2, 2, 2, 2,
                2, 2, 2, 2, 4, 2, 2, 6, 4, 4, 2, 2, 2, 2, 2, 2, 2, 2, 2, 2,
                2, 2, 2, 2, 4, 4, 2, 2, 2, 10, 4, 8, 2, 6, 4, 4, 2, 2, 2, 2,
                2, 4, 4, 2, 2, 2, 6, 4, 4, 2, 2, 4, 2, 2, 6, 4, 4, 2, 2, 2,
                6, 4, 4, 2, 2, 2, 2, 2, 2, 4, 4, 2, 2, 2, 2, 2, 2, 2, 4, 4,
                2, 2, 4, 2, 2, 2, 2, 4, 2, 2, 4, 4, 2, 2, 8, 2, 6, 4, 4, 2,
                2, 2, 2, 2, 4, 4, 2, 2, 2, 2, 2, 2, 4, 2, 2, 2, 4, 2, 2, 2,
                2, 2, 4, 4, 2, 2, 2, 4, 2, 2, 2, 2, 2, 2, 2, 2, 2, 2, 2, 4,
                2, 2, 2, 2, 4, 2, 2, 2, 2, 4, 2, 2, 2, 2, 2, 2, 4, 6, 2, 4,
                4, 2, 2, 2, 2, 2, 2, 2, 2, 2, 2, 2, 4, 4, 2, 2, 2, 2, 2, 2,
                2, 2, 4, 12, 2, 10, 4, 8, 2, 6, 2, 4, 4, 2, 2, 2, 2, 2, 2,
                2, 2, 2, 2, 2, 2, 4, 4, 2, 2, 4, 2, 2, 2, 4, 2, 2, 2, 2, 2,
                2, 2, 4, 2, 2, 4, 2, 2, 4, 2, 2, 2, 2, 2, 2, 2, 6, 6, 4, 4,
                2, 2, 2, 2, 2, 4, 4, 2, 2, 2, 2, 2, 2, 4, 4, 2, 2, 2, 2, 2,
                2, 2, 2, 2, 2, 2, 8, 6, 6, 4, 4, 2, 2, 2, 2, 2, 2, 6, 4, 4,
                2, 2, 2, 4, 2, 2, 2, 4, 4, 2, 2, 2, 2, 2, 4, 2, 2, 2, 2, 2,
                2, 4, 4, 2, 2, 2, 2, 2, 4, 2, 2, 4, 2, 2, 2, 6, 4, 4, 2, 2,
                2, 2, 2, 2, 4, 4, 2, 2, 2, 2, 2, 2, 2, 2, 2, 2, 2, 2, 2, 2,
                2, 2, 2, 2, 2, 2, 2, 4, 2, 2, 2, 2, 2, 2, 2, 2, 4, 2, 2, 2,
                2, 4, 2, 2, 6, 2, 4, 2, 2, 2, 2, 2, 8, 8, 6, 6, 4, 4, 2, 2,
                2, 2, 2, 2, 2, 2, 2, 2, 2, 2, 2, 2, 4, 2, 2, 2, 2, 2, 2, 4,
                2, 2, 2, 4, 2, 2, 2, 2, 4, 2, 2, 2, 2, 6, 4, 4, 2, 2, 2, 2,
                2, 2, 2, 2, 2, 2, 4, 2, 2, 2, 2, 4, 2, 2, 2, 2, 2, 2, 2, 2,
                2, 2, 2, 2, 2, 2, 2, 2, 2, 2, 2, 2, 4, 2, 2, 2, 4, 2, 2, 2,
                2, 2, 2, 2, 2, 2, 4, 2, 2, 2, 2, 2, 2, 2, 2, 2, 2, 4, 10, 2,
                8, 2, 6, 4, 4, 2, 2, 2, 2, 2, 2, 6, 4, 4, 2, 2, 2, 2, 2, 2,
                4, 4, 2, 2, 2, 2, 2, 2, 2, 2, 2, 6, 4, 4, 2, 2, 2, 6, 4, 4,
                2, 2, 4, 2, 2, 2, 2, 2, 2, 2, 2, 2, 2, 2, 4, 2, 2, 10, 8, 8,
                6, 6, 4, 4, 2, 2, 2, 2, 2, 2, 2, 2, 2, 2, 2, 2, 2, 4, 4, 2,
                2, 2, 4, 2, 2, 2, 2, 6, 2, 4, 4, 2, 2, 2, 2, 2, 2, 2, 2, 2,
                2, 2, 2, 2, 2, 2, 2, 2, 2, 2, 2, 2, 2, 2, 4, 4, 2, 2, 4, 2,
                2, 2, 2, 2, 2, 4, 2, 2, 2, 2, 2, 2, 2, 2, 2, 2, 2, 2, 4, 2,
                2, 2, 2, 2, 2, 2, 2, 2, 2, 2, 2, 2, 2, 4, 4, 2, 2, 2, 2, 2,
                2, 6, 6, 4, 4, 2, 2, 2, 2, 2, 2, 2, 2, 2, 2, 2, 2, 2, 2, 2,
                2, 2, 2, 2, 2, 2, 2, 2, 2, 2, 2, 4, 4, 2, 2, 2, 2, 2, 2, 2,
                4, 4, 2, 2, 2, 2, 2, 2, 2, 2, 4, 2, 2, 2, 2, 2, 2, 2, 2, 2,
                6, 6, 4, 4, 2, 2, 2, 2, 2, 2, 2, 2, 2, 2, 2, 2, 2, 6, 4, 4,
                2, 2, 2, 2, 2, 6, 4, 4, 2, 2, 2, 2, 2, 2, 6, 4, 4, 2, 2, 2,
                2, 2, 2, 2, 2, 2, 2, 2, 2, 2, 2, 2, 2, 2, 4, 2, 2, 2, 2, 2,
                2, 2, 2, 2, 4, 2, 2, 2, 2, 2, 4, 4, 2, 2, 2, 2, 2, 2, 2, 2,
                4, 2, 2, 2, 4, 4, 2, 2, 2, 2, 2, 2, 4, 2, 2, 4, 2, 2, 2, 2,
                2, 2, 2, 2, 2, 2, 2, 2, 2, 2, 2, 2, 2, 2, 2, 2, 2, 2, 2, 2,
                2, 2, 2, 2, 2, 2, 2, 2, 4, 2, 2, 2, 2, 2, 2, 2, 2, 2, 2, 2,
                2, 2, 2, 2, 2, 4, 4, 2, 2, 2, 2, 2, 2, 2, 2, 2, 2, 2, 2, 2,
                2, 2, 2, 2, 2, 4, 2, 2, 2, 2, 2, 2, 2, 2, 2, 2, 2, 4, 2, 2,
                2, 2, 2, 2, 2, 2, 2, 2, 4, 4, 2, 2, 2, 2, 2, 2, 4, 2, 2, 2,
                4, 2, 2, 2, 2, 2, 2, 2, 2, 2, 2, 4, 2, 2, 6, 4, 4, 2, 2, 2,
                4, 4, 2, 2, 2, 2, 2, 2, 2, 2, 4, 2, 2, 2, 4, 2, 2, 2, 2, 2,
                2, 2, 2, 2, 2, 2, 2, 4, 2, 2, 2, 2, 2, 2, 2, 2, 2, 2, 2, 2,
                2, 2, 2, 2, 2, 4, 2, 2, 2, 2, 6, 2, 4, 4, 2, 2, 4, 2, 2, 2,
                2, 2, 2, 2, 4, 4, 2, 2, 2, 2, 2, 2, 2, 2, 4, 4, 2, 2, 2, 2,
                2, 2, 2, 2, 2, 2, 2, 2, 2, 2, 2, 2, 2, 2, 2, 2, 2, 2, 2, 2,
                2, 2, 2, 2, 2, 2, 2, 4, 2, 2, 2, 2, 4, 4, 2, 2, 2, 2, 2, 2,
                2, 2, 2, 2, 2, 2, 2, 2, 2, 2, 2, 2, 2, 2, 2, 2, 4, 4, 2, 2,
                2, 2, 2, 2, 2, 4, 2, 2, 4, 4, 2, 2, 2, 2, 2, 2, 2, 2, 6, 4,
                4, 2, 2, 2, 2, 2, 2, 2, 2, 2, 2, 2, 2, 2, 2, 2, 2, 2, 4, 4,
                2, 2, 4, 2, 2, 2, 2, 2, 2, 2, 2, 2, 2, 4, 2, 2, 2, 2, 2, 2,
                2, 2, 2, 2, 2, 4, 2, 2, 2, 2, 2, 2, 2, 6, 4, 4, 2, 2, 2, 2,
                4, 4, 2, 2, 2, 2, 2, 2, 2, 2, 2, 2, 2, 2, 4, 2, 2, 6, 4, 4,
                2, 2, 2, 2, 2, 2, 2, 4, 2, 2, 2, 6, 6, 4, 4, 2, 2, 2, 2, 2,
                2, 2, 2, 2, 2, 2, 2, 2, 4, 2, 2, 2, 2, 2, 2, 2, 2, 2, 2, 2,
                2, 4, 2, 2, 2, 2, 2, 4, 2, 2, 2, 2, 2, 4, 2, 2, 2, 2, 2, 2,
                6, 2, 4, 2, 2, 4, 2, 2, 2, 2, 2, 2, 2, 2, 2, 2, 2, 2, 2, 4,
                4, 2, 2, 2, 2, 6, 2, 4, 2, 2, 2, 2, 4, 6, 2, 4, 4, 2, 2, 4,
                2, 2, 4, 2, 2, 2, 4, 2, 2, 2, 2, 2, 2, 4, 4, 2, 2, 2, 2, 6,
                6, 4, 4, 2, 2, 6, 6, 4, 4, 2, 2, 2, 2, 4, 2, 2, 2, 2, 2, 4,
                2, 2, 4, 2, 2, 2, 2, 2, 2, 2, 2, 2, 2, 2, 8, 2, 6, 4, 4, 2,
                2, 2, 2, 2, 2, 2, 2, 2, 2, 2, 2, 2, 4, 2, 2, 2, 4, 2, 2, 4,
                2, 2, 2, 2, 2, 2, 2, 2, 2, 2, 2, 2, 2, 2, 2, 2, 2, 2, 2, 2,
                2, 2, 2, 2, 2, 4, 2, 2, 2, 2, 2, 2, 2, 2, 4, 10, 2, 8, 6, 6,
                4, 4, 2, 2, 6, 6, 4, 4, 2, 2, 2, 2, 2, 2, 2, 2, 8, 2, 6, 6,
                4, 4, 2, 2, 2, 2, 2, 2, 2, 2, 4, 4, 2, 2, 2, 2, 2, 2, 2, 2,
                2, 2, 2, 2, 4, 4, 2, 2, 2, 2, 2, 6, 4, 4, 2, 2, 4, 4, 2, 2,
                2, 4, 2, 2, 2, 2, 2, 2, 2, 2, 2, 2, 2, 2, 2, 2, 2, 2, 4, 2,
                2, 6, 6, 4, 4, 2, 2, 2, 4, 2, 2, 4, 4, 2, 2, 2, 4, 2, 2, 2,
                4, 2, 2, 4, 4, 2, 2, 2, 2, 4, 2, 2, 2, 2, 2, 2, 2, 4, 2, 2,
                2, 2, 2, 2, 2, 2, 2, 2, 2, 2, 2, 2, 4, 4, 2, 2, 2, 4, 8, 2,
                6, 6, 4, 4, 2, 2, 2, 2, 2, 2, 2, 4, 2, 2, 2, 2, 2, 2, 2, 2,
                2, 2, 2, 2, 2, 2, 2, 2, 2, 2, 2, 6, 4, 4, 2, 2, 2, 2, 2, 2,
                2, 2, 2, 2, 6, 4, 4, 2, 2, 2, 2, 2, 2, 2, 2, 2, 2, 2, 2, 2,
                4, 4, 2, 2, 2, 2, 2, 4, 2, 2, 2, 2, 2, 4, 2, 2, 2, 4, 4, 2,
                2, 2, 2, 2, 2, 2, 2, 2, 2, 4, 2, 2, 2, 2, 2, 2, 2, 2, 2, 2,
                2, 2, 2, 2, 2, 2, 2, 2, 2, 2, 2, 2, 4, 4, 2, 2, 2, 4, 2, 2,
                2, 2, 2, 2, 2, 2, 2, 2, 6, 4, 4, 2, 2, 4, 2, 2, 2, 2, 4, 4,
                2, 2, 2, 2, 4, 2, 2, 4, 2, 2, 2, 2, 2, 2, 2, 2, 2, 2, 2, 2,
                2, 2, 8, 6, 6, 4, 4, 2, 2, 2, 2, 2, 2, 4, 2, 2, 2, 2, 2, 2,
                2, 2, 4, 2, 2, 2, 4, 2, 2, 2, 2, 2, 6, 4, 4, 2, 2, 2, 2, 2,
                2, 2, 6, 4, 4, 2, 2, 2, 2, 2, 2, 2, 2, 2, 2, 2, 2, 2, 2, 2,
                2, 2, 2, 2, 2, 2, 2, 2, 4, 2, 2, 2, 2, 6, 4, 4, 2, 2, 2, 2,
                2, 2, 2, 2, 2, 4, 4, 2, 2, 2, 2, 6, 4, 4, 2, 2, 2, 2, 2, 2,
                2, 6, 2, 4, 4, 2, 2, 8, 2, 6, 6, 4, 4, 2, 2, 2, 2, 2, 4, 2,
                2, 2, 2, 2, 2, 2, 2, 4, 4, 2, 2, 2, 2, 2, 2, 2, 2, 2, 4, 2,
                2, 2, 2, 2, 2, 2, 2, 4, 2, 2, 2, 4, 2, 2, 2, 4, 2, 2, 2, 2,
                2, 2, 2, 2, 2, 2, 2, 2, 2, 2, 2, 4, 2, 2, 2, 2, 2, 2, 2, 2,
                2, 2, 2, 2, 2, 2, 6, 2, 4, 2, 2, 2, 2, 6, 4, 4, 2, 2, 2, 2,
                2, 8, 6, 6, 4, 4, 2, 2, 4, 2, 2, 2, 2, 2, 2, 2, 4, 2, 2, 2,
                2, 2, 2, 2, 2, 4, 4, 2, 2, 4, 4, 2, 2, 2, 4, 2, 2, 4, 4, 2,
                2, 2, 2, 2, 2, 2, 2, 4, 4, 2, 2, 2, 2, 2, 2, 2, 2, 6, 4, 4,
                2, 2, 2, 2, 2, 2, 2, 2, 2, 4, 2, 2, 2, 2, 2, 2, 2, 2, 2, 2,
                2, 2, 4, 2, 2, 2, 2, 2, 2, 2, 2, 4, 2, 2, 2, 4, 2, 2, 4, 2,
                2, 2, 4, 2, 2, 4, 4, 2, 2, 4, 2, 2, 4, 2, 2, 2, 4, 2, 2, 2,
                4, 4, 2, 2, 2, 2, 2, 2, 2, 2, 8, 6, 6, 4, 4, 2, 2, 2, 2, 2,
                2, 2, 2, 2, 2, 2, 2, 2, 2, 2, 2, 2, 2, 2, 2, 2, 4, 4, 2, 2,
                2, 2, 2, 2, 2, 4, 4, 2, 2, 2, 2, 2, 2, 4, 4, 2, 2, 6, 4, 4,
                2, 2, 2, 2, 2, 2, 2, 2, 2, 2, 2, 2, 2, 4, 6, 2, 4, 2, 2, 2,
                2, 2, 2, 4, 2, 2, 2, 4, 2, 2, 2, 2, 2, 2, 2, 2, 4, 2, 2, 2,
                2, 2, 2, 4, 2, 2, 2, 2, 4, 4, 2, 2, 2, 2, 2, 2, 2, 2, 2, 2,
                2, 2, 2, 4, 2, 2, 2, 2, 4, 2, 2, 2, 4, 2, 2, 2, 4, 2, 2, 2,
                2, 4, 4, 2, 2, 2, 2, 2, 2, 2, 2, 2, 2, 2, 2, 2, 2, 2, 6, 6,
                4, 4, 2, 2, 2, 2, 2, 2, 2, 4, 4, 2, 2, 2, 2, 2, 4, 2, 2, 2,
                2, 2, 2, 2, 2, 2, 2, 2, 2, 2, 2, 2, 2, 2, 2, 2, 2, 2, 6, 4,
                4, 2, 2, 2, 2, 2, 2, 4, 4, 2, 2, 2, 2, 2, 2, 2, 2, 2, 2, 4,
                2, 2, 2, 2, 4, 2, 2, 2, 2, 2, 2, 2, 2, 2, 2, 2, 2, 2, 4, 2,
                2, 2, 4, 4, 2, 2, 2, 2, 2, 4, 4, 2, 2, 2, 2, 2, 2, 2, 2, 2,
                2, 2, 2, 2, 2, 2, 2, 2, 2, 2, 2, 2, 6, 4, 4, 2, 2, 8, 6, 6,
                4, 4, 2, 2, 2, 2, 2, 4, 2, 2, 2, 2, 2, 2, 2, 4, 2, 2, 2, 2,
                2, 2, 2, 2, 2, 2, 2, 2, 2, 4, 2, 2, 4, 2, 2, 2, 2, 2, 2, 6,
                6, 4, 4, 2, 2, 2, 2, 6, 4, 4, 2, 2, 2, 2, 2, 2, 4, 2, 2, 2,
                6, 2, 4, 2, 2, 2, 2, 10, 10, 8, 8, 6, 6, 4, 4, 2, 2, 2, 2,
                2, 2, 2, 2, 2, 4, 2, 2, 2, 2, 2, 4, 4, 2, 2, 2, 2, 2, 2, 2,
                2, 2, 4, 2, 2, 2, 2, 2, 2, 4, 4, 2, 2, 2, 2, 2, 2, 2, 2, 2,
                2, 2, 2, 4, 2, 2, 2, 2, 2, 2, 2, 4, 2, 2, 4, 4, 2, 2, 2, 2,
                2, 2, 2, 2, 2, 2, 2, 2, 2, 2, 2, 2, 2, 2, 2, 2, 2, 2, 2, 2,
                2, 2, 2, 2, 2, 2, 4, 2, 2, 2, 2, 2, 2, 2, 2, 2, 2, 4, 4, 2,
                2, 2, 2, 2, 2, 2, 2, 2, 2, 2, 6, 6, 4, 4, 2, 2, 2, 4, 2, 2,
                2, 2, 6, 6, 4, 4, 2, 2, 4, 4, 2, 2, 4, 2, 2, 6, 6, 4, 4, 2,
                2, 2, 4, 2, 2, 2, 2, 2, 2, 2, 2, 4, 2, 2, 2, 2, 2, 2, 2, 2,
                2, 2, 2, 6, 4, 4, 2, 2, 2, 2, 2, 2, 2, 2, 2, 4, 4, 2, 2, 4,
                2, 2, 2, 4, 2, 2, 2, 2, 2, 2, 2, 2, 6, 4, 4, 2, 2, 2, 2, 8,
                2, 6, 4, 4, 2, 2, 2, 2, 2, 2, 4, 4, 2, 2, 4, 2, 2, 2, 2, 2,
                2, 2, 2, 2, 2, 2, 2, 2, 2, 2, 2, 2, 2, 4, 2, 2, 2, 4, 4, 2,
                2, 4, 4, 2, 2, 2, 2, 2, 2, 4, 2, 2, 2, 2, 2, 2, 2, 6, 4, 4,
                2, 2, 2, 2, 2, 2, 2, 2, 2, 2, 2, 4, 4, 2, 2, 2, 2, 2, 2, 2,
                2, 2, 2, 2, 2, 2, 2, 2, 2, 2, 2, 2, 2, 2, 2, 2, 2, 2, 2, 2,
                2, 2, 2, 2, 2, 4, 4, 2, 2, 2, 4, 4, 2, 2, 6, 4, 4, 2, 2, 2,
                2, 2, 2, 4, 2, 2, 2, 2, 4, 2, 2, 2, 2, 2, 2, 2, 2, 2, 2, 2,
                2, 4, 4, 2, 2, 4, 4, 2, 2, 2, 2, 2, 2, 2, 2, 2, 2, 4, 4, 2,
                2, 2, 2, 2, 4, 2, 2, 2, 2, 2, 6, 2, 4, 6, 2, 4, 4, 2, 2, 2,
                2, 4, 2, 2, 4, 4, 2, 2, 2, 2, 2, 4, 4, 2, 2, 2, 4, 2, 2, 2,
                4, 2, 2, 6, 2, 4, 4, 2, 2, 2, 2, 2, 6, 4, 4, 2, 2, 2, 2, 2,
                2, 6, 4, 4, 2, 2, 2, 2, 2, 2, 4, 4, 2, 2, 2, 2, 6, 4, 4, 2,
                2, 2, 2, 4, 4, 2, 2, 2, 4, 6, 2, 4, 4, 2, 2, 2, 2, 2, 2, 2,
                2, 2, 2, 4, 2, 2, 2, 4, 2, 2, 2, 2, 4, 2, 2, 4, 4, 2, 2, 2,
                2, 2, 2, 2, 2, 2, 2, 2, 2, 2, 2, 2, 2, 4, 4, 2, 2, 2, 2, 2,
                2, 2, 2, 2, 2, 2, 4, 2, 2, 4, 2, 2, 2, 2, 2, 2, 2, 4, 4, 2,
                2, 2, 2, 2, 2, 2, 4, 4, 2, 2, 2, 2, 2, 2, 2, 2, 4, 4, 2, 2,
                2, 2, 2, 2, 2, 2, 2, 2, 2, 4, 2, 2, 2, 2, 2, 2, 2, 2, 2, 4,
                4, 2, 2, 2, 2, 2, 2, 2, 2, 2, 4, 4, 2, 2, 2, 4, 4, 2, 2, 2,
                2, 2, 2, 2, 2, 2, 2, 2, 2, 2, 4, 2, 2, 2, 2, 2, 2, 6, 4, 4,
                2, 2, 2, 2, 2, 2, 4, 2, 2, 4, 2, 2, 2, 2, 2, 2, 2, 2, 2, 2,
                2, 2, 2, 2, 2, 2, 6, 2, 4, 4, 2, 2, 2, 2, 2, 6, 2, 4, 4, 2,
                2, 2, 2, 2, 2, 2, 4, 2, 2, 2, 2, 2, 2, 4, 2, 2, 2, 2, 2, 2,
                2, 2, 2, 2, 2, 2, 2, 2, 2, 2, 2, 2, 2, 2, 2, 2, 2, 2, 2, 2,
                2, 2, 2, 2, 2, 2, 2, 2, 2, 2, 2, 2, 6, 4, 4, 2, 2, 2, 2, 2,
                2, 2, 2, 2, 2, 2, 2, 2, 2, 2, 2, 2, 2, 2, 2, 2, 2, 2, 2, 2,
                2, 2, 2, 2, 2, 2, 4, 4, 2, 2, 2, 8, 6, 6, 4, 4, 2, 2, 2, 2,
                2, 2, 2, 2, 2, 2, 2, 4, 4, 2, 2, 2, 2, 2, 2, 4, 4, 2, 2, 2,
                2, 4, 4, 2, 2, 2, 2, 2, 2, 4, 4, 2, 2, 4, 4, 2, 2, 2, 2, 2,
                2, 2, 2, 2, 2, 2, 2, 2, 2, 2, 4, 2, 2, 2, 2, 2, 2, 2, 2, 2,
                4, 2, 2, 2, 2, 2, 2, 2, 2, 2, 2, 2, 2, 2, 2, 2, 2, 4, 4, 2,
                2, 2, 2, 2, 4, 2, 2, 4, 2, 2, 2, 2, 2, 2, 2, 4, 2, 2, 2, 4,
                4, 2, 2, 2, 2, 4, 6, 2, 4, 2, 2, 2, 2, 4, 2, 2, 2, 2, 2, 2,
                2, 2, 2, 4, 2, 2, 2, 2, 4, 4, 2, 2, 2, 2, 2, 2, 2, 2, 2, 2,
                4, 2, 2, 4, 2, 2, 2, 2, 2, 2, 2, 2, 2, 2, 2, 2, 4, 4, 2, 2,
                2, 2, 2, 2, 2, 2, 2, 2, 2, 2, 2, 4, 6, 2, 4, 2, 2, 2, 2, 2,
                2, 4, 2, 2, 2, 2, 4, 2, 2, 2, 2, 2, 2, 2, 2, 2, 2, 2, 2, 4,
                4, 2, 2, 2, 2, 4, 4, 2, 2, 4, 2, 2, 2, 2, 2, 2, 2, 2, 2, 2,
                2, 2, 2, 2, 2, 2, 2, 2, 2, 4, 2, 2, 2, 2, 2, 4, 6, 2, 4, 2,
                2, 2, 2, 2, 2, 2, 2, 2, 2, 2, 2, 4, 4, 2, 2, 2, 2, 2, 2, 2,
                2, 2, 2, 2, 4, 2, 2, 4, 2, 2, 2, 2, 2, 2, 2, 2, 2, 4, 2, 2,
                2, 2, 2, 2, 2, 2, 2, 2, 2, 4, 2, 2, 2, 2, 6, 2, 4, 2, 2, 2,
                2, 2, 2, 2, 2, 2, 4, 4, 2, 2, 2, 2, 4, 4, 2, 2, 2, 2, 2, 2,
                2, 2, 4, 2, 2, 2, 2, 2, 2, 2, 2, 2, 2, 8, 4, 6, 2, 4, 2, 2,
                2, 6, 4, 4, 2, 2, 4, 2, 2, 2, 2, 6, 4, 4, 2, 2, 4, 2, 2, 2,
                4, 4, 2, 2, 2, 2, 2, 2, 2, 2, 2, 2, 2, 2, 2, 2, 2, 2, 2, 6,
                4, 4, 2, 2, 4, 2, 2, 2, 4, 4, 2, 2, 2, 2, 4, 4, 2, 2, 2, 4,
                2, 2, 2, 2, 2, 2, 2, 2, 2, 2, 2, 2, 2, 2, 2, 2, 2, 2, 2, 2,
                2, 2, 2, 2, 2, 2, 2, 2, 2, 2, 2, 2, 2, 2, 2, 2, 2, 6, 2, 4,
                2, 2, 4, 2, 2, 2, 4, 4, 2, 2, 2, 2, 2, 4, 2, 2, 2, 2, 2, 2,
                2, 2, 2, 2, 2, 2, 4, 2, 2, 2, 2, 2, 2, 2, 2, 2, 2, 2, 2, 2,
                2, 2, 4, 2, 2, 2, 2, 4, 4, 2, 2, 2, 2, 2, 10, 8, 8, 6, 6, 4,
                4, 2, 2, 2, 4, 2, 2, 2, 2, 2, 2, 2, 2, 2, 4, 2, 2, 2, 2, 2,
                2, 4, 2, 2, 2, 2, 4, 2, 2, 2, 2, 2, 2, 2, 2, 4, 2, 2, 2, 2,
                2, 2, 4, 4, 2, 2, 2, 2, 2, 2, 2, 4, 2, 2, 4, 2, 2, 2, 2, 4,
                2, 2, 6, 4, 4, 2, 2, 2, 4, 2, 2, 2, 2, 2, 2, 6, 4, 4, 2, 2,
                2, 2, 2, 2, 2, 2, 2, 2, 2, 4, 2, 2, 2, 2, 2, 2, 2, 2, 4, 4,
                2, 2, 2, 2, 2, 2, 2, 2, 2, 2, 2, 2, 2, 2, 2, 2, 2, 2, 4, 2,
                2, 2, 2, 6, 8, 4, 6, 2, 4, 2, 2, 6, 4, 4, 2, 2, 2, 2, 2, 2,
                4, 4, 2, 2, 2, 2, 2, 2, 2, 2, 2, 4, 4, 2, 2, 2, 4, 4, 2, 2,
                6, 4, 4, 2, 2, 2, 4, 4, 2, 2, 2, 4, 2, 2, 2, 2, 2, 6, 6, 4,
                4, 2, 2, 2, 2, 2, 2, 2, 2, 2, 2, 2, 2, 2, 2, 2, 2, 2, 2, 2,
                2, 2, 2, 2, 2, 2, 2, 4, 2, 2, 2, 2, 2, 2, 4, 4, 2, 2, 2, 4,
                4, 2, 2, 2, 2, 2, 4, 4, 2, 2, 2, 8, 6, 6, 4, 4, 2, 2, 2, 2,
                2, 6, 10, 4, 8, 2, 6, 6, 4, 4, 2, 2, 2, 2, 2, 4, 4, 2, 2, 2,
                4, 2, 2, 2, 4, 4, 2, 2, 2, 4, 4, 2, 2, 2, 2, 2, 2, 2, 2, 2,
                2, 2, 2, 2, 2, 2, 2, 2, 2, 2, 2, 2, 4, 4, 2, 2, 2, 2, 2, 2,
                2, 2, 2, 2, 2, 2, 2, 2, 2, 4, 2, 2, 2, 2, 2, 2, 2, 2, 2, 2,
                2, 4, 2, 2, 2, 2, 2, 4, 2, 2, 2, 4, 4, 2, 2, 2, 2, 2, 2, 2,
                2, 2, 2, 2, 2, 2, 2, 2, 4, 8, 2, 6, 6, 4, 4, 2, 2, 2, 2, 2,
                4, 2, 2, 2, 2, 2, 2, 4, 2, 2, 4, 4, 2, 2, 2, 2, 2, 2, 2, 2,
                2, 4, 4, 2, 2, 2, 2, 2, 2, 2, 2, 2, 2, 4, 2, 2, 2, 2, 4, 2,
                2, 2, 2, 2, 4, 4, 2, 2, 2, 2, 2, 2, 6, 4, 4, 2, 2, 2, 2, 6,
                2, 4, 2, 2, 2, 2, 2, 2, 4, 2, 2, 2, 2, 2, 4, 2, 2, 2, 2, 2,
                2, 2, 4, 2, 2, 2, 4, 2, 2, 2, 2, 2, 2, 2, 2, 2, 2, 2, 2, 2,
                2, 2, 2, 2, 2, 2, 2, 4, 4, 2, 2, 2, 2, 6, 2, 4, 2, 2, 2, 2,
                2, 2, 2, 2, 2, 2, 2, 4, 4, 2, 2, 2, 2, 2, 2, 8, 6, 6, 4, 4,
                2, 2, 2, 2, 4, 4, 2, 2, 2, 2, 2, 2, 2, 2, 4, 4, 2, 2, 2, 2,
                2, 2, 2, 2, 2, 2, 2, 2, 2, 4, 4, 2, 2, 2, 2, 2, 2, 2, 2, 2,
                2, 2, 2, 2, 2, 2, 2, 4, 2, 2, 2, 2, 2, 2, 2, 4, 2, 2, 2, 2,
                2, 4, 4, 2, 2, 2, 2, 2, 2, 2, 2, 2, 2, 2, 2, 2, 2, 2, 2, 2,
                2, 2, 2, 6, 2, 4, 2, 2, 2, 2, 2, 4, 2, 2, 2, 2, 4, 2, 2, 2,
                2, 2, 2, 2, 4, 2, 2, 2, 2, 2, 2, 2, 2, 2, 6, 4, 4, 2, 2, 2,
                2, 2, 2, 4, 2, 2, 2, 2, 2, 4, 2, 2, 2, 4, 2, 2, 6, 6, 4, 4,
                2, 2, 2, 2, 2, 2, 2, 2, 2, 2, 4, 2, 2, 4, 4, 2, 2, 2, 2, 2,
                2, 2, 2, 4, 2, 2, 6, 4, 4, 2, 2, 2, 4, 2, 2, 2, 4, 4, 2, 2,
                2, 2, 2, 2, 2, 2, 2, 2, 2, 2, 2, 2, 2, 2, 2, 4, 2, 2, 2, 2,
                2, 2, 2, 2, 2, 2, 2, 2, 2, 2, 2, 2, 2, 4, 2, 2, 2, 2, 2, 2,
                4, 2, 2, 2, 2, 2, 2, 2, 4, 4, 2, 2, 2, 2, 2, 4, 4, 2, 2, 2,
                2, 2, 2, 2, 2, 2, 2, 2, 2, 2, 2, 2, 2, 2, 2, 2, 4, 2, 2, 4,
                4, 2, 2, 2, 2, 2, 2, 4, 2, 2, 2, 2, 2, 2, 2, 2, 2, 2, 2, 2,
                2, 2, 2, 2, 2, 2, 2, 2, 2, 2, 2, 2, 2, 2, 2, 2, 2, 2, 2, 4,
                2, 2, 2, 2, 2, 4, 2, 2, 2, 2, 2, 4, 2, 2, 2, 2, 2, 2, 2, 2,
                2, 2, 2, 2, 4, 2, 2, 2, 2, 2, 2, 2, 2, 2, 2, 2, 2, 2, 4, 2,
                2, 2, 2, 6, 6, 4, 4, 2, 2, 4, 2, 2, 2, 2, 2, 4, 2, 2, 2, 4,
                2, 2, 2, 2, 2, 2, 2, 2, 2, 2, 2, 2, 2, 2, 4, 2, 2, 4, 2, 2,
                2, 2, 2, 2, 2, 4, 2, 2, 2, 2, 2, 2, 2, 2, 6, 4, 4, 2, 2, 6,
                4, 4, 2, 2, 2, 2, 2, 2, 8, 10, 6, 8, 4, 6, 2, 4, 4, 2, 2, 2,
                2, 2, 2, 2, 2, 4, 2, 2, 2, 2, 2, 2, 2, 2, 2, 2, 6, 4, 4, 2,
                2, 2, 2, 2, 4, 2, 2, 2, 4, 4, 2, 2, 2, 2, 4, 4, 2, 2, 2, 2,
                2, 2, 4, 4, 2, 2, 2, 2, 2, 2, 2, 2, 2, 2, 2, 2, 2, 2, 2, 2,
                2, 2, 2, 2, 2, 2, 2, 2, 2, 2, 2, 2, 2, 2, 6, 4, 4, 2, 2, 2,
                2, 2, 4, 4, 2, 2, 2, 2, 2, 2, 4, 2, 2, 2, 2, 2, 2, 2, 2, 2,
                4, 2, 2, 2, 2, 2, 4, 4, 2, 2, 2, 2, 2, 2, 2, 2, 2, 4, 2, 2,
                2, 2, 2, 4, 4, 2, 2, 2, 2, 4, 4, 2, 2, 2, 2, 4, 2, 2, 2, 2,
                2, 2, 2, 2, 2, 2, 2, 2, 2, 4, 4, 2, 2, 2, 2, 4, 6, 2, 4, 2,
                2, 4, 4, 2, 2, 2, 2, 2, 2, 2, 2, 2, 2, 4, 2, 2, 2, 2, 2, 2,
                2, 2, 2, 2, 2, 2, 2, 2, 2, 2, 2, 2, 2, 2, 2, 2, 2, 2, 2, 4,
                2, 2, 4, 2, 2, 4, 2, 2, 4, 2, 2, 2, 4, 2, 2, 2, 2, 2, 2, 2,
                4, 4, 2, 2, 2, 2, 2, 2, 2, 2, 2, 2, 2, 2, 4, 2, 2, 4, 2, 2,
                2, 4, 2, 2, 2, 2, 2, 2, 4, 2, 2, 4, 10, 2, 8, 6, 6, 4, 4, 2,
                2, 2, 2, 4, 2, 2, 2, 2, 4, 6, 2, 4, 6, 2, 4, 2, 2, 2, 4, 2,
                2, 2, 2, 2, 4, 4, 2, 2, 2, 2, 2, 2, 2, 2, 2, 2, 4, 2, 2, 2,
                2, 2, 4, 6, 2, 4, 2, 2, 2, 2, 2, 4, 4, 2, 2, 2, 2, 2, 2, 4,
                4, 2, 2, 4, 4, 2, 2, 2, 6, 6, 4, 4, 2, 2, 4, 2, 2, 2, 2, 2,
                2, 2, 2, 2, 2, 2, 2, 2, 2, 2, 2, 2, 2, 2, 6, 4, 4, 2, 2, 2,
                2, 4, 2, 2, 2, 2, 2, 2, 2, 2, 2, 2, 4, 4, 2, 2, 4, 4, 2, 2,
                2, 2, 2, 4, 2, 2, 2, 2, 2, 4, 4, 2, 2, 2, 4, 2, 2, 2, 2, 2,
                2, 2, 2, 2, 4, 4, 2, 2, 2, 2, 4, 4, 2, 2, 4, 2, 2, 2, 2, 2,
                2, 4, 4, 2, 2, 2, 2, 2, 2, 2, 2, 4, 2, 2, 2, 2, 2, 2, 2, 2,
                2, 2, 4, 4 >>])
    @@ (386 :> [u |-> << 738, 440, 831, 100, 639, 964, 407, 114, 49, 353, 736, 269,
                569, 636, 790, 984, 55, 400, 305, 340, 651, 4, 598, 172,
                309, 495, 453, 859, 485, 904, 228, 622, 458, 464, 232, 401,
                994, 774, 128, 767, 48, 838, 968, 344, 212, 60, 256, 328,
                821, 410, 468, 982, 256, 946, 463, 510, 403, 548, 726, 175,
                433, 833, 954, 945, 744, 127, 514, 53, 647, 371, 625, 441,
                501, 749, 262, 249, 683, 205, 837, 117, 853, 641, 7, 145,
                925, 347, 723, 63, 240, 969, 365, 203, 60, 493, 513, 697,
                736, 888, 15, 705, 554, 41, 969, 220, 684, 906, 337, 465,
                745, 474, 832, 892, 795, 597, 560, 375, 811, 170, 191, 343,
                777, 357, 486, 384, 867, 522, 873, 659, 706, 232, 914, 430,
                900, 206, 390, 802, 901, 186, 876, 851, 621, 819, 459, 630,
                205, 359, 151, 507, 509, 378, 545, 208, 706, 401, 102, 685,
                126, 827, 383, 157, 40, 968, 736, 988, 201, 703, 377, 611,
                0, 937, 516, 122, 652, 808, 539, 834, 172, 997, 297, 475,
                353, 191, 488, 687, 473, 513, 447, 624, 146, 409, 377, 872,
                282, 429, 49, 253, 78, 356, 432, 3, 714, 113, 567, 122, 818,
                537, 835, 237, 746, 708, 4, 373, 215, 556, 13, 476, 705,
                419, 35, 660, 889, 559, 935, 656, 526, 468, 189, 117, 756,
                63, 484, 305, 826, 524, 191, 124, 631, 499, 849, 523, 809,
                517, 148, 77, 719, 30, 177, 627, 431, 267, 166, 538, 725,
                278, 938, 510, 98, 493, 381, 955, 647, 895, 224, 437, 92,
                54, 816, 338, 594, 539, 13, 149, 664, 152, 409, 771, 61,
                213, 827, 307, 44, 383, 605, 156, 990, 685, 467, 160, 240,
                423, 745, 47, 789, 254, 67, 208, 289, 477, 406, 83, 105,
                598, 416, 779, 981, 922, 438, 845, 132, 483, 128, 394, 275,
                459, 768, 636, 414, 99, 934, 959, 532, 618, 486, 329, 75,
                248, 780, 803, 604, 638, 802, 536, 224, 697, 671, 173, 38,
                842, 650, 286, 405, 137, 674, 3, 945, 888, 686, 911, 642,
                742, 932, 987, 239, 341, 562, 248, 98, 577, 113, 395, 142,
                709, 634, 10, 458, 813, 158, 442, 754, 301, 541, 377, 954,
                60, 144, 155, 223, 117, 163, 190, 610, 889, 919, 844, 956,
                72, 245, 351, 383, 889, 693, 122, 219, 381, 297, 393, 348,
                466, 411, 447, 330, 150, 517, 720, 810, 427, 798, 480, 827,
                912, 325, 298, 583, 309, 718, 134, 233, 173, 936, 171, 76,
                671, 970, 326, 712, 312, 511, 910, 792, 494, 676, 724, 439,
                746, 456, 497, 889, 562, 426, 990, 838, 476, 122, 855, 738,
                572, 425, 118, 852, 381, 96, 483, 634, 835, 95, 216, 789,
                96, 972, 583, 216, 544, 239, 580, 210, 578, 140, 24, 534,
                619, 938, 711, 350, 138, 722, 601, 917, 12, 131, 515, 322,
                195, 515, 11, 887, 186, 237, 774, 874, 908, 965, 638, 770,
                384, 690, 967, 292, 183, 786, 940, 495, 13, 409, 491, 658,
                531, 604, 990, 628, 928, 257, 697, 5, 248, 788, 55, 122,
                319, 710, 243, 551, 410, 595, 971, 586, 635, 948, 204, 252,
                292, 351, 222, 76, 297, 425, 62, 296, 193, 304, 227, 615,
                934, 359, 628, 857, 120, 933, 797, 558, 739, 331, 990, 383,
                520, 178, 527, 747, 470, 621, 100, 994, 535, 173, 665, 956,
                843, 59, 786, 877, 492, 619, 457, 463, 463, 667, 226, 334,
                263, 488, 632, 391, 829, 66, 173, 241, 671, 365, 650, 168,
                615, 672, 182, 748, 979, 812, 213, 127, 150, 589, 209, 623,
                367, 555, 480, 887, 666, 751, 575, 453, 210, 925, 827, 155,
                341, 84, 814, 13, 578, 241, 988, 981, 247, 813, 896, 33,
                683, 257, 86, 924, 546, 944, 901, 725, 682, 187, 744, 57,
                765, 558, 757, 628, 498, 889, 565, 874, 157, 904, 356, 466,
                803, 642, 69, 575, 13, 706, 130, 672, 642, 591, 144, 444,
                492, 392, 877, 472, 529, 418, 881, 250, 838, 708, 221, 338,
                178, 678, 104, 40, 926, 584, 124, 526, 921, 787, 339, 531,
                163, 878, 695, 220, 814, 52, 289, 196, 427, 242, 69, 776,
                184, 36, 762, 359, 189, 18, 272, 321, 862, 59, 648, 445,
                530, 940, 895, 756, 164, 855, 402, 598, 646, 67, 336, 305,
                486, 778, 331, 232, 222, 155, 958, 608, 205, 293, 42, 239,
                982, 650, 167, 959, 698, 60, 588, 512, 277, 607, 18, 152,
                187, 882, 898, 239, 968, 193, 159, 426, 38, 932, 409, 380,
                222, 759, 681, 326, 867, 732, 522, 201, 858, 9, 149, 954,
                399, 315, 539, 824, 801, 166, 390, 42, 814, 513, 770, 14,
                35, 613, 587, 799, 389, 565, 908, 937, 742, 472, 227, 943,
                315, 312, 40, 914, 435, 649, 392, 132, 114, 736, 558, 292,
                303, 295, 242, 21, 165, 791, 734, 653, 295, 170, 684, 853,
                217, 966, 957, 893, 8, 718, 95, 162, 869, 167, 296, 159,
                638, 356, 403, 872, 12, 250, 465, 717, 125, 719, 879, 86,
                185, 614, 977, 92, 587, 731, 783, 969, 292, 477, 175, 11,
                871, 715, 323, 611, 703, 429, 963, 946, 559, 108, 84, 336,
                635, 799, 915, 980, 997, 991, 638, 334, 525, 925, 294, 33,
                609, 459, 771, 337, 601, 235, 497, 548, 103, 338, 176, 905,
                439, 880, 44, 483, 682, 347, 335, 841, 208, 765, 623, 994,
                678, 237, 421, 638, 379, 726, 104, 742, 164, 603, 541, 819,
                78, 49, 949, 606, 449, 793, 889, 100, 342, 551, 553, 434,
                41, 884, 246, 871, 575, 835, 785, 954, 403, 205, 760, 387,
                293, 742, 588, 489, 278, 13, 323, 559, 716, 904, 819, 647,
                621, 24, 790, 699, 638, 931, 748, 104, 393, 571, 829, 205,
                929, 222, 528, 750, 122, 773, 824, 572, 951, 576, 787, 73,
                469, 836, 767, 209, 229, 489, 677, 404, 187, 317, 307, 727,
                62, 907, 312, 416, 968, 567, 880, 929, 926, 60, 914, 725,
                750, 293, 277, 631, 716, 558, 71, 425, 794, 920, 0, 419,
                419, 69, 865, 480, 207, 935, 789, 228, 527, 160, 768, 40,
                569, 187, 308, 188, 253, 24, 573, 89, 447, 245, 153, 340,
                876, 434, 34, 667, 277, 244, 757, 755, 595, 477, 937, 263,
                770, 363, 85, 483, 412, 755, 385, 216, 861, 874, 377, 550,
                784, 737, 970, 493, 933, 695, 314, 198, 457, 190, 583, 762,
                258, 622, 892, 996, 253, 483, 458, 698, 536, 735, 830, 794,
                548, 7, 137, 97, 252, 981, 339, 956, 121, 755, 83, 172, 243,
                593, 173, 645, 364, 231, 804, 947, 822, 235, 948, 802, 392,
                928, 29, 120, 523, 116, 73, 252, 375, 443, 406, 478, 113,
                804, 414, 493, 310, 337, 735, 840, 498, 338, 717, 364, 345,
                917, 115, 811, 266, 579, 995, 883, 680, 849, 236, 780, 394,
                262, 49, 853, 450, 245, 519, 599, 546, 69, 697, 770, 116,
                115, 874, 286, 440, 182, 205, 986, 825, 452, 38, 435, 604,
                419, 350, 604, 243, 8, 838, 371, 617, 314, 230, 204, 970,
                877, 6, 756, 45, 712, 391, 161, 862, 732, 808, 207, 344, 9,
                766, 415, 787, 16, 529, 483, 196, 157, 171, 910, 516, 303,
                388, 709, 417, 943, 791, 879, 993, 964, 100, 117, 458, 698,
                505, 538, 321, 414, 499, 290, 921, 376, 632, 138, 848, 715,
                127, 879, 705, 113, 920, 887, 150, 976, 736, 266, 659, 717,
                79, 945, 938, 673, 702, 479, 793, 250, 43, 45, 195, 49, 856,
                750, 471, 261, 355, 894, 129, 891, 289, 692, 587, 318, 818,
                551, 297, 674, 425, 874, 959, 865, 216, 321, 171, 245, 851,
                703, 494, 120, 891, 624, 332, 163, 624, 823, 257, 327, 834,
                789, 501, 814, 601, 581, 50, 398, 503, 700, 370, 472, 573,
                157, 433, 344, 946, 777, 104, 976, 409, 794, 814, 334, 648,
                258, 924, 719, 352, 692, 246, 933, 722, 427, 769, 503, 442,
                412, 446, 56, 258, 996, 561, 255, 447, 799, 43, 761, 617,
                813, 331, 870, 360, 477, 782, 746, 305, 946, 821, 405, 118,
                578, 550, 452, 543, 563, 39, 337, 27, 654, 25, 135, 415,
                550, 114, 129, 671, 824, 184, 193, 27, 460, 106, 905, 138,
                335, 516, 0, 455, 376, 98, 574, 234, 159, 851, 445, 366,
                656, 526, 843, 773, 559, 711, 962, 398, 83, 810, 79, 861,
                494, 431, 413, 363, 876, 708, 542, 178, 216, 888, 93, 730,
                452, 237, 303, 954, 569, 771, 858, 350, 273, 588, 566, 932,
                358, 818, 18, 281, 3, 167, 598, 584, 105, 603, 607, 481,
                323, 162, 762, 532, 568, 73, 256, 510, 82, 960, 42, 415,
                661, 356, 4, 147, 331, 630, 741, 640, 486, 32, 376, 530,
                405, 164, 434, 43, 195, 247, 577, 615, 713, 474, 54, 961,
                713, 171, 123, 349, 649, 6, 911, 797, 432, 783, 254, 356,
                738, 571, 102, 479, 174, 116, 745, 784, 453, 439, 515, 830,
                889, 275, 712, 714, 298, 21, 705, 546, 777, 413, 653, 435,
                466, 501, 427, 737, 46, 71, 685, 941, 644, 426, 405, 87,
                213, 657, 595, 709, 125, 948, 124, 318, 62, 156, 902, 140,
                434, 469, 498, 510, 817, 133, 208, 437, 345, 673, 313, 236,
                787, 6, 326, 646, 77, 501, 195, 381, 660, 611, 821, 42, 359,
                11, 325, 639, 419, 434, 190, 274, 444, 424, 267, 866, 279,
                601, 881, 252, 775, 77, 956, 2, 319, 502, 556, 679, 142,
                732, 729, 759, 289, 780, 227, 809, 516, 654, 864, 229, 134,
                774, 98, 657, 581, 387, 169, 803, 112, 449, 308, 149, 608,
                914, 722, 435, 422, 25, 925, 62, 611, 349, 798, 86, 886,
                857, 515, 767, 193, 319, 180, 494, 244, 482, 141, 289, 357,
                701, 749, 615, 552, 126, 443, 853, 214, 192, 699, 778, 5,
                984, 824, 706, 218, 147, 123, 290, 175, 452, 841, 520, 61,
                781, 646, 112, 809, 221, 282, 150, 905, 208, 314, 366, 842,
                432, 854, 117, 240, 184, 450, 473, 689, 826, 659, 404, 618,
                292, 422, 975, 238, 197, 726, 293, 213, 820, 910, 641, 659,
                744, 813, 135, 82, 577, 624, 36, 757, 444, 527, 969, 225,
                577, 487, 217, 331, 337, 47, 925, 811, 665, 578, 971, 893,
                708, 700, 726, 608, 645, 970, 165, 213, 866, 35, 770, 575,
                942, 744, 467, 977, 581, 217, 320, 680, 313, 740, 924, 53,
                318, 569, 135, 338, 501, 64, 847, 667, 139, 409, 277, 361,
                248, 682, 147, 927, 32, 381, 250, 219, 304, 862, 861, 581,
                535, 515, 382, 688, 243, 44, 53, 50, 29, 168, 541, 28, 786,
                518, 167, 407, 650, 413, 343, 690, 620, 40, 707, 18, 587,
                397, 226, 179, 993, 551, 122, 65, 671, 937, 910, 641, 467,
                996, 567, 641, 293, 719, 676, 677, 843, 400, 676, 52, 906,
                593, 212, 841, 296, 346, 944, 233, 638, 956, 748, 99, 407,
                989, 381, 610, 141, 931, 460, 350, 678, 919, 957, 463, 720,
                777, 87, 327, 924, 975, 246, 302, 828, 915, 25, 672, 380,
                150, 840, 62, 7, 216, 246, 575, 791, 238, 401, 595, 490,
                697, 758, 100, 778, 757, 730, 718, 906, 83, 845, 57, 794,
                861, 613, 789, 592, 656, 870, 798, 203, 380, 415, 103, 237,
                650, 299, 478, 90, 583, 801, 363, 764, 836, 521, 103, 863,
                286, 390, 147, 672, 458, 137, 323, 569, 913, 532, 926, 830,
                661, 178, 474, 299, 215, 250, 157, 316, 122, 923, 466, 493,
                799, 92, 562, 136, 287, 897, 413, 120, 759, 87, 582, 164,
                215, 19, 706, 670, 969, 632, 89, 107, 165, 220, 674, 610,
                138, 221, 962, 212, 434, 88, 707, 689, 898, 317, 13, 536,
                204, 311, 786, 822, 213, 479, 914, 112, 827, 381, 865, 562,
                477, 684, 982, 187, 894, 748, 603, 483, 820, 522, 226, 504,
                449, 847, 134, 771, 880, 217, 406, 547, 782, 551, 354, 336,
                276, 639, 938, 499, 360, 270, 508, 146, 575, 385, 205, 296,
                231, 968, 305, 676, 610, 627, 557, 807, 557, 275, 3, 257,
                866, 297, 86, 791, 7, 703, 58, 575, 402, 600, 531, 629, 772,
                478, 379, 56, 254, 442, 11, 638, 737, 389, 947, 592, 196,
                862, 246, 544, 74, 370, 278, 261, 263, 84, 282, 748, 334,
                21, 47, 85, 916, 688, 8, 867, 747, 641, 393, 807, 529, 289,
                15, 427, 885, 336, 737, 507, 851, 52, 986, 991, 397, 471,
                951, 899, 65, 976, 573, 978, 142, 786, 415, 935, 978, 939,
                604, 179, 49, 274, 247, 760, 809, 367, 986, 107, 697, 501,
                126, 553, 514, 695, 325, 919, 637, 436, 286, 385, 120, 129,
                934, 677, 234, 424, 880, 8, 818, 595, 805, 33, 727, 709,
                409, 622, 844, 678, 248, 709, 179, 495, 901, 863, 715, 788,
                372, 145, 149, 264, 112, 341, 810, 609, 68, 674, 660, 272,
                253, 495, 992, 613, 509, 24, 670, 10, 144, 848, 50, 189,
                663, 655, 2, 35, 155, 178, 930, 375, 395, 965, 650, 857, 56,
                919, 650, 816, 853, 822, 305, 992, 898, 128, 597, 507, 280,
                492, 620, 761, 602, 948, 20, 814, 97, 68, 390, 149, 303,
                301, 887, 837, 7, 673, 809, 895, 501, 622, 948, 680, 721,
                425, 495, 223, 298, 938, 117, 965, 920, 4, 961, 823, 122,
                802, 448, 213, 483, 529, 905, 946, 380, 616, 461, 957, 965,
                743, 445, 351, 241, 21, 131, 8, 318, 242, 264, 961, 175,
                413, 350, 191, 773, 190, 180, 772, 188, 36, 145, 205, 336,
                428, 840, 835, 263, 848, 390, 290, 385, 379, 87, 711, 161,
                548, 487, 535, 282, 655, 617, 296, 569, 676, 980, 792, 619,
                705, 970, 596, 99, 730, 246, 845, 811, 45, 113, 843, 480,
                149, 708, 336, 458, 709, 608, 94, 141, 932, 3, 515, 739, 34,
                795, 768, 408, 59, 876, 848, 838, 779, 417, 13, 961, 811,
                714, 828, 213, 70, 425, 179, 601, 28, 21, 492, 280, 597,
                785, 380, 721, 693, 932, 830, 161, 849, 754, 102, 757, 815,
                21, 17, 885, 239, 246, 212, 57, 112, 579, 849, 512, 731,
                277, 632, 908, 504, 806, 304, 821, 517, 752, 346, 233, 260,
                932, 320, 463, 505, 221, 888, 178, 575, 420, 781, 282, 596,
                156, 17, 234, 881, 759, 307, 19, 985, 651, 509, 36, 140, 7,
                996, 64, 874, 824, 261, 292, 204, 711, 603, 163, 553, 746,
                267, 121, 855, 504, 50, 219, 615, 3, 455, 743, 638, 356,
                686, 510, 85, 206, 623, 703, 232, 43, 458, 404, 1, 608, 676,
                18, 84, 510, 522, 468, 646, 68, 822, 17, 305, 300, 944, 629,
                305, 872, 725, 987, 399, 635, 505, 455, 432, 482, 716, 40,
                25, 39, 420, 286, 656, 91, 57, 873, 860, 708, 916, 612, 948,
                777, 10, 394, 49, 527, 893, 176, 435, 428, 932, 962, 981,
                417, 151, 251, 91, 557, 975, 168, 651, 356, 50, 618, 267,
                150, 506, 21, 944, 341, 148, 421, 929, 872, 105, 210, 440,
                847, 652, 45, 345, 743, 914, 472, 299, 514, 561, 916, 520,
                717, 210, 989, 61, 486, 101, 485, 771, 107, 245, 545, 350,
                921, 957, 994, 707, 223, 883, 737, 320, 75, 11, 42, 925,
                622, 892, 479, 587, 402, 715, 993, 945, 763, 590, 282, 12,
                239, 703, 130, 350, 366, 463, 434, 855, 166, 431, 346, 636,
                318, 144, 958, 516, 313, 855, 839, 147, 334, 42, 801, 356,
                450, 77, 950, 63, 155, 357, 112, 250, 783, 195, 969, 336,
                262, 582, 730, 348, 898, 198, 982, 234, 73, 407, 408, 673,
                349, 482, 275, 448, 701, 294, 362, 278, 804, 974, 151, 110,
                1, 734, 619, 810, 191, 732, 445, 476, 233, 849, 235, 966,
                461, 13, 117, 643, 569, 224, 531, 913, 128, 302, 402, 492,
                70, 921, 795, 542, 326, 801, 620, 855, 774, 996, 276, 995,
                150, 119, 624, 503, 184, 401, 207, 74, 154, 235, 125, 302,
                261, 329, 781, 66, 655, 642, 500, 139, 820, 181, 397, 43,
                505, 481, 447, 816, 866, 307, 770, 638, 5, 620, 877, 736,
                583, 806, 572, 516, 679, 236, 181, 644, 757, 540, 806, 304,
                323, 255, 891, 670, 52, 848, 476, 498, 709, 443, 25, 281,
                879, 500, 116, 816, 8, 54, 507, 450, 540, 567, 836, 228,
                283, 121, 95, 394, 83, 996, 153, 747, 185, 111, 329, 818,
                525, 914, 899, 553, 786, 946, 842, 872, 704, 126, 244, 986,
                24, 471, 506, 832, 46, 167, 502, 773, 581, 380, 918, 39,
                269, 4, 787, 771, 919, 945, 446, 981, 300, 266, 233, 82,
                982, 198, 314, 423, 970, 163, 869, 21, 768, 662, 81, 80,
                891, 887, 944, 230, 219, 826, 291, 268, 440, 755, 156, 422,
                647, 305, 41, 338, 848, 881, 863, 88, 795, 580, 703, 716,
                979, 654, 306, 948, 803, 636, 9, 328, 88, 784, 32, 365, 141,
                960, 925, 119, 943, 530, 711, 137, 985, 876, 793, 938, 604,
                805, 746, 199, 974, 27, 575, 979, 823, 365, 761, 564, 835,
                241, 113, 592, 173, 952, 432, 930, 386, 591, 115, 385, 252,
                608, 302, 385, 286, 714, 881, 810, 414, 69, 505, 390, 570,
                525, 369, 215, 688, 524, 215, 740, 506, 875, 658, 286, 161,
                309, 300, 792, 676, 439, 38, 799, 318, 652, 976, 206, 371,
                608, 487, 105, 73, 573, 391, 789, 665, 14, 653, 928, 747,
                39, 899, 776, 618, 426, 618, 791, 404, 810, 685, 2, 358,
                681, 563, 519, 548, 234, 405, 839, 655, 430, 363, 834, 466,
                423, 660, 798, 782, 211, 891, 715, 969, 965, 413, 777, 853,
                930, 137, 247, 201, 892, 713, 183, 602, 771, 161, 629, 345,
                176, 249, 837, 843, 150, 24, 82, 171, 395, 670, 37, 869,
                297, 28, 600, 523, 10, 692, 402, 945, 990, 403, 703, 827,
                917, 522, 906, 29, 790, 904, 67, 22, 257, 280, 754, 174,
                745, 945, 261, 295, 74, 30, 121, 715, 767, 305, 26, 147,
                772, 112, 841, 452, 765, 188, 71, 153, 34, 914, 860, 735,
                387, 22, 566, 244, 519, 383, 190, 958, 289, 140, 342, 625,
                325, 718, 44, 977, 346, 910, 700, 101, 535, 605, 985, 204,
                973, 103, 632, 617, 138, 727, 396, 270, 544, 180, 128, 134,
                239, 48, 462, 168, 346, 389, 679, 389, 608, 156, 60, 555,
                295, 837, 421, 310, 940, 765, 413, 569, 157, 583, 912, 678,
                284, 247, 865, 151, 260, 190, 19, 850, 786, 266, 940, 127,
                648, 464, 296, 688, 288, 556, 396, 211, 55, 143, 496, 933,
                162, 362, 153, 448, 459, 509, 215, 673, 791, 486, 622, 232,
                292, 674, 253, 293, 4, 466, 588, 877, 213, 734, 100, 400,
                135, 893, 231, 595, 113, 834, 576, 652, 599, 347, 872, 510,
                844, 71, 307, 587, 707, 885, 311, 559, 704, 454, 669, 256,
                679, 633, 268, 633, 700, 858, 181, 461, 806, 498, 608, 794,
                537, 613, 959, 795, 260, 577, 960, 332, 111, 137, 671, 691,
                276, 415, 205, 360, 685, 492, 221, 302, 106, 211, 352, 92,
                770, 279, 658, 751, 188, 39, 793, 556, 796, 386, 112, 162,
                175, 44, 744, 36, 265, 384, 270, 450, 854, 798, 409, 392,
                129, 521, 171, 117, 894, 771, 492, 200, 12, 659, 290, 789,
                807, 461, 985, 379, 268, 857, 756, 62, 271, 417, 738, 910,
                736, 932, 438, 210, 422, 267, 138, 346, 674, 641, 962, 278,
                163, 925, 643, 681, 321, 351, 296, 495, 435, 596, 584, 135,
                152, 772, 257, 333, 542, 796, 529, 476, 758, 898, 549, 513,
                128, 428, 839, 609, 827, 828, 60, 288, 380, 898, 492, 509,
                444, 401, 725, 356, 597, 948, 459, 583, 412, 84, 432, 872,
                943, 165, 585, 133, 269, 492, 568, 188, 844, 62, 436, 157,
                926, 789, 745, 223, 413, 102, 88, 76, 380, 533, 812, 161,
                712, 617, 297, 258, 64, 382, 762, 675, 144, 511, 127, 457,
                942, 499, 337, 395, 666, 945, 450, 315, 368, 165, 894, 150,
                466, 692, 358, 216, 350, 465, 498, 756, 240, 304, 707, 6,
                293, 657, 998, 885, 152, 354, 102, 12, 183, 882, 991, 291,
                560, 456, 795, 91, 243, 536, 253, 118, 409, 321, 417, 122,
                393, 882, 465, 360, 652, 665, 701, 888, 917, 663, 672, 727,
                300, 653, 119, 902, 464, 653, 544, 132, 919, 777, 849, 524,
                942, 929, 738, 475, 298, 351, 459, 189, 952, 711, 316, 365,
                260, 771, 90, 498, 450, 428, 4, 786, 927, 111, 548, 822,
                656, 551, 846, 915, 173, 935, 43, 179, 676, 34, 355, 239,
                241, 517, 131, 880, 588, 280, 400, 576, 284, 618, 172, 379,
                565, 1, 514, 561, 286, 266, 571, 805, 620, 614, 659, 674,
                851, 176, 454, 336, 463, 371, 224, 364, 778, 884, 653, 722,
                79, 621, 240, 847, 211, 364, 505, 453, 326, 441, 728, 235,
                657, 499, 358, 992, 452, 852, 773, 887, 18, 974, 984, 59,
                417, 375, 586, 55, 835, 278, 968, 30, 841, 492, 923, 337,
                76, 20, 654, 18, 583, 708, 535, 393, 928, 623, 7, 489, 553,
                535, 522, 257, 466, 961, 561, 530, 310, 131, 226, 233, 763,
                716, 848, 586, 717, 576, 114, 659, 917, 302, 668, 966, 730,
                341, 429, 780, 250, 802, 457, 796, 408, 615, 38, 271, 203,
                661, 819, 854, 836, 354, 666, 989, 271, 656, 222, 845, 811,
                47, 317, 899, 170, 217, 605, 161, 727, 432, 719, 156, 996,
                507, 439, 710, 222, 265, 551, 85, 670, 659, 643, 148, 642,
                12, 825, 399, 939, 34, 158, 913, 742, 985, 564, 841, 167,
                371, 47, 967, 636, 182, 884, 640, 404, 13, 204, 846, 784,
                754, 665, 35, 398, 686, 774, 13, 808, 755, 918, 993, 479,
                728, 566, 819, 197, 319, 381, 503, 451, 127, 924, 304, 851,
                286, 669, 446, 521, 746, 898, 21, 871, 941, 116, 747, 171,
                539, 565, 677, 271, 579, 329, 738, 471, 770, 780, 303, 328,
                302, 143, 511, 747, 686, 41, 616, 417, 747, 151, 355, 662,
                121, 142, 468, 330, 969, 608, 20, 421, 363, 395, 373, 365,
                111, 15, 571, 950, 300, 208, 540, 943, 35, 663, 547, 485,
                748, 932, 650, 605, 403, 935, 945, 166, 243, 16, 817, 499,
                584, 452, 226, 352, 20, 564, 61, 82, 914, 624, 851, 960,
                806, 428, 723, 309, 808, 51, 716, 991, 998, 348, 148, 368,
                796, 481, 512, 345, 229, 493, 129, 306, 66, 808, 146, 8,
                847, 867, 587, 196, 522, 313, 861, 822, 175, 947, 165, 522,
                236, 893, 80, 407, 293, 850, 344, 916, 354, 12, 918, 889,
                713, 845, 585, 845, 665, 671, 235, 386, 438, 837, 747, 425,
                526, 203, 427, 956, 108, 541, 375, 500, 358, 297, 549, 118,
                832, 456, 289, 116, 691, 69, 859, 208, 18, 822, 138, 691,
                493, 543, 976, 531, 207, 861, 395, 709, 518, 369, 179, 853,
                196, 168, 876, 684, 631, 540, 886, 256, 148, 281, 919, 953,
                159, 376, 489, 248, 599, 914, 884, 163, 291, 27, 158, 153,
                386, 559, 32, 705, 426, 842, 809, 688, 321, 403, 5, 790,
                838, 219, 272, 719, 281, 570, 179, 92, 750, 544, 776, 979,
                171, 418, 792, 290, 937, 450, 765, 515, 658, 507, 655, 746,
                45, 803, 524, 386, 772, 495, 442, 958, 508, 683, 601, 674,
                291, 572, 839, 347, 186, 704, 72, 769, 869, 211, 70, 54,
                871, 462, 131, 609, 650, 833, 346, 444, 106, 390, 118, 552,
                574, 978, 896, 966, 743, 3, 547, 120, 768, 917, 600, 363,
                421, 428, 954, 142, 41, 867, 387, 909, 155, 5, 618, 549,
                153, 368, 583, 387, 955, 613, 753, 986, 765, 49, 780, 723,
                105, 40, 511, 510, 345, 797, 169, 897, 84, 554, 610, 270,
                626, 358, 720, 652, 597, 300, 24, 519, 822, 305, 249, 933,
                918, 872, 580, 255, 377, 243, 767, 968, 54, 126, 538, 243,
                584, 817, 706, 493, 221, 979, 812, 703, 95, 619, 935, 677,
                897, 849, 99, 979, 370, 16, 391, 872, 91, 92, 714, 105, 341,
                771, 344, 429, 701, 797, 163, 32, 135, 297, 638, 422, 677,
                221, 122, 2, 15, 941, 336, 658, 973, 8, 532, 427, 693, 112,
                557, 607, 582, 182, 731, 803, 959, 202, 224, 678, 413, 5,
                627, 463, 303, 791, 837, 518, 76, 937, 151, 842, 432, 494,
                553, 928, 988, 451, 844, 580, 965, 100, 745, 473, 172, 722,
                700, 181, 786, 446, 184, 768, 844, 311, 626, 827, 890, 948,
                641, 722, 749, 595, 440, 481, 821, 338, 645, 598, 457, 859,
                598, 755, 737, 996, 52, 318, 283, 49, 886, 751, 286, 274,
                826, 955, 172, 843, 32, 178, 11, 670, 241, 393, 589, 208,
                229, 336, 728, 694, 717, 694, 311, 631, 55, 802, 225, 457,
                815, 755, 845, 779, 299, 522, 530, 559, 859, 186, 434, 927,
                538, 787, 315, 462, 877, 727, 89, 492, 125, 729, 707, 317,
                498, 717, 231, 357, 506, 466, 853, 585, 769, 231, 717, 37,
                376, 303, 894, 829, 604, 558, 466, 715, 210, 399, 202, 746,
                167, 874, 518, 749, 614, 929, 482, 713, 608, 117, 205, 389,
                999, 402, 579, 180, 719, 490, 989, 944, 78, 694, 663, 707,
                670, 371, 706, 767, 904, 470, 695, 951, 107, 798, 60, 925,
                867, 779, 15, 542, 190, 697, 296, 279, 967, 41, 707, 794,
                151, 173, 592, 535, 49, 497, 705, 116, 610, 69, 9, 683, 211,
                743, 913, 291, 101, 471, 650, 474, 97, 637, 126, 310, 428,
                836, 533, 936, 935, 551, 903, 167, 526, 780, 798, 867, 278,
                664, 662, 434, 647, 209, 334, 690, 771, 431, 556, 299, 548,
                283, 448, 948, 946, 351, 328, 355, 746, 968, 863, 147, 585,
                250, 634, 604, 800, 162, 329, 740, 648, 522, 929, 952, 651,
                708, 724, 106, 710, 330, 907, 318, 869, 800, 661, 536, 715,
                147, 121, 43, 537, 428, 423, 929, 221, 555, 279, 705, 852,
                849, 394, 228, 879, 57, 388, 461, 155, 460, 734, 74, 78,
                316, 272, 768, 656, 540, 89, 118, 650, 39, 323, 945, 971,
                178, 507, 697, 670, 715, 599, 284, 658, 530, 83, 455, 982,
                508, 88, 813, 83, 11, 963, 185, 132, 664, 699, 350, 844,
                308, 798, 870, 720, 40, 604, 790, 170, 539, 668, 385, 810,
                516, 794, 291, 352, 856, 816, 426, 525, 731, 709, 884, 317,
                291, 903, 731, 901, 983, 442, 35, 68, 620, 615, 362, 102,
                762, 475, 948, 363, 62, 399, 281, 393, 586, 387, 597, 425,
                370, 110, 915, 536, 38, 110, 493, 561, 890, 180, 549, 23,
                581, 524, 385, 74, 318, 477, 906, 446, 736, 561, 928, 36,
                668, 477, 20, 288, 916, 872, 639, 270, 641, 325, 62, 272,
                371, 982, 186, 204, 541, 208, 125, 727, 444, 497, 540, 187,
                230, 371, 405, 656, 403, 499, 611, 205, 682, 345, 610, 339,
                957, 86, 80, 870, 419, 312, 648, 573, 274, 403, 897, 242,
                232, 882, 280, 824, 128, 455, 727, 627, 448, 856, 435, 435,
                740, 584, 282, 779, 324, 272, 678, 751, 729, 332, 40, 685,
                281, 871, 12, 293, 950, 77, 555, 986, 757, 792, 32, 275,
                820, 855, 260, 694, 57, 265, 7, 508, 89, 325, 16, 543, 912,
                222, 117, 984, 738, 805, 873, 14, 229, 762, 228, 504, 881,
                141, 74, 847, 109, 288, 633, 40, 353, 338, 394, 68, 850, 37,
                607, 715, 613, 468, 134, 173, 361, 158, 547, 26, 263, 429,
                10, 950, 217, 910, 689, 204, 380, 685, 934, 489, 691, 896,
                231, 891, 93, 72, 654, 167, 770, 140, 344, 488, 175, 294,
                613, 266, 278, 565, 384, 823, 742, 733, 746, 668, 193, 608,
                653, 86, 403, 858, 969, 200, 256, 223, 535, 655, 367, 208,
                682, 830, 215, 615, 132, 334, 609, 334, 266, 43, 619, 550,
                162, 636, 201, 514, 428, 666, 630, 774, 204, 912, 642, 582,
                747, 143, 368, 250, 467, 551, 522, 696, 798, 419, 375, 949,
                194, 171, 337, 571, 889, 997, 640, 698, 164, 666, 724, 10,
                153, 413, 577, 980, 636, 906, 422, 898, 292, 457, 860, 866,
                361, 501, 150, 61, 64, 694, 31, 668, 185, 566, 128, 328,
                204, 781, 978, 190, 254, 132, 592, 497, 996, 73, 513, 23,
                806, 128, 201, 780, 809, 520, 193, 659, 184, 940, 768, 443,
                362, 279, 617, 511, 130, 791, 639, 304, 501, 909, 11, 892,
                637, 339, 859, 771, 661, 798, 31, 608, 536, 990, 755, 379,
                468, 715, 741, 714, 12, 397, 98, 232, 657, 455, 460, 78,
                779, 803, 466, 102, 678, 965, 833, 447, 218, 676, 981, 36,
                146, 447, 496, 313, 896, 27, 194, 142, 701, 899, 945, 365,
                457, 311, 438, 960, 206, 920, 320, 337, 149, 873, 394, 248,
                748, 705, 249, 365, 776, 784, 51, 205, 289, 363, 583, 303,
                627, 888, 182, 837, 15, 39, 757, 617, 161, 171, 971, 477,
                877, 779, 644, 869, 839, 61, 407, 513, 94, 852, 11, 411,
                747, 824, 726, 227, 71, 11, 449, 400, 773, 880, 564, 355,
                746, 127, 366, 878, 716, 631, 53, 592, 757, 592, 964, 13,
                768, 114, 809, 307, 915, 630, 503, 885, 435, 795, 43, 725,
                245, 865, 694, 126, 889, 307, 182, 675, 13, 571, 77, 840,
                804, 616, 229, 853, 567, 630, 463, 714, 588, 738, 825, 917,
                83, 200, 508, 13, 10, 2, 841, 393, 763, 496, 256, 770, 843,
                219, 597, 545, 374, 20, 609, 310, 296, 645, 989, 735, 316,
                446, 328, 46, 874, 983, 128, 330, 964, 463, 217, 251, 92,
                454, 27, 940, 435, 690, 645, 247, 129, 545, 790, 599, 396,
                79, 916, 500, 555, 161, 857, 308, 323, 260, 687, 248, 354,
                769, 469, 994, 365, 888, 252, 134, 456, 166, 772, 906, 175,
                82, 545, 264, 739, 471, 620, 966, 961, 829, 230, 483, 965,
                760, 209, 499, 566, 227, 155, 897, 899, 467, 866, 222, 287,
                562, 293, 907, 482, 798, 782, 983, 544, 197, 303, 905, 104,
                192, 69, 176, 922, 760, 685, 930, 946, 533, 207, 647, 777,
                331, 803, 801, 837, 495, 551, 918, 75, 548, 952, 903, 695,
                432, 261, 251, 195, 396, 162, 427, 268, 878, 535, 400, 610,
                859, 176, 190, 615, 33, 435, 211, 963, 365, 802, 399, 514,
                26, 333, 676, 459, 442, 111, 256, 644, 192, 838, 385, 433,
                441, 978, 377, 217, 743, 808, 409, 941, 672, 20, 911, 725,
                892, 589, 892, 173, 603, 549, 414, 988, 938, 765, 793, 611,
                460, 339, 613, 953, 843, 381, 660, 696, 413, 920, 785, 571,
                835, 479, 777, 560, 53, 932, 89, 290, 550, 697, 165, 534,
                750, 950, 476, 38, 990, 376, 397, 886, 97, 101, 963, 854,
                921, 724, 827, 412, 668, 941, 112, 925, 573, 857, 527, 560,
                456, 826, 223, 550, 930, 206, 358, 788, 631, 870, 633, 636,
                657, 536, 221, 891, 895, 619, 325, 200, 847, 767, 982, 498,
                651, 479, 809, 902, 548, 226, 916, 807, 998, 369, 343, 114,
                881, 65, 174, 787, 160, 535, 826, 110, 886, 518, 39, 347,
                616, 178, 35, 757, 583, 189, 24, 143, 1, 392, 765, 339, 643,
                96, 672, 811, 227, 997, 509, 935, 113, 516, 666, 826, 8,
                610, 401, 259, 675, 87, 374, 907, 461, 81, 98, 396, 637, 22,
                314, 294, 89, 746, 9, 536, 152, 313, 27, 653, 363, 627, 525,
                513, 273, 634, 972, 143, 274, 226, 458, 110, 957, 152, 889,
                84, 193, 892, 369, 602, 794, 139, 644, 183, 927, 534, 481,
                81, 517, 891, 764, 180, 684, 931, 289, 616, 707, 828, 761,
                787, 604, 212, 239, 164, 808, 564, 596, 600, 717, 885, 676,
                923, 421, 859, 61, 947, 349, 936, 978, 87, 68, 334, 855,
                538, 98, 229, 386, 705, 695, 455, 20, 907, 575, 458, 699,
                689, 792, 700, 213, 803, 394, 738, 543, 545, 279, 625, 547,
                192, 909, 10, 394, 84, 640, 353, 212, 85, 885, 34, 703, 450,
                582, 199, 185, 986, 731, 860, 823, 227, 747, 204, 835, 796,
                927, 985, 156, 166, 475, 116, 480, 974, 582, 949, 715, 964,
                755, 526, 673, 804, 835, 735, 404, 661, 485, 35, 583, 509,
                113, 28, 250, 383, 156, 476, 257, 283, 788, 246, 270, 50,
                713, 295, 153, 334, 714, 750, 954, 709, 330, 91, 819, 17,
                811, 827, 963, 706, 487, 986, 885, 399, 312, 716, 664, 141,
                14, 420, 17, 485, 966, 481, 965, 681, 141, 230, 486, 496,
                287, 235, 900, 913, 488, 168, 78, 263, 159, 3, 227, 313,
                923, 108, 136, 991, 141, 407, 890, 157, 551, 300, 520, 96,
                421, 748, 581, 463, 247, 595, 288, 263, 768, 615, 278, 688,
                518, 854, 837, 230, 527, 223, 958, 237, 106, 166, 568, 578,
                989, 693, 263, 54, 462, 436, 772, 298, 633, 385, 574, 283,
                874, 9, 126, 355, 469, 205, 860, 58, 575, 238, 308, 15, 288,
                54, 159, 516, 768, 956, 243, 280, 415, 891, 206, 773, 333,
                230, 814, 904, 496, 405, 414, 154, 549, 5, 631, 259, 84,
                110, 19, 97, 343, 476, 304, 630, 388, 552, 559, 694, 335,
                613, 231, 938, 398, 323, 205, 147, 501, 425, 439, 165, 579,
                653, 286, 18, 235, 312, 312, 990, 658, 894, 554, 740, 842,
                642, 40, 663, 271, 115, 723, 727, 118, 172, 292, 186, 638,
                237, 824, 180, 615, 664, 52, 724, 853, 972, 860, 217, 923,
                548, 365, 662, 510, 568, 732, 812, 930, 764, 365, 809, 493,
                212, 862, 720, 328, 650, 698, 859, 722, 994, 321, 749, 218,
                114, 246, 859, 972, 431, 100, 598, 173, 996, 92, 546, 985,
                311, 557, 338, 180, 658, 972, 594, 865, 279, 185, 874, 997,
                648, 471, 521, 734, 785, 39, 651, 248, 724, 538, 745, 416,
                405, 474, 551, 686, 947, 370, 222, 719, 272, 372, 638, 301,
                976, 901, 141, 259, 585, 341, 512, 601, 674, 61, 965, 307,
                186, 253, 853, 799, 601, 899, 205, 768, 663, 246, 117, 94,
                337, 117, 660, 230, 391, 699, 653, 917, 328, 945, 950, 966,
                37, 162, 501, 69, 341, 455, 642, 656, 901, 922, 82, 967,
                952, 606, 601, 457, 278, 401, 416, 919, 596, 132, 549, 996,
                109, 96, 902, 186, 105, 149, 87, 396, 480, 330, 423, 284,
                778, 36, 525, 339, 377, 167, 661, 979, 347, 719, 107, 495,
                613, 557, 511, 768, 140, 580, 990, 547, 572, 154, 125, 162,
                568, 573, 454, 752, 668, 685, 300, 380, 427, 596, 824, 187,
                740, 856, 37, 348, 888, 857, 639, 546, 376, 498, 914, 764,
                346, 903, 553, 237, 965, 311, 290, 578, 336, 3, 567, 253,
                392, 229, 590, 610, 370, 2, 112, 330, 225, 496, 269, 73,
                915, 708, 530, 682, 391, 993, 314, 763, 201, 761, 124, 221,
                821, 970, 674, 760, 412, 840, 458, 596, 676, 30, 369, 551,
                885, 8, 194, 97, 526, 376, 158, 5, 883, 778, 637, 672, 784,
                296, 709, 87, 225, 320, 521, 411, 686, 851, 779, 331, 188,
                948, 533, 789, 441, 327, 216, 382, 796, 48, 336, 517, 89,
                864, 248, 775, 812, 574, 548, 388, 331, 542, 968, 542, 871,
                756, 984, 386, 696, 392, 24, 95, 518, 382, 356, 8, 595, 663,
                920, 877, 500, 766, 346, 323, 989, 271, 333, 284, 669, 714,
                794, 63, 471, 626, 920, 814, 962, 955, 251, 850, 765, 1,
                451, 975, 105, 733, 202, 928, 505, 989, 997, 663, 248, 213,
                753, 101, 288, 355, 116, 763, 6, 519, 782, 752, 464, 75,
                928, 611, 331, 285, 252, 814, 793, 463, 689, 33, 876, 745,
                920, 327, 808, 665, 577, 373, 845, 753, 250, 421, 812, 197,
                930, 647, 598, 410, 127, 305, 678, 969, 863, 281, 296, 93,
                809, 838, 640, 720, 651, 43, 866, 180, 573, 41, 232, 741,
                842, 247, 242, 150, 863, 100, 479, 576, 885, 766, 759, 748,
                520, 727, 297, 269, 864, 435, 940, 583, 483, 69, 378, 386,
                733, 750, 775, 937, 656, 582, 764, 293, 918, 217, 330, 456,
                755, 889, 347, 399, 831, 323, 890, 435, 587, 858, 128, 595,
                269, 910, 144, 578, 912, 831, 327, 974, 46, 499, 21, 206,
                114, 464, 738, 522, 178, 55, 293, 954, 747, 436, 41, 316,
                646, 822, 820, 541, 200, 740, 568 >>,
            z |-> << -4067, 12393, 3313, 2699, 3313, -904, -9394, 13003, -1423,
                13003, -8989, 4909, 19406, 12062, -1340, -16209, -1340,
                -16209, -10504, 12453, -11796, -5296, -11796, -5296, -512,
                -30668, 11250, -477, 9183, -1788, 5901, -7484, -19261,
                -15578, -5169, -4529, 3471, -4529, 3471, -11477, -690,
                -11477, -690, -11477, -8303, 9928, -8303, 9928, -3404,
                -8562, 3685, -545, 9151, -545, 9151, -25455, 11092, 17150,
                -7916, -2584, 12172, 420, -5666, 420, -5666, 420, -6698,
                1549, -12722, 14166, -9570, 999, 16689, -8430, -8837, 8158,
                -10262, 5010, 3872, 12974, 3872, 12974, -2149, 12974, -2149,
                12974, -2460, -862, -11937, -862, -11937, 33581, -107,
                33581, 19214, 10687, 5273, 4725, -5602, 4725, -5602, 6982,
                6114, 6982, 6114, -2697, -4327, 16578, -1729, 12712, 4292,
                1590, 4292, 12876, -20353, 11737, -4564, -4385, -5502,
                11702, -6288, -2105, -23966, 9750, 677, 10728, 3570, 12763,
                -9898, 1985, -1384, 8981, -990, -4784, 12467, 2180, 11513,
                2180, 11513, 3571, 11513, -1662, 21768, -12123, -5630,
                -9892, 270, 29441, -23723, 8199, -14363, 6714, -7627, -8669,
                3058, -7650, 1062, -4032, -10791, -8916, 6423, -8916, 6423,
                -8916, 6423, -8916, 14145, 272, -10595, 272, -10595, 3402,
                10958, 1740, 12464, -3569, -2268, -21738, -2268, -21738,
                -11155, -523, 19760, -2756, 15449, -28847, 21095, -10151,
                -2786, -17563, 9347, -3865, -5473, -6003, -2193, -2657,
                -2193, -9159, -6126, 1688, -6126, 1688, -10125, 1360, 1572,
                12461, -4938, 7840, 8564, -12577, 2899, -12577, 2899, -2908,
                -157, 18693, -6588, -4749, 838, 7645, 1475, 7126, 1889,
                3623, -23897, -13655, -1840, 3182, -19351, -255, -19351,
                9009, 985, -13814, -2641, 3166, -22, 11976, 815, 13789, 781,
                -11827, 4451, 2039, 4451, -10558, 4451, -10558, -16331,
                -7474, 1465, 17426, -9493, 2349, 174, -9340, -155, -23924,
                4761, 1287, 7702, -2160, -3326, -8663, -5305, 10042, -5305,
                10042, 9691, -3113, -9275, 4308, -9275, -2896, 14176, 5606,
                -5301, 5606, -5301, -2011, -1240, 14449, -10991, -3426,
                -12315, -3426, -12315, -4815, -4425, 15589, -6795, -1202,
                -6795, -1202, -1979, -6722, -1979, -24963, -7767, -15070,
                2199, -15070, 14068, -1154, 11690, -1154, 11690, -10891,
                -496, -10891, -2787, -15154, -3156, 15464, 6474, -11248,
                -8717, 407, 22811, 407, 22811, -2629, -20628, -5502, -1163,
                7938, 6432, 4357, 16403, 11614, 1703, -15208, 7277, 10569,
                -9795, 4331, -13150, 4331, -13150, -7041, -10412, 4048,
                5803, 3342, 5803, 3342, 5803, 2429, 13083, 1606, -7288,
                7623, -7288, 7623, -15733, -3914, 1695, -9581, -2462,
                -10410, 4372, 9025, 13404, -221, 13404, -4027, -1997, 15757,
                -8149, 3930, -21982, 4768, -1330, -4403, -1330, -4403,
                -3933, 4358, -4056, 4358, 8843, -704, -7317, -704, -7317,
                -704, -7317, -12215, 8736, 3336, -7219, -2976, -5493,
                -15007, -8206, -16342, -4642, -24165, -12829, -19445, -9046,
                601, 18002, 8514, -3066, 13577, -952, 12956, -11976, -2587,
                -11976, 6993, -17143, 11130, -6872, -3733, -6427, 12023,
                2253, 12023, 2253, 12023, -9973, 12023, -9973, 1192, 8888,
                20388, -280, 20388, 11761, -4520, 15992, -2912, -1841,
                10007, 1548, -19551, 1727, -10563, -866, -10563, 4834, 4374,
                4834, -18012, -9865, -7988, -3466, -7988, -385, 22651,
                10565, 6541, -1264, 6541, -1276, -13907, 709, -13907, 2325,
                -15748, 4585, -13764, 3752, -10838, 22650, 319, 22650, 5945,
                1409, -9356, -9153, 4235, 6985, 7577, 475, -20229, 475,
                -20229, -10219, 714, -3003, -5753, -689, -5753, 7592, 4414,
                956, 12573, 956, 12573, -5737, 15365, -8826, 5343, -8826,
                5343, -3358, -77, -3358, -388, -2535, 21415, 4170, 23639,
                6420, -1253, 6420, -1253, 8659, 7807, -3643, 7807, -3643,
                11673, -3643, 11673, -9885, 3187, -21710, 16915, 3883, 747,
                17968, 4870, -8477, -6553, -8477, -9568, -12007, -6283,
                -2176, -6283, -6810, -1589, -9230, -6077, -10260, 5670,
                6296, -1850, 13305, 9844, 16330, 2722, 16330, 2722, 16330,
                -8393, 4057, -13220, 4057, -13220, 1123, 16618, -1964,
                22907, -8128, -12899, 126, -12899, 5052, 3202, -197, 3678,
                -197, 3678, -197, 23871, -7901, -19282, -21142, 20210,
                -11366, -6944, -12135, -813, 22952, -13160, 11468, -5319,
                7648, -5319, 7648, -11247, 14172, -10237, 3914, 15552,
                -10031, 5733, -5481, -3962, -5481, -3962, -13468, 2839,
                -13468, 5295, -14735, 8689, -9800, 10056, 3255, 11857, 4588,
                -13920, -14442, -3228, -4391, -3228, -4391, -6387, 371,
                -15008, 371, -15008, -3511, 7245, -3511, 7245, -3511,
                -11247, -3511, -11247, -3511, 6664, 868, 6664, 9262, 2802,
                9262, -9810, 5913, 3337, 15576, 3337, 15576, 6635, -326,
                9986, 1614, 10307, -2628, -5035, -2628, -5035, 13946, 5363,
                -5943, 1271, -2397, 3809, -7099, 3809, 11402, 11252, -10782,
                -1765, -3836, -24700, 9458, -778, 22918, -24957, 9730,
                -3314, 6689, 5007, -9631, -6645, -10239, 5367, -6860, 1447,
                -9978, 1447, -9978, 748, 8179, 4108, -6292, 4108, -12480,
                -10124, 3665, -10124, 6193, -9042, -917, -9042, -3209,
                -15203, -6326, -6774, -6326, -6774, -11304, -6774, -11304,
                -9139, 8286, -9139, 8286, -7433, 1729, -7433, 14174, 7032,
                -6511, 2625, -6511, 2121, -2909, 16103, 16945, -5692, -1972,
                -12615, -1384, 15252, -6780, -11450, -7360, -5443, -12803,
                1110, -12803, -6574, -10222, -3473, -10222, -3473, -10222,
                -3473, 1302, -3473, 1302, 3676, -17928, 7306, -2227, 1741,
                -3481, 1741, -4405, -2434, -4405, -2523, -4405, -2523,
                -5145, -17527, -1440, -17527, -13017, 7146, 7737, -11460,
                8221, 3986, 1699, -14294, 4060, -16378, -1149, -16378,
                -1149, -16378, 4129, 12920, 4714, -4820, -3701, -4801,
                15657, 598, 15657, 1012, 13569, 1012, 13569, 13185, -4636,
                11910, 8573, -1893, -15440, -1893, -15440, -11449, -1539,
                -11449, -1578, 19447, -1284, 19447, -11665, -9926, 4076,
                3308, 4076, -17642, -10280, -10860, -10128, 4525, 6741,
                4525, 6741, 8330, -13109, -8555, 5162, 8432, -3938, -958,
                -5064, -958, -5064, -958, -5064, -958, -5206, -958, -5206,
                -8266, 4184, -13754, -11496, 9927, -2244, 17894, -2244,
                17894, -6538, 3787, 6270, 4329, 2572, 4329, 2572, 15691,
                1792, 15691, 8649, -2016, -13086, -2016, -13086, 3903,
                -9691, 3903, -9691, 10010, 15354, -6034, 4992, -9543, 853,
                -9543, 11793, -2464, 11793, 11793, 3146, -14070, 3146,
                -14070, 3146, -14070, 3146, 7976, -2064, -8297, 949, -8297,
                15319, -6954, 10342, -14090, -124, 30486, -9417, -2977,
                -10195, 10087, -1309, 10087, 19948, -226, 19948, -11057,
                -13122, 9487, -4274, 6559, 6153, -11135, -4436, -11135,
                -4436, 18609, -13184, 14394, -5271, 2867, -7044, 3484, 9115,
                13163, -10327, 1298, -10327, 1298, -10327, 14165, 2520,
                6550, -2851, 6550, 19818, -20736, -5499, 5394, -3167, 5394,
                2097, 11953, 4631, -13133, -1126, -13133, 6484, -5962,
                -15267, 10239, 5559, -3210, -18011, 6335, 17245, 6335,
                17245, 5142, 12468, 4976, 12468, -2673, 9684, 6713, 9684,
                6011, 684, -4408, -2319, 13058, 12262, -4692, 1548, 16469,
                1548, 16469, -5260, 3120, 6209, 2795, 5887, 991, 13908,
                12473, -564, 12473, 4845, -7169, -6558, -585, 20288, -9024,
                -12480, -5738, -11581, 10980, -2028, -7672, -2748, -7672,
                4417, 674, 9995, 2324, 9354, 2324, 9354, 2324, 9354, -8351,
                -10360, 8260, 14095, 4680, -7572, -1291, 13691, -7148,
                -17231, -7148, -17231, -7148, -14560, -608, -14560, -6570,
                1577, -6570, 1577, -12368, 4725, -13053, 813, -13053, -5843,
                -9526, -5966, -8413, 589, -8413, -1107, -15842, -6272,
                -4366, 8229, -1762, -4892, 679, -12234, -9397, 8058, 7986,
                5449, -5877, 7265, -701, 8652, -6356, -6990, -352, -25805,
                14854, -6214, -13017, 4589, 8747, -3042, 8747, 14591, 7016,
                7556, -65, 7556, 1846, -10833, -10027, -1960, -13594, 3461,
                14719, -7862, 7101, 8434, -1094, -29016, -1094, -29016,
                18590, 3480, 17007, 7440, 4649, 2345, -1946, -2498, 3415,
                -2498, 3415, -2568, 3415, -2568, 3388, -2568, 5347, -5300,
                5347, -11968, 4724, -13114, -12720, 6834, -5393, -4450,
                -5393, -4450, 6846, -4450, 6846, 647, -10229, 647, -10229,
                -6892, -1200, -6892, -9432, -21094, -5870, -10076, 1510,
                -3647, -2068, -19669, -10838, 12303, 7168, -47, -21258,
                12565, -8618, -14193, 6387, -5995, 1241, -5995, 5410, 3459,
                8710, 3459, 8710, -4414, 7483, -5047, -14784, -1614, -15891,
                -1614, -15891, 1277, 24791, 10392, -7553, 1947, 10238,
                -4130, -3815, -4826, -3815, -4826, -12987, -5146, -1876,
                -5425, -1876, -5425, -736, 20117, -14102, -18295, 11491,
                -14238, -4037, 13844, -4037, 13844, -15314, -10742, -7000,
                -7798, -11133, -7798, -11133, -7798, -11133, -7798, -11133,
                1315, 4169, 8091, -5536, -6046, -4610, 13743, -4610, 13743,
                -16018, 220, -16018, -14101, -4472, -3191, -19234, 345,
                -19234, -8809, 15224, -6553, 6328, -1105, 3312, -1105,
                18606, -1105, 18606, -1105, 18606, 519, 31652, -19638,
                -8328, -60, -18678, 4406, -2023, 14717, -9616, -6685, 4700,
                -6685, -6446, 3665, -6446, 8524, -8974, 8524, -8974, 8524,
                -8974, 8524, 12674, -4191, 1798, 12063, 1798, 12063, -1912,
                14507, -6600, -1888, 4261, -1888, 4261, -1888, 4261, -1888,
                -16998, -7903, 7840, -3233, 10095, -3233, 10095, 7686,
                -17181, 9700, 2121, -18104, 10331, -7740, 10184, -3408,
                -6729, -3408, -6729, -9476, -5281, 6126, 4580, -554, -10478,
                -15012, 2689, -15012, -9568, 4007, 11301, -5535, -8354,
                9482, 4586, 87, 13625, 3961, 14471, -5918, -1258, 774,
                19137, -9344, -4873, 25438, -11667, -2283, -19162, 4486,
                13286, -3062, 13286, -655, 13286, 5608, -5428, 12017,
                -12841, 2699, 1963, -8907, 13532, -10720, -5386, 1463,
                -5386, 14759, 190, -29356, -20909, -13022, -6674, -3468,
                -16063, -3468, -16063, -3468, 13902, 6096, 11874, 6096,
                11874, -5534, 8236, -3404, -3542, 15038, 7068, -8460, 2932,
                -9504, -3568, -9504, 2000, 14139, -19231, 19303, 22469,
                -5310, -1006, -372, 447, -710, 13150, -2427, 13150, -9924,
                9829, 3765, 9829, -4367, -4976, -9615, -387, -9615, -3985,
                2061, -3985, 2061, -21785, -7979, -21785, -7979, 1643,
                -14872, -6052, 2119, -1784, -20662, 14320, 3528, 12172,
                4487, 3253, 17463, -7630, -1008, -7630, -28088, -176,
                -28088, -176, -28088, -19273, -17975, 8851, 3739, 3736,
                -13030, -5178, 3176, -3508, 2569, -3508, -15591, -7780,
                1804, 881, 14741, 5215, -3873, -13062, 6181, 14698, 7230,
                -1915, 10973, 3429, 15131, 3429, 15131, 3429, 15131, -9087,
                2307, 15804, -4143, -20243, -9228, 4836, 1970, 24775, -7570,
                -1365, 748, -8483, -975, 17770, -975, 17770, -12131, -4295,
                11307, -4295, 11307, 13651, 7695, -2207, -5148, -928, 5611,
                -24184, -11579, -2371, -5663, 4708, -6192, 4708, 18746,
                14961, -2216, -6701, -8297, 13037, -8297, 13037, -3389,
                13037, 14272, -3121, 14272, -3121, 14272, -7010, -7610,
                13110, 4817, -9093, -502, -13022, 8100, 3316, 8100, -2372,
                -21794, 7231, 12819, 9523, -3241, 9523, 10081, -9956, 4098,
                14941, 4098, 14941, -4367, 17802, -8134, -12760, 1860,
                -27762, 16004, 2069, 3814, 2069, 3814, 1681, -9626, -18880,
                -7983, 10325, 6295, 10325, 16038, -6827, -3704, -4286,
                -3704, -4286, -11763, -1998, -11763, -1998, -11763, -1344,
                39109, 13468, -2652, -3195, -3019, -19443, 13088, -12026,
                -10792, 7354, 11435, -6340, 11435, -6340, 39, -14080, -4739,
                15397, 11063, 11723, 11224, -1223, 11224, -10570, 11224,
                -10570, -15873, -13223, -6068, -4204, -20783, -16106, 6370,
                -4090, 7115, 9414, -3375, 8161, 256, 29502, 256, 29502, 256,
                29502, 18850, -8443, 4356, 9157, 9054, -7987, 9522, -6922,
                6570, 728, 21488, 8884, -3695, -4940, 3595, -2713, 2803,
                9341, -18336, -11355, 4458, -1954, -1279, -18625, -8340,
                3290, 7606, 2330, -4894, -19447, -3913, 1585, -15891, 1585,
                -15891, 11315, 15755, 491, 15755, 491, 15755, -6825, -5910,
                -9692, -229, -16394, -1138, -11484, -4340, -9187, 13746,
                10369, 6498, 9685, -10504, -1585, 11419, -3890, -6131, 6060,
                9979, -9675, 5511, -9675, 5511, -9675, -4981, -8530, -3752,
                -8530, -1872, 12100, 724, -7235, -8113, 6242, -8113, 1129,
                -5718, -7232, -7507, -6527, -371, -6527, -10358, 10314,
                -2304, 11236, -6936, -3128, -6936, -2080, -14002, 19414,
                9176, 4966, -10219, 16955, -14932, -6320, 3840, 6339, -7133,
                6339, -9424, -9583, 5807, 13803, 2459, 13803, 12267, 7536,
                -2962, 18783, 1483, 18783, -3928, 12799, -3408, 12799, 4942,
                -4443, 4051, -4443, -15099, -6639, -12112, -3683, 5562,
                8557, 5562, 8557, 4178, 10239, 3192, 10239, 10639, 7187,
                16143, 2350, 4230, -4649, 4230, 4093, 6472, 4093, 6472,
                4210, -2220, 4210, 605, -14000, -6784, 11647, -11613, 11142,
                2718, 6944, -1431, 6944, -10712, -3841, 192, -7410, -8684,
                4439, -8684, -2668, -15828, -8472, -13053, 8113, -8512,
                -947, -13899, -947, -13899, -7990, -7068, 7732, 10559, 2411,
                10559, 12718, -23761, 15261, -10818, -4638, 1592, -4638,
                1592, -4638, 1592, -4638, -12722, 978, -12722, -3270, 17358,
                -10282, -17753, 13000, 9508, -4383, 534, -17424, 534,
                -17424, -13727, -6303, -10351, 174, -10351, 4619, 1926,
                4619, -4949, 2436, -4949, 1465, -13733, 19463, -13733,
                10348, 9505, 11809, 9038, -3234, 16551, -3668, -13507, 1913,
                -13507, 5186, -4920, -9883, 4686, 4125, 6600, 4125, -2002,
                -4174, -2002, 1082, -10229, 14495, -10229, -20960, -687,
                -20960, 13398, 5555, 17709, -467, 17709, 9189, -1185, -2567,
                5457, -8180, 8844, -8180, 8844, -10385, -10628, -10385,
                -10628, -10385, 2165, 4565, -6961, 4565, -6961, 4565, 13792,
                -6614, -5364, 15913, -2556, 19215, 10405, -3754, 1836, 7118,
                8103, 9277, 4971, 4114, 3164, 4114, 3164, 4114, 3164, 12830,
                4280, 17352, 8606, 2815, -5865, -5023, -12774, -8971, -2491,
                7059, -13281, -2026, -8868, 1683, 13198, -5293, 12816, 6222,
                805, -9570, -7827, -4192, -7827, -10526, 4330, -4780,
                -11173, -4078, 7206, 8261, 686, 7883, -10261, 4860, -10261,
                -1052, -18904, -9856, -6960, -6604, -4753, -7552, -5822,
                -642, -5822, 14296, -10878, 1325, -10878, -4186, 5713,
                -1941, -9737, 3259, -2720, 1635, -11815, -4640, 10048, 770,
                10048, 770, 867, -7339, -4730, 6829, -4730, 6829, 10062,
                -10111, -3690, -3247, -8426, -3247, -8426, 2570, 10250,
                6397, -3032, -14281, 229, -14281, -6401, 10263, 5754, -5100,
                -1075, 8626, -4089, 9750, -4089, 9750, 1832, -9772, 19736,
                6081, 2833, 6081, 2833, 6081, -3911, 13323, 950, -15449,
                271, -30090, 11785, 4213, 3652, 4213, -2735, -4517, 11338,
                14708, 2668, -20432, -13571, -12406, 8489, 5514, -11,
                -22612, -13481, 629, -11787, 2385, -18993, -12638, -6574,
                -10035, 10810, 9928, 10810, 9928, 15748, 9281, 13476, 2540,
                -16993, 5994, -4079, 5994, -4079, -5201, 1115, -3032, 1115,
                -3032, 1115, -18721, 16173, 7450, 22361, 12834, -1237,
                -23315, -5593, -2520, -3765, -2520, -6781, 13339, -6781,
                5573, 1220, -12902, 3630, -4020, 2816, -7859, -1995, -14087,
                -9586, -8902, -3648, -2334, 9680, -7959, 2465, 3876, 2465,
                3876, 2465, 3876, 7445, 3876, 7445, -12287, 12395, 1320,
                -18322, 9700, -415, 9700, -3293, 12236, 532, 11874, -6722,
                6304, -6722, 6304, -6722, 6304, 3593, 585, 3593, 585, 3593,
                -4064, 3700, -4064, 6799, 1472, -11961, 1472, -11961, -9327,
                8128, -9327, 8128, 7031, -4947, 3225, 133, 3225, 133,
                -10801, 1498, 8016, 19270, -10678, 5725, 2200, -9153,
                -17264, -8087, -9212, 1891, -11135, 1891, -11135, -4249,
                9882, 3655, 12776, 3655, 12776, 9380, -7034, 9380, -7034,
                17545, 10542, 4641, -11317, 8311, -8656, -190, 9367, 9179,
                4190, 9179, -5482, -10011, -675, -4573, -5346, -3188, 10701,
                4301, -6608, 2004, 11697, -12530, -9305, -301, 2519, -4513,
                2081, -4513, 5558, 778, 5558, 778, 5558, 12267, 5558, 12267,
                -13619, -3327, -13619, -3327, -13619, -1850, -13619, 4188,
                895, 9283, 2284, 10760, 2284, 10760, 3393, 2800, -5488,
                1956, 2613, 1956, 2613, 1956, -18122, -659, 23794, 13512,
                5558, 5632, -1685, -10601, -1685, -10601, -1685, -10601,
                -4566, -10868, 6639, 23711, 10227, 23711, 10227, 23711, 39,
                23711, 5172, 1349, 11579, -5571, -1505, -15369, -7239, 3431,
                -1125, 2274, -1125, 2274, -1125, 2274, -1125, 2274, -2338,
                -14473, -862, 28616, 9047, 14573, -1456, 14573, -7529, 5818,
                -3670, -20123, -3670, -20123, -12469, -11124, -8090, -11124,
                -8090, -11124, -8090, -3264, -17842, -3264, -17842, -11077,
                5837, -6554, -4913, 5429, -6526, -3655, -6083, -3655, -6083,
                -8191, 11772, 2952, -5105, 6846, -3358, -15335, -8243,
                -15210, -7452, 2497, -8042, 1764, -7550, 30288, -17880,
                9236, 11676, -15056, 5967, 18302, 5130, 14900, 5130, 14900,
                -8570, 807, -8570, 2804, -9095, 6331, 3589, -11853, -708,
                -11853, -708, -11853, 4601, -9822, -5125, 18107, 7980,
                -8062, 17107, 47, 17107, 47, 17107, 6359, -4839, 6359,
                -4839, -6383, 2361, 4586, 2361, 4586, -4171, -2258, 5983,
                8245, 5983, 8245, -4861, -12609, -1271, -12609, 3807, -3735,
                -18118, -62, -18118, 6935, 13445, -5344, 14568, 9567, 4220,
                2358, -3343, 2358, 4479, -4021, 2523, 7019, -7879, -3022,
                -7879, -3022, -7879, -7733, 1941, 11238, 1941, 11238, 412,
                17491, -9205, 8280, 7418, 88, 13982, -6071, 9087, 728,
                16446, -7527, -12062, -7702, 1904, -1968, -4044, 4338,
                -15302, 3430, -17857, 2958, -17857, 14099, -7144, 7016,
                -11182, 4460, 3190, 4460, 3190, -7858, -5505, 1377, -5505,
                1377, -5505, -5514, 1230, -5514, 1230, -5514, 1230, -5514,
                -8908, -9318, 6558, 7606, -11316, 1927, 16195, -8578, -5894,
                -6551, 133, -6551, 16489, 5391, 16489, -104, 16489, 7513,
                -13801, 13788, 1077, -8630, 14718, 5217, 14718, -10023,
                -22932, -539, -22932, 15963, 219, 15963, 219, 31359, 219,
                31359, -25983, 21449, -5776, 2966, -10932, 2966, -10932,
                2966, 1561, -14508, 7384, 3855, 16736, -275, 16736, 866,
                -30824, -22488, -7154, 18201, -16626, -889, -16626, -889,
                -16626, 9446, -6806, 4805, 4271, 4805, 4271, 4805, 2015,
                5444, 389, -5445, 389, -5445, 389, 9713, -19114, -2520,
                -19114, 7161, -507, -11248, -507, -11248, -4586, -3602,
                1217, 4091, -12884, 4675, -12884, -4579, 1378, -14369,
                -6961, 225, -4165, -9274, -1606, -9274, -2479, 7275, -1734,
                -2928, -1734, -2928, 11668, 4227, -3914, -1306, 12540, 3419,
                -565, -18843, 1401, 27980, 8202, 411, 18108, -9068, -229,
                -9484, -229, -9484, -344, 15575, -3562, -2833, 2839, -20654,
                6305, 3833, -9697, 3833, -9697, 3833, 3383, -8690, -5256,
                8445, 1931, 8445, 1931, 8445, -504, 25565, -17268, 15766,
                -16004, 4980, -16004, 4980, -16004, 7908, -7214, 7908,
                -7214, -3576, -12703, -6051, -23975, 11195, -2152, -2486,
                -19079, 12535, -14198, -8469, -19732, 214, -19732, 8278,
                1800, -2124, -4240, -3149, -7110, -5475, -7110, -7984,
                -8195, -4142, -8195, -4142, -8195, -3067, 7937, -6274,
                -12213, -481, -12213, 5428, 15916, -8474, 7459, -195,
                -16271, -1565, -16271, -1565, -16271, 17109, -11589, -2572,
                -17815, -3933, 18172, -10635, -9349, -13699, 8609, 11913,
                7284, 11913, 7284, 11913, 7284, 11913, -5142, 6110, -3934,
                -11481, -15762, 5711, -4369, -3038, -421, -3038, 9340, 3157,
                9340, -14577, 1735, 8627, -7994, -3901, -7994, -2046, -7800,
                2053, -19708, 2053, -19708, 10458, 4894, 10121, 3980, 606,
                2933, 606, 2933, 606, 2933, 606, -13577, -3841, -13153,
                -4520, -4786, -4520, -4786, -3795, -10640, -8485, 11046,
                12534, 1924, 12534, 17, -11442, 2536, -4502, -3883, -5050,
                74, -34497, -27855, 13144, 2718, -4043, 10425, 6441, 9194,
                3615, 9194, 3615, 5514, 13002, 3126, 6259, 20108, -11089,
                -6725, 4935, 12667, 2488, 13738, -6061, -10718, -11537,
                4769, 3160, -3858, -2262, -806, -2262, 18650, -4742, -4258,
                5, 6317, 5, -10316, 996, 115, -30025, 115, -30025, 18190,
                23373, 12005, -4766, -7509, -6437, -7529, -2141, -7529,
                4663, -7432, 4663, -7432, -321, -3255, 10067, 1069, 8627,
                14430, 1240, 14430, -7036, 3888, -7036, 3888, -7036, -3571,
                -261, 7966, -261, 7966, 12753, 88, 15538, 88, 15538, 4301,
                -18354, 7161, 6646, 551, 6646, 551, 6646, 551, 3470, -792,
                3470, -8845, -10632, -8845, -1573, -6171, -7258, -6171,
                -7258, 4328, 7073, 550, 7073, -6104, 7073, -6104, 5886,
                -7227, 5886, -7227, 5886, -7227, 5886, -5435, -10206, -4292,
                15627, -6318, -2596, 18585, -13464, -970, -1101, 9344, 3682,
                16893, 3682, 16893, 3682, 16893, 10496, -13089, 2800,
                -13089, 2800, -6268, 5219, -6268, -907, -6268, -907, -9665,
                -907, -9665, 467, 18239, 467, 18239, 467, 18239, -7212,
                2670, 12523, 2670, 12523, 1501, 12523, 6187, -7771, 664,
                3352, 664, 3352, 12951, -4583, 12951, 3757, 12112, -4962,
                -4455, 2220, -12000, 7316, -879, 7316, -1734, 13896, -9418,
                -2664, -14158, 6308, -15656, -8878, -14991, 10043, 6386,
                1625, -3535, -7087, 106, -24626, 12639, 9167, -22584,
                -12434, 6839, 2503, -14911, 6999, 492, 10689, 3508, -12777,
                -7991, -4941, -11151, 9698, 6354, -6421, -5316, 11115,
                -6174, 11115, -5339, 13453, -5339, 13453, -2753, -9726,
                -19206, 1286, -19206, 12983, 6306, 5770, 1020, 5770, 1020,
                1925, 5615, 1925, 5615, -11888, 19225, 12614, -4375, 12550,
                5840, 13918, 6509, 13918, 6509, 8341, 27855, -15444, -5076,
                11378, 4482, -8537, -19356, 10566, -1272, -24440, 18340,
                10975, 6077, -6598, 2675, 3225, -854, 14070, -854, 14070,
                5129, -4023, -7562, -4023, -7562, 1825, 3195, -8638, 3956,
                13801, -5890, 4054, -14619, -10418, -5497, 6700, 2757,
                -2029, 16323, -3707, 16323, -3707, 16323, -2232, 5726,
                -3973, 5726, 799, 5726, -2866, 5891, -8283, 5891, 16109,
                -41, 16109, 8660, 9057, 462, 9057, 1027, 9553, 1027, 9553,
                -8737, 9553, -8737, 9553, -6884, 5448, -8873, -4327, -8873,
                -4327, 3671, 9557, 3671, 9557, -7569, 4148, -3783, 4148,
                -3783, 15464, -1695, 15464, -6806, -6960, 4223, -6960, 4223,
                -6960, 4223, -6960, -2752, 532, -15463, 1266, -23653,
                -12013, -7370, -3943, -7370, -3943, 11927, -14908, 11915,
                2653, 6822, 2653, 6822, 2653, -6023, 842, 23196, 1576,
                13566, 2670, 13566, 2670, 13566, -9963, 4237, -6905, -15107,
                3312, -13130, -2214, -12654, -3809, -12654, -521, -12654,
                -4725, -11482, 15840, -9758, 15128, -10935, -17872, 873,
                -17872, 8306, -2740, -17436, 3760, 15408, -4724, 15408,
                -11717, 2792, 8132, 2589, -11736, -9754, 5667, -7838, -4628,
                -7838, 3980, -6929, 3980, -6929, 1091, -5046, 3481, -5046,
                -18544, 10448, -11243, 4719, -21067, -13197, -114, 7553,
                -114, 7553, -10084, -4231, -10084, -1761, -17506, 7470,
                -15011, 6634, 10731, -688, 23497, -13227, -7653, 10066,
                -11599, -8524, 24095, -115, 24095, 9826, -2800, 6944, -4756,
                -2128, -10216, 5014, -2486, 5014, -9270, 18507, 2749, 18507,
                10949, -16871, 8638, 296, 12216, 7683, -2063, 7683, 16439,
                6389, -3424, 5792, 17741, -4054, 19745, -11833, 8393, 10740,
                -13690, 7901, 14225, 7751, -2718, -1584, 13771, -87, 24703,
                12786, 1836, 22687, 4582, 5075, -6575, 5075, 5180, -979,
                -7510, 12166, 4017, 12166, -11055, -6073, -13438, -5584,
                14008, -768, -15298, -7152, -6385, -1853, -5990, -7112,
                1629, -7563, 9115, 12212, -7336, 2712, 13962, 2712, 13962,
                -4829, -8878, -7105, -3536, -7105, -14573, -7105, -14573,
                -7105, -14573, -3665, 11470, 3574, -3975, -17287, -9783,
                644, -12904, 2352, -422, 2352, -422, -14286, -12761, 9380,
                -12761, 9380, 6003, -1743, 3285, -112, -14305, 6701, 4157,
                -5763, -1063, -5763, 15631, 3940, 2329, 2060, -1032, -14154,
                -3698, -16012, -6528, -3837, 13127, 11286, 3514, 13793,
                -7752, 13793, 2090, 13793, -11501, -11184, -13397, -414,
                -28570, 20138, 15314, -10498, -7478, 4341, -7478, -8253,
                5121, 14158, 1418, -20205, 16114, 3775, 1153, 7914, -10876,
                -1998, 11840, 3581, 11521, 3881, -8366, -1361, -8366, 8226,
                -186, 29528, -29113, -21191, 15436, -8486, 11564, 5738,
                -586, 23324, -17218, -7895, -1329, 10401, 3012, -10388,
                3012, -10388, -4043, -546, 28046, -13122, 4046, -11826,
                -1015, -11826, 6796, -8200, 6796, -8200, -4399, -8853,
                -1936, 6456, -1936, 6456, 13569, -4225, 5031, 8220, -15095,
                -10414, -1016, -1663, 13575, 7520, -8652, 372, -10860,
                -1210, 6832, -4, -21211, -10536, 16394, 4190, -732, -18941,
                -10329, -10687, -1125, 19094, -1125, 19094, -10176, -12077,
                -6230, -4870, -1610, 16362, -8005, -7910, 10907, 9822,
                -7672, 9822, -7672, -4094, -7672, -4094, -7672, 1239, 5084,
                1239, 5084, -16062, 5084, -16062, 14227, 2262, -1992, 2262,
                -16521, -5225, -2280, -17073, -8100, -9906, -2667, 9246,
                -910, -21707, 13871, 13170, 12487, 6454, 12514, 2414, 12514,
                11952, -9351, 10138, -8241, 20903, -822, 20903, 5957,
                -10868, 5287, 847, 5287, 847, 6913, -1747, 1268, -1747,
                -18843, -9874, -5741, -13560, -9979, 283, -9979, -10531,
                -13476, 8529, -2213, -23, -30428, -21761, 1239, 12928, 1239,
                12928, 1239, 12928, 5038, 6611, 11816, -1164, 5386, -1164,
                5386, -1164, 5386, -1164, -937, -12593, -7831, 1104, -10999,
                -16032, 2254, -16032, -7074, 14269, -16680, 8138, -11306,
                -4149, 10832, 28026, 28, 28026, -17299, -9970, 4923, 13319,
                4782, 14422, 15700, 12753, 8813, -2904, -1838, -20014,
                -4546, -22097, -12764, -6154, 12444, 3704, 3233, 12898,
                -3970, 2033, -13492, 6044, -4077, -5693, 871, -30639,
                -19563, -6399, 16796, -9055, 7118, -113, -22486, 11588,
                -201, 11588, 4154, 3769, -1206, -18373, -1206, -18373,
                -1206, -18373, 12491, -6148, 8162, -5145, 8162, -273, 8162,
                -273, 8162, -2245, -5794, 16587, 521, 16587, 521, 16587,
                3142, -23137, 6849, 1873, 29257, -50, 29257, 15892, 16925,
                -16907, -2294, 5523, 705, 12392, -19323, -7695, -3481,
                -7252, 7532, 7851, 7554, 2771, 16200, 5830, -9648, 3268,
                6226, -2394, 10504, 1785, -8368, -8618, -8368, 14370, -7136,
                7625, -1960, 14161, -4066, 17336, -4311, 6011, -8522, 6011,
                10317, 3229, 2088, -4433, 13581, 8687, -11699, 8687, -11699,
                5421, 3596, 6545, -1156, 6545, 4969, -4911, 4969, -11216,
                5050, -4928, 16853, -7603, -28790, 28, -28790, 17483, -9595,
                -7304, 3678, -8402, 2507, 11940, 12265, -9742, 3967, -3657,
                6281, -3657, 6281, 11843, 2066, 11843, 2066, 11843, 384,
                11843, -3046, -4197, -4760, -11182, 913, -11182, 808, 3062,
                -11673, -1748, 4207, 4666, 4207, 6930, 7698, -2179, -955,
                16265, 10585, 6009, 2423, 6009, 2423, 17605, -91, 17605,
                4814, 12802, -4917, -6057, -10010, 785, -30452, -10596,
                8160, -2192, 8160, -4590, 9708, -6165, 10901, 16689, 4292,
                3274, -7069, 3274, -7069, 3274, -7069, 1552, 23378, 18492,
                -11702, 5627, -17906, 11892, -2042, 15532, 7199, -7057,
                -10616, -12171, -7913, 372, 16764, 8345, -1827, 1153,
                -13017, 15302, -6476, -4066, 13655, -8073, -20319, -1004,
                -20319, 981, 875, -2538, -548, -18626, -12582, -16246,
                -14494, -8350, 6022, 427, 6022, -1003, -9716, 2014, 6757,
                5834, 812, 5834, -8568, 16699, 900, 1946, 11508, -15105,
                6569, -5066, -24, -5066, -24, 26651, -24, 26651, -12466,
                -15133, -6547, -6874, 489, -6874, 2185, 10200, 2185, 10200,
                -3104, 16568, -3104, 16568, -9471, 9645, -3768, 508, -3768,
                -9507, -3768, -9507, -3768, 12006, -904, 19446, -21556,
                -11932, -394, -10941, -3915, -4205, -13030, -3795, -13030,
                2445, -13030, 2445, -13030, 1042, -19634, 8077, 2394, -4240,
                837, -15901, 837, -15901, 3842, -16255, -1682, -16255, 7810,
                -4178, 6428, -2341, 7740, 3297, 7740, 3297, 7740, 2786,
                11341, 4472, 12372, -11388, -5868, -11035, 12064, 4978,
                -4672, 9253, -14356, -3326, 5516, -21990, 1021, -21990, 152,
                -22451, -13750, 4427, -10171, -18012, -1620, -18012, -6433,
                3519, -4491, -2617, -3502, -2617, 4177, -2617, 4177, -651,
                30833, 4176, 279, -14502, 4213, -2962, 15593, 1666, -22854,
                -11220, 3168, -3443, -4800, 10332, 3682, 10332, 6673, 10008,
                -3226, -6501, -4574, 4189, -3876, -1998, -3876, -1998,
                -16566, 5780, 7785, -5107, -2371, -5107, -2371, -3493,
                -2371, -3493, 10786, -4848, 11659, -6143, 11659, 3787, 5896,
                -11161, -8986, 5103, -4565, 5103, -4565, -7193, 9387, -9785,
                5417, -12655, 2890, 2193, 2890, 15037, -3014, 13582, -3014,
                13582, -6667, 3149, -809, 15404, 950, 21296, 955, 21567,
                12415, 1132, -23643, 1132, -23643, 13414, -254, -29332,
                5579, 113, 19987, 9002, 16487, -11973, 5936, 11797, -4438,
                -10803, 5877, -4213, -3123, 4835, -3123, -10906, -1089,
                -10906, -1089, -10906, 2917, 16106, 10188, -4657, -7169,
                -9500, -2417, -9234, 1389, 21369, 3522, 97, -10252, 97,
                -10252, 97, -10252, 3100, 1411, 1825, -16749, -10699,
                -16826, 5715, 7785, -3017, 7785, -3017, 7785, -11839, 9000,
                -11839, 9000, -11839, -3890, 11562, -18155, 4886, 1208,
                14005, 7175, -5451, 7175, -5451, 7175, -5451, 24560, 146,
                24560, -21589, 11221, -5098, 1093, 21219, 1093, 21219,
                -14828, 7782, -14665, 13545, 9008, 10826, -16213, 13185,
                185, 13185, -5496, -10654, -15494, 2188, -15494, 2188,
                -15494, -6963, -13545, 7888, -16004, 1103, -16004, 1103,
                -16004, 4919, 12506, 5740, -569, -15301, 5921, -5640, 5921,
                -5640, 2339, 6181, 1878, 6772, -129, -447, -129, -447, -129,
                -435, 9661, 2661, -5737, 2661, -5737, -2987, 11782, -6802,
                -8583, 17415, 9523, -4898, -4136, 9521, -4136, 9521, -10462,
                17834, -10845, -4044, 12351, -1707, 12351, -1707, 12351,
                599, -24817, 157, -24817, 17590, -6782, 1438, 21004, 13959,
                -12543, 5767, 8251, -6208, 7041, -6208, 7041, -8375, -6399,
                -18801, -6399, -18801, 9832, 5122, 694, -8133, 2111, -2325,
                2111, -2325, -2120, 29762, 7622, 11921, -263, 11921, 2684,
                4680, -1816, 2659, -1816, -12901, 5417, 9605, -9016, 5242,
                -2703, -13165, 5612, 5788, -4716, 9927, 11108, 1481, 13499,
                1481, 13499, 9457, 5669, -12900, -8534, 13232, -5141, 12219,
                11484, -9828, 11297, 2862, 14495, 8176, -1397, -11578,
                -1397, -11578, -536, -8366, 3111, -8366, -10041, 7912, 3289,
                -11545, 3289, -11545, -5805, -11545, -5805, -11545, -5805,
                14528, -13451, -6515, -7002, 12343, 9256, 10919, 9789,
                -10888, 10087, -5263, -2325, -6062, -2325, 13332, 5751,
                6251, 4321, -7142, 2121, 25870, 25273, 11074, -2810, -2712,
                7534, 701, 14605, -6647, -3910, 10442, 3655, -4409, -166,
                -10760, 3770, 9276, -10183, -117, 18253, -9454, -6612, 989,
                -32264, 11641, 2652, 14372, -7358, 7645, -14813, -1066,
                -14813, 6345, 11675, 3684, 11675, -13990, 17999, -9148,
                -4565, -12943, 6490, -6996, 16614, 526, 16614, 6483, 6629,
                -316, 18337, 7780, -9207, -2289, -4776, 14855, -12543,
                14855, -12543, 5708, -813, 2963, 2289, 10576, 2289, 10576,
                12548, 10033, -11109, 14400, 9910, 2948, -661, 19035, 2278,
                -13611, 1446, -13611, 3421, -13611, 3421, -13611, 294,
                -13611, 5995, -10817, -10508, -4612, 9381, -4612, 9381,
                -4612, -2926, 3401, 9094, -6360, -37, 18872, -6604, 2636,
                -6679, -10429, 6855, -10429, 6855, 3538, -2509, -5781, -667,
                21378, -3584, -9265, 2610, -8937, -3799, -6674, 11976, 1241,
                7268, 9038, 845, 9038, 15102, 1005, 15102, 6523, 3604,
                -4028, 9189, 12330, -7707, 19402, -11654, -6271, 12489,
                10507, -3739, 16739, -17999, 4446, -17590, -4180, 6325,
                -13440, -1549, -13440, -11522, 12918, -15133, 2665, -15133,
                2665, -15133, 7140, 12750, 12713, -4760, -4765, 11860, 7954,
                3303, 7763, 13166, 1371, 13166, 10243, -5454, 3178, -9835,
                6529, -2752, 7924, 2780, 5844, 4640, 17916, -7440, 489,
                -23853, 489, -23853, -18227, 7254, -17212, 2927, -17212,
                9684, 7794, 1268, -3261, -13687, 4265, -7754, -1482, -7754,
                -12012, -1375, 17023, -3016, -11384, -2325, -11384, 9047,
                6956, 5311, -8720, -3426, 3266, -3426, -862, 3822, 303,
                19253, 303, 19253, 10533, 12152, 7244, -15665, 9347, 4096,
                -8469, -905, 3531, 64, -8843, 3790, -2756, 3790, -2756,
                3790, -2756, 3790, 12527, -10017, 9793, -4734, 9852, 3494,
                3950, 13060, 1070, 13060, -5393, 1535, 20069, -10686, 12044,
                712, 14518, -6607, -9469, 9415, 2880, -2956, 8885, 17373,
                9203, 6380, -3431, -11587, 5517, 2687, 4751, -5132, -378,
                -5132, 14490, 1779, 14490, -15497, -7837, 2407, -1501, 6554,
                -1485, -5602, -1460, -15568, -7472, 14338, -17759, 14415,
                -14500, -19014, -8461, -5556, 755, -5556, 28695, -170,
                28695, 9592, -4101, 2027, -4101, 617, 7659, -23563, -6853,
                -2181, -2421, 9044, -1156, 16616, 4262, 7529, -2758, 799,
                -2758, -4076, -13460, 4614, -13460, 3361, -13460, 8242,
                -13865, -4511, -1039, -7909, 751, 1994, -5292, 1994, -14399,
                -3601, 3781, -4150, -1351, 31579, -13464, -5717, -6173,
                -12666, 17209, -10535, -7, 24469, -12705, 6381, -11095,
                11421, -16020, 3321, -17426, -2226, -17426, -2226, -17426,
                10680, 9351, -16403, -6643, 8703, -2535, -7876, 4313, -3528,
                8184, -1771, -1289, 17215, 7910, -8512, 11337, -2019,
                -18500, 16118, 5460, -16248, 9264, -6866, -11795, 9133,
                11325, 8350, -8882, -2828, 730, -11384, 6627, 1820, 2932,
                1820, 2932, 1032, 2932, 8115, 7507, 8115, 3133, 8115, 3133,
                -4391, 8753, -3396, 44, -8896, 44, -8896, -2654, 8571, 313,
                8571, -778, -3840, 7949, 2926, 7949, 2926, 7417, -7639,
                7417, -7639, 288, 10395, -3283, 8854, -3283, 8854, -3283,
                8854, -4038, -1155, -13520, -10711, -6664, 1021, 15308,
                1021, 15308, 7914, -6415, -11090, -1891, -4588, -10236,
                1673, -4446, -2034, -4770, -2034, 958, 2650, 958, 2650,
                -10031, -5024, 15230, 4394, -186, 19566, 6435, -2345, 3758,
                2109, -10094, 2109, -10094, 4949, -5177, -3916, -1656,
                -13115, -5481, 8422, -14569, -9144, 4996, -20009, 11518,
                5520, 8730, 9042, 8097, -10479, 4376, 16143, -6640, -1832,
                10556, -6435, -8295, -6435, -8295, 1918, 20855, -12252,
                -12152, 6472, 9301, -4846, 5260, -9763, -3823, 10632,
                -16008, -12169, 9122, 1227, 9122, -12200, 4205, -11805, 701,
                -27217, 18533, 11430, 12741, -6796, 10539, 2407, 10539,
                15305, -6188, -3634, -13365, -2145, 24501, 11784, 19143,
                9686, -3607, -18534, 5072, -4943, -4832, -4943, 8177, 9511,
                13835, -8589, 13835, -8589, 4776, 12234, -2805, 16144,
                -2805, 16144, 3263, 220, 7440, -1625, 8956, -3016, -3703,
                11242, 251, -3491, 251, -11977, 1772, -10228, 1772, -10228,
                412, -10228, 2750, -10418, -3739, -10682, 6226, -6031,
                -5875, -6031, -5875, 2566, -678, 1745, -4415, 244, -4415,
                -2729, -2962, -2729, 6101, 6281, 893, -13916, 5604, -10511,
                -3192, -20389, -3192, -20389, -13752, 7840, 2439, -11004,
                3056, 5697, -13923, 130, 8917, 2827, -14130, 2827, -14130,
                8921, 3903, 6940, 10973, 7720, 886, 7720, 2582, -6018,
                -6467, -6018, 18036, 9844, 8787, -8391, -276, -8391, -2092,
                7026, -5684, -19575, -8139, -1534, 6454, -1534, -9480, 3042,
                1120, -14683, -1952, -14683, 6792, -1807, -1692, -1807,
                -1692, -1807, -19840, 6549, -3731, 4355, -3731, 4355, 5931,
                -6719, -1559, -6719, -19041, -5935, 5388, -2334, -11445,
                -2334, -11445, -9189, -14351, -2738, -14351, 8257, 8437,
                -10166, -7124, 12544, 6923, -6602, -9070, -6602, -9070,
                11093, -16991, 9496, 8497, -10906, 4008, -10906, 6259,
                -10906, 6259, -10906, -3383, 10538, -225, 10538, 2964, 6251,
                8957, -1372, 3705, -1372, 3705, -9152, -305, 15084, -305,
                15084, 7155, 5531, -9019, -270, -21834, -270, -21834, 13845,
                4162, 1705, -19573, 12893, -5621, -3268, 8840, 3672, 8589,
                -5116, 1227, 14621, 5250, 4572, -4115, 1376, -4115, 1376,
                -5952, 5369, 2216, 551, 10207, -1638, 13856, -9304, 5581,
                -9304, 5581, 4071, -7321, -9343, -3325, -9343, 5477, -7741,
                372, -7741, 4656, 4005, 4656, -13395, 5442, 2166, 19622,
                -6149, 17999, 6681, 15430, 7468, -3247, 411, -3247, 411,
                -3247, 13926, -3442, 13926, -3442, 13926, -242, -16979,
                8394, 5754, -4377, 4752, 10498, -21594, -1701, 554, -15755,
                -11224, 9691, -8849, -5490, -8849, -5490, -19310, -3265,
                1924, -3738, 1924, -3738, 1924, -412, -14899, -7057, -3685,
                -987, -4583, 18091, -982, 18091, 10406, -12736, -5460, 1312,
                14403, 4518, -16116, -7372, 29699, 14, 29699, -12130, 1799,
                -4309, -10961, -11613, 8668, -10967, -7397, 12314, -1785,
                1863, -3075, 8357, -3075, -5832, -1305, -12507, 4903, 2397,
                899, -16841, 899, -16841, 9000, -1990, 22995, 3760, -5090,
                -935, -5090, -935, 5336, -26, -7424, -26, 28401, -14754,
                -5645, -766, 11056, -766, 11056, -3529, -7293, 5137, -17525,
                5350, -379, 14332, 6102, -13869, 313, -13869, -6215, 5791,
                7739, 900, 7739, 900, 7739, 900, 7739, 4677, -14467, 504,
                -14467, 5859, 12049, -6830, 10552, 5542, 4701, -164, 30002,
                8168, 6110, 907, 6110, -6152, 2896, -6152, -16121, -8810,
                -7601, -4266, -11297, -2572, -16223, 5889, 983, -23443,
                16330, 10194, -2434, -4601, 4507, -3906, -673, -14149,
                11742, -1063, 11742, -4226, 3650, -4620, -4514, 12374,
                -4514, -22890, -9743, -3146, 7701, -11249, 4403, -3714,
                -11544, -17414, 3761, -533, -12771, 7069, 7700, -3739, 6295,
                1668, 2424, 5437, 2424, 5437, 2054, 9099, 10435, 3729,
                10435, -22073, 1727, 7180, 4855, 7180, 4855, -8040, -20406,
                11140, 4996, 15430, -3676, 15430, 12743, -7423, 7637, 12010,
                3556, 12010, -780, 15245, 3206, -6417, -2592, 4340, -2592,
                4340, 18343, -8652, 1296, 16364, -5594, -333, -5594, -13603,
                9121, -13603, 9121, 7912, 2003, 7912, 2003, 7912, 2003,
                7912, -3211, 17467, 4404, 1294, 10977, 1294, 10977, 872,
                25930, -16267, 12825, -5124, 2731, 7512, 11925, -5701,
                11925, 5576, 9258, 3325, 13987, 14148, 4787, -15065, 3249,
                -15335, 2530, -15335, -10453, 4412, 4404, 21850, -11, 21850,
                -2944, 13786, -15078, 1096, -15078, 799, -7944, -14556,
                -7944, -14556, -7944, -5241, 4968, -5241, 4968, -5241, 1286,
                12872, 479, -5739, 479, -5739, -1112, 11920, -11594, 4846,
                -12823, 4846, -12823, 13851, -7157, 13851, -7157, 13851,
                -7157, 12216, -7412, 2841, 10195, -5707, 7412, 27, 7412,
                20813, 432, 20813, 9909, -14713, -14980, -14713, -14980,
                8486, -6102, -2246, 7608, -834, -8323, 16505, -2161, 16505,
                -1520, -5232, -11426, -5232, 2148, -11925, 197, -11925,
                -4620, -12542, 480, -12542, 13512, 4513, 16233, -17768,
                8201, 2589, -9060, -4419, -9060, -2302, -9825, -2759, 1057,
                -2759, 1057, -2759, 1057, -2759, 12941, 12970, -4108, 3723,
                -10969, -15240, 633, -15240, -8389, 360, 9874, 2669, -6644,
                5507, 4671, -1792, 8316, 14997, 8484, 5214, 7416, 4789,
                -13167, -6758, -6390, 4132, 2794, 20036, 16287, 15557, 6106,
                3394, 5427, -1413, 10802, -1529, 5365, -1529, 5365, 8935,
                -2021, 8935, -2021, 8935, 1258, -9229, -2023, -5672, 15207,
                10372, -4215, -3815, -12767, 1587, -12767, 18531, 10629,
                10080, 6643, -9780, 6170, -4350, 14752, 3024, 20966, -17485,
                8146, 8135, -13629, 2306, -7591, 2306, -7591, 2306, -13735,
                -11808, -4433, 22000, -4433, 22000, -4433, 22000, -13244,
                -5393, 6615, 2391, 6615, 2391, -5265, 7454, -7801, 5006,
                4389, -928, -2898, -928, -2898, -928, -10225, -527, 4526,
                662, 5904, 524, 1694, 20250, 1694, 20250, 10372, 4645, 5126,
                -6172, 17077, -1913, -5394, 845, 2937, -10164, -6530,
                -10746, -6530, -10746, -827, -16887, -8745, 9129, -6788,
                -8282, -10026, 644, -10026, -8018, -4420, 12407, 9789,
                -9887, -6464, -9887, -6464, -1142, 4582, -1142, 4582, -1142,
                3302, -1142, 3302, -16275, -2415, -16275, 11268, 9447,
                -8870, -2969, -424, -2969, -110, 5257, -209, 5326, 223,
                -8329, -3953, -801, -9782, -18512, -9717, 3372, -12792,
                -249, -12792, -7138, -1838, -7138, -7271, 5112, -7271, 5112,
                -2739, 9115, -2739, 9115, -2739, 9115, -18227, 1810, -18227,
                1911, -9218, -1682, 15424, 5046, -10801, -16251, 5587,
                -15947, -10042, 8676, 5793, -14772, 9529, 1928, 11698, 2045,
                -4793, 1599, -15271, -3917, 18813, -3917, 18813, 2517,
                18813, 1896, -23853, -10863, -23853, -560, -23853, 14851,
                -7416, 9431, -13283, 12465, -16692, 6589, -3395, -4572,
                -3395, -4572, -14381, 4112, -14995, 1122, -14995, -7798,
                -2130, 15723, -2130, 15723, 611, 15723, -8170, -6239, -8170,
                -6239, 9205, -1765, 6405, -6946, -11489, 6591, -25762, -80,
                -25762, -15640, -11336, 1709, -1667, -3482, -13626, -3482,
                -3168, -2782, -3168, -2782, -3168, -19157, 9639, -13408,
                10078, 20370, 18121, -10590, 10876, -13507, -16425, -1463,
                -16425, -10503, -4456, 42, -27606, -16242, -12206, 2823,
                18302, -13014, -7620, -11258, -7620, -11258, 7472, 1312,
                7472, 1312, 16374, 6896, 4204, -3729, 1045, -12349, -5764,
                3449, 9552, -5913, -8898, -5413, -8898, 4973, -12796, 6615,
                -4288, 4244, 15614, -4100, -3657, 7112, -3657, -21023,
                -3657, -21023, 917, -21023, 14323, 1394, 27804, 16347, 8034,
                -6547, 11496, -6547, 11496, -279, -14893, 4406, 4229, -9393,
                11665, 13290, 7778, 4324, 11388, -7998, 11388, -7998, -3485,
                -3129, 5828, -9020, -610, -9020, 2117, -11848, 1021, 3123,
                1021, 3123, -19504, 5592, -19504, -10288, 5152, 948, 746,
                10235, -4092, -8397, 2230, -4191, 19119, -4191, 19119,
                17311, 8513, -12496, 1086, -12496, 8356, 3033, 16526, -5223,
                -17623, -6528, 26454, 18791, 3306, -1488, -12693, 7283,
                -9730, -7878, 14515, -13980, 5510, -4275, 5510, -4275, 5510,
                -17746, 1647, 25013, 16465, -4445, -9470, -5897, -9470,
                -5897, 6320, 3536, 4336, 8501, -963, 6404, 7071, -11963,
                -4910, -7931, -2734, -7931, 3345, -11744, -5506, 15593,
                10100, 6452, -2444, 4046, 66, -7708, 66, -7708, 66, -7708,
                -2014, -5689, 20988, 13711, 7160, 1232, 15305, 1232, 15305,
                1232, 15305, -9558, -17531, -6929, -15046, 7745, 1733,
                -10138, 1464, 1063, -4741, -1949, -4741, -1949, -4741,
                -1949, -4741, -1949, -4741, -20568, -8133, -16698, 9382,
                -20933, 304, -20933, -11572, -11007, 4803, 12978, -5675,
                12978, -5675, -109, 24312, 10595, 5834, 15740, -5270, 2408,
                1395, 225, 22065, -11574, 2422, 18559, 2422, 18559, -14070,
                16075, 7846, 12311, -11436, -8973, -11706, 19060, 11995,
                -4501, 5951, 6448, 7926, -1033, 7926, 6978, 3747, 6978,
                -21641, -375, 8641, 1345, -7014, 7156, 1195, -15481, -11252,
                6287, -11252, 6287, -18171, -15824, -6304, -15824, -6304,
                -13658, 4754, 17274, -15826, -3272, -11267, -3272, -11267,
                -192, -17580, -3116, 2695, 2432, 2695, 19645, -9413, 10836,
                -7160, 10836, -7160, 6342, -4887, -3074, 6061, 11368, -4939,
                11368, -4939, 11515, -1477, 22992, 16748, 8343, -849, 8343,
                9929, -22935, 607, -22935, 607, -22935, -10630, 2713, 6109,
                2713, 6109, 14161, 10925, -6959, 10530, -4956, -1014, -7109,
                2355, -25371, 16963, 8421, 4072, -6747, -10330, 14584, 482,
                14584, -2888, -19000, -10934, -5345, 12484, 2184, -1371,
                2184, -8881, 8008, -3975, 8008, 6414, 3096, 14369, -21795,
                -15906, 5051, 4953, 447, 10700, 3619, 15413, -348, 15413,
                -8620, -3100, -23683, 412, -23683, -15395, 17032, 5965,
                17032, 5965, 15847, 12, 15847, -6948, -13144, -8882, -12344,
                -8882, -12344, 9598, 12192, 9107, 22649, -478, 22649, 6899,
                6354, 4344, 6354, 4344, 6354, 4344, 4190, -8326, 4190,
                -8326, 3002, -8326, 2933, 94, 2933, -11969, -7815, -11969,
                -7815, 6853, -3998, -3002, -9244, -8369, 3053, 15064, 85,
                15064, 7037, -2296, -7949, -15865, 1763, -15865, -12226,
                -9823, 7411, 5298, -1805, 19136, 3582, 2814, 3582, 2814,
                -2347, 10299, 5650, 8512, -18793, 10400, 4634, -8177, -4866,
                12835, -5187, 11309, 1979, 11309, -15537, -10014, -3845,
                10831, -4164, -9765, -4164, -9765, -5535, 4272, 4325, 4272,
                13579, 8971, -3765, 2915, -2193, 2915, -5390, 6887, 7657,
                6887, -4773, -8154, -6027, -476, 26242, -476, 26242, 9609,
                2886, 7591, 7936, 1344, 17650, -9375, -10511, 6497, -1899,
                6761, 1229, -5157, -7689, -1807, -14285, 14575, 8995, 8014,
                9533, 1822, 9533, 14652, -7756, 4717, -5060, -6633, -5060,
                16009, 4481, -3084, -11044, 11603, -5033, 7126, -1571,
                19883, 10687, -15404, 2551, -15404, 4283, 8223, 2423, 8223,
                -5, -4994, -5, -4172, -5, -4172, -922, -2770, -922, 16895,
                1618, -13233, 687, -1181, 687, -5519, -4109, -5519, -849,
                10853, 10684, 4325, 1692, -14034, 6415, 4562, 3937 >>,
            zc |-> << 16373, -2214, 996, -7714, 996, 4552, -2251, -8073, -4371,
                -8073, 9206, -16360, 9863, 5663, -5995, -8259, -5995, -8259,
                -12798, -13161, 3559, -9106, 3559, -9106, -19638, -3307,
                -1442, 11460, -340, 2663, -13131, 22049, -22738, -2044,
                -14081, 3351, -4809, 3351, -4809, -6209, 2081, -6209, 2081,
                -6209, -11763, -5308, -11763, -5308, 12272, -24359, -239,
                6633, -30732, 6633, -30732, 2886, -22161, 3646, 5528,
                -12557, -2439, -10835, 3726, -10835, 3726, -10835, 216,
                -4696, 14640, -14496, 20576, -29310, 133, 8848, -8377,
                -11138, 6393, -4376, 9666, -8847, 9666, -8847, 6008, -8847,
                6008, -8847, 1256, 3005, -5421, 3005, -5421, -16927, -7182,
                -16927, 1266, 8935, 3206, 17883, 663, 17883, 663, -10572,
                2772, -10572, 2772, 6752, -20547, -2308, 16700, -975, 13073,
                2108, 13073, 20578, 9911, -4710, 4311, -4687, -10838, -6600,
                12214, -22251, -2794, -3077, 11059, 645, 8369, 9845, 7651,
                -1282, 8235, -1562, 1348, -12786, -4528, -1819, 4391, -1819,
                4391, 10287, 4391, 13156, -6743, 5364, -11775, -3996,
                -11995, 24898, 1819, -21759, 2250, -9474, 15958, -2151,
                -6567, 3793, -1210, 11355, -3672, 14788, -9434, 14788,
                -9434, 14788, -9434, 14788, -15556, 7275, 460, 7275, 460,
                -8433, 5396, 13652, 1465, 3651, -18815, -3618, -18815,
                -3618, -5296, -13877, -1226, 19524, -29828, 7535, -8903,
                3571, -10895, -12912, -3079, 6613, -16797, -946, -6462,
                -1555, -6462, -19403, 3394, -9683, 3394, -9683, 1807, -1611,
                13210, 1411, 6304, -8370, 10089, -5621, -14490, -5621,
                -14490, 340, -3287, -2123, 16873, -818, -2432, 3142, 9629,
                978, 5238, 21083, 20666, -1371, -1493, -4752, -1506, -7349,
                -1506, -5366, 12983, 1109, -2171, -9045, 23127, -4, 11909,
                1067, 13828, 587, -11252, -3920, -11252, 19596, -11252,
                19596, -4834, -5202, -12533, 3013, 9643, -1189, 7239, 245,
                -9346, -1341, -1242, 3978, 2866, 3100, -14725, -1324, 10410,
                -17092, 10410, -17092, 23216, 253, 4401, -9160, 4401,
                -11163, -4697, -4898, 9026, -4898, 9026, -851, -4848,
                -15955, 3372, 19477, -1182, 19477, -1182, -6299, -15038,
                -4857, 8011, -682, 8011, -682, -18432, -9307, -18432, -6042,
                -1742, 17783, -8842, 17783, -4179, 7865, -2094, 7865, -2094,
                -483, -11065, -483, -9793, -7133, -17440, -2341, 12686,
                18060, -1853, 5713, 6275, 5713, 6275, 23768, -1588, -2214,
                -1967, -7117, 5948, 12600, 12394, 5331, 13989, 2034, -10156,
                12179, 5139, 9840, 9282, 9840, 9282, -15963, -2709, -8418,
                2625, 6969, 2625, 6969, 2625, 7019, 7686, 900, -12023,
                -19325, -12023, -19325, 3900, -2451, -8795, 1921, -9124,
                -3031, -7479, 14083, -1762, -2624, -1762, 3700, -11951,
                -3539, 10457, -18608, 7476, -1291, -1373, -5497, -1373,
                -5497, -2843, -12190, -4404, -12190, 2515, -1182, -12578,
                -1182, -12578, -1182, -12578, -15532, -2615, 6692, 3714,
                -4004, -12977, -8790, -15674, -11450, -21143, -9074, -21628,
                -6021, -4389, -11938, 1435, 6053, 13070, -3315, 14322, -784,
                -10392, 6105, -10392, -16820, 7536, -9695, 4111, -5125,
                -5248, -9792, -5551, -9792, -5551, -9792, 11283, -9792,
                11283, -19734, 246, -644, 14655, -644, 9246, 16906, -3892,
                16361, -31125, -67, 9626, 16562, -260, -662, 12413, -662,
                15963, 6522, 15963, 17431, -1933, -2348, 10307, -2348,
                -9242, -2820, 4248, -6405, -1802, -6405, 916, 4101, 4007,
                4101, -14716, 2710, -14903, 3808, -13796, 2376, 6544, -4378,
                6544, 1622, 2922, 13255, -3778, -6875, 15401, 1834, -11044,
                1804, -11044, 1804, -5964, -14057, 95, -6880, 851, -6880,
                -7267, 3231, 3218, 6438, 3218, 6438, 13399, -9333, -5794,
                -5900, -5794, -5900, -33, 7089, -33, -2084, -25994, -1195,
                20867, 7176, 1919, 2215, 1919, 2215, -10637, -6791, -7631,
                -6791, -7631, -9979, -7631, -9979, 8111, -15757, 12610,
                -15798, 789, 4078, 11419, 1476, -10145, -7809, -10145,
                -13342, -6436, -17210, -4537, -17210, -1153, -3417, -6129,
                -9505, -7386, -13341, 1676, 5740, -14473, 3542, 3963, 13896,
                3963, 13896, 3963, 11978, -23649, 823, -23649, 823, -13173,
                1846, 16595, -5520, 2469, 1411, 1744, 1411, -9980, 1158,
                10609, 2798, 10609, 2798, 10609, -1401, 22043, -22358,
                -21428, -4392, 6980, -11445, -8500, -17270, -1933, 15972,
                -3791, -6716, -11507, -6716, -11507, 14310, -12693, 4648,
                -11204, 10464, 5451, -7326, 5979, -3051, 5979, -3051, 4145,
                -11077, 4145, -12469, 13765, -20586, 27517, -516, 7584,
                7831, 15368, 22325, -2343, 3068, -9525, 3068, -9525, -2444,
                -2298, 4569, -2298, 4569, -2056, -5845, -2056, -5845, -2056,
                8511, -2056, 8511, -2056, 703, 7870, 703, 11466, 4980,
                11466, 5723, -7557, 15246, 3513, 15246, 3513, 13276, 23285,
                -46, 9566, 1809, 7382, -21502, 7382, -21502, -1546, 11438,
                1967, -7229, 373, -8163, 3969, -8163, 13858, 17549, 2763,
                -11345, -29373, -1654, -2701, 10523, -21945, 8968, -2066,
                5075, -4921, 8135, 7204, -11466, -5142, -9696, 3088, 7346,
                2231, 7346, 2231, -10618, 513, -20731, 11277, -20731, 1182,
                7084, 7093, 7084, -5500, -6284, -1946, -6284, -13362, -4294,
                5541, 12709, 5541, 12709, -5103, 12709, -5103, -11635,
                -4087, -11635, -4087, 20139, -5136, 20139, -25074, 494,
                4974, 4049, 4974, -2001, 10629, -15948, 11377, 1927, -5229,
                -10598, -19374, -759, 11188, -7244, -7074, -4392, 4698,
                4710, 4698, -9409, 4646, 1566, 4646, 1566, 4646, 1566,
                -6474, 1566, -6474, 25993, 1005, -15084, 499, -1423, -3870,
                -1423, -3964, 3722, -3964, -11763, -3964, -11763, -814,
                -13199, 6895, -13199, -5618, -7640, 11062, 11989, -3884,
                6293, 17344, 1093, -3378, -8865, 5222, -8865, 5222, -8865,
                -19292, 1572, 5077, 4357, -11296, -1147, 801, 13603, 801,
                -4121, 17758, -4121, 17758, 3831, 12558, -20023, 1380,
                16820, -1548, 16820, -1548, -11232, 3710, -11232, -644,
                -8389, 8254, -8389, 16227, -2907, 16436, -5383, 16436, 4993,
                -10862, -10419, -8060, -5192, 8388, -5192, 8388, 12741,
                9826, -5304, -9243, 4390, 4938, 1066, 2738, 1066, 2738,
                1066, 2738, 1066, -8521, 1066, -8521, -4929, -10255, 13350,
                -17136, -2562, -16408, -2808, -16408, -2808, 3793, -6460,
                3632, -11908, 616, -11908, 616, 5904, -8365, 5904, 7081,
                -18576, -909, -18576, -909, 6734, 11839, 6734, 11839,
                -15775, 8464, 17356, -760, 1455, 6386, 1455, -14224, -6246,
                -14224, 5355, -20681, 11758, -20681, 11758, -20681, 11758,
                -20681, 472, 4264, 22630, -4027, 22630, -2272, 11590,
                -16615, 5410, -15977, -1285, 1158, -7314, -5083, -1600,
                8801, -1600, -1858, -6057, -1858, 13218, -12159, -4583,
                5000, -7197, 13269, 7563, -14841, 7563, -14841, -10586,
                15060, -7677, 3023, -4683, 5076, -11353, 22776, 1702, 21662,
                5457, 21662, 5457, 21662, -2458, 1902, -19978, -7245,
                -19978, 19272, 16800, -786, -3677, 4808, -3677, 10317, 2692,
                5441, -4300, 5304, -4300, -7336, 13821, -8327, -8686, 15261,
                26064, -886, -18841, 4719, -18841, 4719, 2755, 15167, 10779,
                15167, 681, 13987, 9765, 13987, 1925, 1184, 2772, -8629,
                -19329, 2672, 5259, -15199, 1862, -15199, 1862, 3485, -4310,
                5230, 12471, 947, 5830, 3709, -1125, -7920, -1125, 6103,
                6599, -7024, -15639, -1157, 16772, -3824, -9843, -10951,
                -9277, 1056, -17220, 5964, -17220, -790, 4676, 1772, 4276,
                8395, 4276, 8395, 4276, 8395, 10144, -9603, -13983, 8563,
                17285, 1037, -7377, -3487, -1342, -17157, -1342, -17157,
                -1342, -992, 11136, -992, 7018, -15496, 7018, -15496, 1006,
                -5967, 2911, -5364, 2911, -9500, -5877, -7516, 1500, -3836,
                1500, -8649, -3266, -4613, -9452, -3490, 10198, -684, -1892,
                9177, -8210, -7985, 8062, 14614, 24869, -373, 1298, -7557,
                12647, -2292, -8607, -5026, -5066, 13902, -5250, -3598,
                -21332, 9293, -21332, 2577, 8386, -108, 4967, -108, 4096,
                11411, -6175, -13973, -1854, -12885, 4657, 8564, -13974,
                2632, -16764, -11339, -16764, -11339, -3847, 18705, 2673,
                5299, 5227, 14196, 192, -4052, -1200, -4052, -1200, 1572,
                -1200, 1572, -5022, 1572, -14614, -6767, -14614, 3442,
                -10605, 14035, -6427, -6019, 6590, 12526, 6590, 12526,
                -1721, 12526, -1721, -10435, 628, -10435, 628, -13722,
                -2063, -13722, -20728, -12768, -25004, -572, -1917, 13021,
                -26487, -691, -12653, -8501, 4956, 12413, -168, -9314,
                13884, -12449, -2358, 8009, -1532, 8009, -15931, 7340, 4511,
                7340, 4511, 5858, -7029, 13415, -6550, 11496, -3093, 11496,
                -3093, -16330, 4984, 22366, 808, -4246, 7477, 2909, 6703,
                -17406, 6703, -17406, -2415, -5552, 12808, -560, 12808,
                -560, -5235, -12512, 18289, -9820, -16435, 5829, 10611,
                -15145, 10611, -15145, 9731, -7394, -6386, 15329, -3560,
                15329, -3560, 15329, -3560, 15329, -3560, -1228, 6491, 6099,
                5855, -11335, 14532, -4048, 14532, -4048, 28647, -3594,
                28647, -768, -3962, -3329, 1571, 8831, 1571, -15497, -8098,
                16591, -1184, -10197, 2539, -10197, -3882, -10197, -3882,
                -10197, -3882, 19219, 4400, 4251, -17384, -26594, -17,
                -2184, 6891, -13748, 3529, 3871, 7586, 3871, 3429, 6762,
                3429, -12471, 9102, -12471, 9102, -12471, 9102, -12471,
                9306, 2167, 4549, 10311, 4549, 10311, 18864, -1013, 7789,
                16456, 6075, 16456, 6075, 16456, 6075, 16456, -2045, -13090,
                -2861, 6010, -11059, 6010, -11059, 16887, 8312, -5516,
                13071, 4621, -12009, 18124, -2022, 4388, -10692, 4388,
                -10692, -5159, -6825, -4432, 7907, 18955, -164, 11134, 8461,
                11134, -4772, -10815, 4354, 7382, -11736, -4897, 5289,
                14769, 74, 12251, 18150, 1067, -5570, -25234, 298, 14469,
                -22548, -9692, 2496, -11777, -8200, -1559, -4086, 2146,
                -4086, 3443, -4086, 5250, 10324, -13402, 7907, -1533, 3801,
                13276, -10355, 8127, 16569, 2848, 16569, -3966, 15730, 1659,
                -13668, -21522, -801, -16290, 4014, -16290, 4014, -16290,
                -2416, 13604, 4447, 13604, 4447, 10264, -3753, 9025, -22183,
                -1190, 8097, 10701, -1278, -2347, 12151, -2347, -9771,
                21714, 20417, -21047, 15558, 732, -2860, -128, -1368, 231,
                -21881, -10517, -21881, 1299, 5175, -8162, 5175, 4491,
                -5135, -967, -4621, -967, -8764, -20960, -8764, -20960,
                -7754, -2460, -7754, -2460, -8854, 4180, -4708, -2056,
                11556, -8376, -12265, 21157, 922, 5632, 14871, 4953, -1851,
                4608, -1851, -2284, 11396, -2284, 11396, -2284, -15289,
                -11400, -3195, 6773, 18123, 1737, -5872, -2319, 17015,
                -4535, 17015, -2818, -10386, -781, 5725, 3801, 3950, 9302,
                -8586, -15794, 19662, 1110, 5835, -4889, -11606, 17660,
                -11606, 17660, -11606, 17660, 1941, -8746, 15259, 24320,
                -2102, -4822, -6218, 15818, 11833, 1217, -2394, -16961, 218,
                -5260, -9306, -5260, -9306, 13716, -8983, -14625, -8983,
                -14625, 7370, 13192, 22374, -153, -3502, -22681, 7853,
                -3263, -12119, -814, -15263, -7459, -15263, 12640, 8107,
                18253, -389, 5380, -13158, 5380, -13158, -8479, -13158,
                -3411, 13694, -3411, 13694, -3411, 8122, -12971, -7910,
                15999, 1641, -9538, -835, 6978, -5180, 6978, 14647, -16741,
                -27978, 601, -10062, 5623, -10062, 9983, 10610, 18149, 2492,
                18149, 2492, 14051, -10002, 19312, -24644, -32815, 726,
                -4902, -4784, 1601, -4784, 1601, 5145, 18930, -14709, -1824,
                17103, -11418, 17103, 7296, 3818, -7646, -1783, -7646,
                -1783, -25258, -11033, -25258, -11033, -25258, -33454,
                -4632, 436, 2296, -4022, -14078, -7867, -11640, 11178,
                -7648, -6741, -13589, 2198, -13589, 2198, -8229, 92, -12143,
                -11416, 15934, 4058, -13992, -3990, -13992, 18462, -13992,
                18462, -19451, -2790, -8337, -16997, -15452, -5197, -4046,
                6788, -15435, 2512, 5203, -7312, -20166, 1198, -20166, 1198,
                -20166, 1198, 5926, 4246, -6689, 9266, 8013, 9843, -7170,
                7103, -5789, 13803, 2268, 3771, 4974, -3661, -4784, 1855,
                -7139, 18081, 13242, -3882, -4841, 1533, -9856, -4893,
                -4559, -10659, 1982, 4341, 16840, -16139, -643, -6191,
                11786, -6191, 11786, -5720, 890, 11577, 890, 11577, 890,
                5961, -10066, -5458, -13368, -352, -16332, -569, -7384,
                -13640, -9693, 8367, 14024, 21310, 1478, -10458, -1830,
                4815, -5689, -9335, 7146, 7072, 8669, 7072, 8669, 7072,
                -3978, -5513, -6736, -5513, -12855, -1676, 12321, 331, 3067,
                11974, 3067, -1414, 6343, -9296, -4664, -10269, 516, -10269,
                -14356, -4019, 11744, -2134, -5713, -4609, -5713, -13233,
                -26029, -2734, 5324, 10149, 17048, -13724, 8506, -16893,
                -628, -8468, -6175, -8468, 10350, -6907, -5183, 12232, 7118,
                12232, 8015, 5876, 2547, 11681, -7960, 11681, 1060, -25849,
                15655, -25849, 292, 26874, -14420, 26874, -683, -11132,
                -12526, -1323, 10433, 18107, 10433, 18107, 694, 10686, 6012,
                10686, 9416, 14982, 12047, 726, -3301, -5428, -3301, 14631,
                1106, 14631, 1106, -288, 16656, -288, 3562, 4012, -10681,
                -11564, 11272, -8641, 1538, -18143, -3516, -18143, 2042,
                -8700, -21285, 25, 4049, 9175, 4049, -10567, -6457, -13636,
                -7197, -11163, 4403, -3726, -6601, -3726, -6601, -7128,
                -10105, -4178, 24030, 10665, 24030, 29272, 3147, -9527,
                7969, 413, -12586, 413, -12586, 413, -12586, 413, 723,
                14841, 723, -11718, -10739, 17843, -9815, -10647, 15091,
                1148, -2933, 14819, -2933, 14819, -5174, -5370, 1418, 1666,
                1418, 1812, -4869, 1812, 21704, 7087, 21704, -95, 9375,
                9273, 9375, -9766, 11824, 11756, 4662, 11133, -9363, 1444,
                4401, 8308, 4401, -4365, 8237, -13091, -1622, 1250, -12687,
                1250, -8646, 2588, -8646, -205, 3157, -15504, 3157, -5482,
                7566, -5482, -11206, 2366, -2926, 5862, -2926, 7303, 796,
                -6139, -2219, -10491, -5323, -10491, -5323, -3560, 15290,
                -3560, 15290, -3560, -2227, -15281, -7788, -15281, -7788,
                -15281, 3588, 7372, -14301, -16253, 25530, -932, 7983, 2425,
                -2629, 7708, 9063, 9780, 2670, 3351, 10052, 3351, 10052,
                3351, 10052, 5042, 13460, 10194, 3641, 3492, 5911, -12407,
                -18085, -1918, -3760, -12290, 10003, -18972, -462, -8273,
                3651, 11707, -6616, 4887, 12539, 520, -15265, 7143, -15265,
                -3264, -8831, 19767, -1290, -8352, -18308, 1389, 8604, 610,
                5160, 9949, 5160, -13215, -2416, -6928, -7950, -4810, -8884,
                -3664, -32211, 8044, -32211, -291, 1865, -8672, 1865, -7170,
                -3053, 8895, -2221, -4775, 1709, -8142, 2921, -5462, 12180,
                280, 12180, 280, 3077, 2367, -5664, -10958, -5664, -10958,
                15905, 3082, -4801, -14177, -1347, -14177, -1347, -5103,
                11203, 3047, 6616, 1751, -3073, 1751, -10040, -6764, 5103,
                5746, -14857, -431, 11323, -3149, 11323, -3149, 10759,
                26688, -2439, 14520, 4500, 14520, 4500, 14520, 24657, -687,
                13288, 1293, -15544, 2827, -1723, 3000, -4922, 3000, 3687,
                -13679, -22291, 2469, 14639, 7231, -12086, -9079, -13562,
                1761, 7275, -105, -8175, -17623, 274, -11158, 12539, -4907,
                -9532, -7588, -11875, 15857, -11875, 15857, 13638, 20559,
                2530, 13472, 4390, -3970, 7396, -3970, 7396, -2544, -6530,
                1397, -6530, 1397, -6530, 14473, -15752, 23853, 5405, 6090,
                15480, -4201, -1526, -295, -16131, -295, 14581, 7805, 14581,
                -1377, 5916, 3915, -3043, 5741, -16046, 822, -6548, -8229,
                -8938, -8950, -2077, -4456, -8476, 11935, 5463, 5766, 5463,
                5766, 5463, 5766, 13030, 5766, 13030, 16256, -4310, 13837,
                2550, -1820, -2784, -1820, 7778, -8391, 17226, 248, -23962,
                -401, -23962, -401, -23962, -401, 553, 3791, 553, 3791, 553,
                13759, -4614, 13759, -1323, 6215, 3886, 6215, 3886, -8317,
                -7871, -8317, -7871, 5926, 11568, -6415, 19279, -6415,
                19279, 39, -10507, 28575, 1468, 12000, -2381, 6718, 19867,
                -5126, -14990, -2789, 4630, 7456, 4630, 7456, -14827, -1974,
                12244, 3982, 12244, 3982, 10209, 16270, 10209, 16270,
                -12931, 3757, 8939, 8031, -10011, 5647, -13329, -106, 6854,
                7064, 6854, 12418, -3597, -682, -6823, -3243, -7784, -5480,
                12216, 1672, -4961, 12740, 8830, -8590, -16838, -22, 93,
                24224, 93, -10526, -793, -10526, -793, -10526, 12953,
                -10526, 12953, -16220, -3559, -16220, -3559, -16220, 6378,
                -16220, -942, 2776, 3897, 6364, 5120, 6364, 5120, 3037,
                3069, 9115, 25450, -9927, 25450, -9927, 25450, 620, -18120,
                -1578, 6233, 14158, 1287, -6635, -3309, -6635, -3309, -6635,
                -3309, -8165, -10731, -3406, 308, 5724, 308, 5724, 308,
                9701, 308, 1412, 3347, 9470, 16543, -27545, -226, -9936,
                -1580, 966, -2833, 966, -2833, 966, -2833, 966, -2833,
                13762, -2598, -14871, -15999, 662, -15049, 5421, -15049,
                22496, -494, 16271, -7442, 16271, -7442, -7149, -7821,
                -8849, -7821, -8849, -7821, -8849, -12208, -10369, -12208,
                -10369, -5356, -6584, 5785, -4766, -6350, 5713, -4389,
                -10991, -4389, -10991, -18582, -2485, 2995, 7245, -4648,
                10685, -8014, -15081, -14450, -2178, -4868, 5032, -12199,
                29321, -10644, 2955, -12857, 15486, 8717, -17397, 7205,
                12537, 8685, 12537, 8685, 2056, 3953, 2056, -4867, 8286,
                -4633, 3992, -673, 12199, -673, 12199, -673, -7737, 12546,
                -20216, -3584, 15400, 2154, 1093, -1523, 1093, -1523, 1093,
                7006, 14256, 7006, 14256, -1322, 2426, 5566, 2426, 5566,
                14105, -383, 8704, 5373, 8704, 5373, 5584, -2931, -7322,
                -2931, -12020, 804, -581, -4201, -581, -15648, 4582, 12761,
                -7861, 10989, 1882, -2283, 3268, -2283, 6146, 2577, -3895,
                5733, -8091, 4469, -8091, 4469, -8091, -6823, -9472, 2553,
                -9472, 2553, 11936, 911, 9578, -13934, 2405, 8987, 182,
                9498, -5535, 13236, 1152, 12376, -6949, -8596, -1053, 4750,
                -19645, -31943, 275, -2455, 16949, -12557, 16949, -3995,
                9250, -15750, 3150, -3102, 4680, -3102, 4680, 10601, 114,
                21796, 114, 21796, 114, 7514, 1420, 7514, 1420, 7514, 1420,
                7514, -10209, -6540, -9167, 15591, 3472, -12226, 3493, 9095,
                -3618, 59, 11689, 59, -3012, -13071, -3012, -1163, -3012,
                13237, 13347, -10546, 19792, 212, 8941, -12379, 8941, 7619,
                -10066, -5874, -10066, 9843, -8588, 9843, -8588, 14647,
                -8588, 14647, 18594, -4633, 1964, -1333, -10671, -1333,
                -10671, -1333, 5348, 9646, -3866, 6354, -12414, 1331,
                -12414, 22822, 3543, -14913, -27137, -1496, -6201, -5145,
                -6201, -5145, -6201, -12862, 2606, 2403, 7406, 2403, 7406,
                2403, 7434, 1370, -6408, -1275, -6408, -1275, -6408, 674,
                -17097, -12655, -17097, -1192, 2956, -2667, 2956, -2667,
                -6440, -2185, -8662, 494, 13552, -10244, 13552, -1464,
                -5216, 7348, -4617, -11941, 57, -4183, 4501, -4183, -11171,
                -1324, -2366, -14213, -2366, -14213, -2003, 9639, 1312,
                -3850, -7932, 2010, 8599, -2559, -19032, 6742, 1207, 8508,
                1673, 6820, -7246, -329, -7246, -329, -9482, -829, 2469,
                -4372, -16017, 6215, -2240, -2765, 7288, -2765, 7288, -2765,
                5468, 11512, -2216, 2647, 6682, 2647, 6682, 2647, 9813,
                -5911, 15445, -7121, 6684, 14451, 6684, 14451, 6684, -10123,
                3978, -10123, 3978, -8816, -14281, -21848, -13583, -2051,
                2294, -12138, -8494, -14094, 10680, -4329, 1777, 5840, 1777,
                -4341, 1889, 2042, -9050, -1138, -20627, 11471, -20627,
                -937, -3009, -10017, -3009, -10017, -3009, -4759, -7002,
                5832, -8399, 1381, -8399, -15652, 5699, 12897, -2832, 258,
                -16503, -7184, -16503, -7184, -16503, -9057, 13298, -21674,
                -1422, -17175, -4643, 10414, -13941, -8505, -6275, 4588,
                14277, 4588, 14277, 4588, 14277, 4588, 5173, -8095, 16712,
                -26807, -1390, -4350, 5767, -241, 5078, -241, 19218, -8411,
                19218, 3695, -15264, 653, -16226, -7321, -16226, -25463,
                -142, 14220, 4847, 14220, 4847, -6024, 12217, 3429, 5155,
                23603, -8989, 23603, -8989, 23603, -8989, 23603, 137,
                -12287, -4429, -5904, -3380, -5904, -3380, -7187, -8812,
                -11860, -6708, 13729, -5365, 13729, 22433, 3, -2855, 4525,
                -12069, -1134, -6049, 10168, -9988, -2190, 2347, 7696,
                -7416, 12541, 2934, 5773, 2934, 5773, 15688, 3522, 13228,
                26887, 1889, 7562, -5557, -10882, 7120, 15971, 1793, 9504,
                -11895, -8313, -2978, 7271, 1467, -34884, 11944, -34884,
                -136, 17647, -506, 10492, -3628, 10492, 4, -1207, -6758,
                4617, -6758, 4617, -22228, 13854, 2421, 5904, -9433, -3685,
                -1902, -8214, -1902, -6537, 5843, -6537, 5843, -260, -7427,
                -5387, 13353, 531, 2712, 9197, 2712, 3854, 7079, 3854, 7079,
                3854, -5217, -4381, -32755, -4381, -32755, 264, -12772, 130,
                -12772, 130, 14344, 12598, -2043, 7050, 356, 7050, 356,
                7050, 356, -388, 6539, -388, -7731, -9088, -7731, -1003,
                -10013, -17678, -10013, -17678, -701, 11701, -501, 11701,
                2361, 11701, 2361, -5047, -6959, -5047, -6959, -5047, -6959,
                -5047, 8499, -9211, -16640, -3647, 4707, -11567, -9676,
                10220, -412, -3135, -4325, 13514, 6669, 13514, 6669, 13514,
                6669, 9907, 10481, -1206, 10481, -1206, -2614, 11626, -2614,
                -3166, -2614, -3166, -3609, -3166, -3609, 6859, 2596, 6859,
                2596, 6859, 2596, 4215, 3428, 4285, 3428, 4285, 6295, 4285,
                7675, 6362, -4139, 530, -4139, 530, -6667, 11011, -6667,
                15274, 2321, 6441, -2979, -9308, 3396, -1145, 5902, -1145,
                6574, -17330, 2229, -8978, -6547, -14392, 8572, -15303,
                -8055, -10020, 3585, 1996, 12775, -1415, -7746, 1324,
                -19459, 25958, 4317, -5730, -10306, 19506, 1268, -8267,
                17077, 198, 8331, 9463, -5047, -8768, -10653, -6604, 10576,
                18826, -692, -13231, 10199, -13231, -12215, -15991, -12215,
                -15991, 24552, -299, 12989, -7506, 12989, -4837, 11027,
                2061, 1770, 2061, 1770, 2781, 13099, 2781, 13099, 19225,
                -11895, 5130, 13278, -3882, 9791, -10847, 18452, -10847,
                18452, 27119, 11332, 2807, -14256, -3167, 9824, 18933,
                -9932, -4305, 12539, -10805, -8758, 5904, 6418, 6472, -1969,
                5876, 4600, -4380, 4600, -4380, 4021, -5770, -6399, -5770,
                -6399, -1387, 5889, 5826, -12155, 5236, 4720, -10604, 12236,
                -4982, -7102, -4964, 2710, 1995, -10028, -11634, -10028,
                -11634, -10028, 821, 24475, 7267, 24475, -3753, 24475, 137,
                -1292, 16334, -1292, -7661, 207, -7661, 5395, 511, 8429,
                511, 738, -8230, 738, -8230, -9667, -8230, -9667, -8230,
                5388, -7215, -10336, -2084, -10336, -2084, -6460, 7691,
                -6460, 7691, 10387, -5367, 2658, -5367, 2658, -2795, 12070,
                -2795, 5791, 14570, 6479, 14570, 6479, 14570, 6479, 14570,
                -648, -3833, 3998, -16285, 4023, -4533, -4318, -9029, -4318,
                -9029, -14902, 10740, -9502, 5426, -2555, 5426, -2555, 5426,
                3028, -9391, 7829, 344, 15210, -8021, 15210, -8021, 15210,
                3249, -6731, 15157, -6830, -17140, 1821, -1904, -1441,
                -5342, -1441, -6237, -1441, -10166, -16016, -9738, 15815,
                -15502, 3441, 4866, -6890, 4866, -5030, 11779, -7233, -1618,
                -19127, 14536, -19127, 2373, -11474, 1644, 5986, 9736,
                -8324, -3907, -6065, -6743, -6065, 4862, 8521, 4862, 8521,
                -579, 21219, -8750, 21219, -3214, -11251, 10039, -17557,
                11608, -4722, -11625, -61, -11625, -61, -3989, -10423,
                -3989, -11797, -22500, -30667, 518, -10899, 6379, 14678,
                -2609, 6075, -9867, -11989, 8189, -10169, -9290, -1678,
                -9290, 2292, 3689, -8473, 2795, -8559, -2784, -14113, 3634,
                -14113, 2292, 9327, 11958, 9327, 16868, 10980, -3531, 10851,
                361, -16875, -4583, -16875, 6938, 3441, 6992, -18348, 5180,
                18216, -5283, 8249, -11423, 14366, 7915, -13709, 9475, 4338,
                3054, -13215, -1717, 13988, -435, 4711, 14300, 7568, 1133,
                -15753, 8103, -15753, 870, 2682, -3249, 10878, -8502, 10878,
                9474, -16080, -3845, -11815, -10517, 19884, -394, -10081,
                -3206, -2524, -11721, -2575, -2451, 9289, -12697, 7693,
                5913, 14079, 2665, 14079, 2665, 12586, -2607, -14432, -3675,
                -14432, -7347, -14432, -7347, -14432, -7347, -17004, -1601,
                4244, 13171, -14495, -2834, -10897, 861, 3421, 15626, 3421,
                15626, -349, 9668, -6813, 9668, -6813, 5649, 13731, -264,
                452, -7421, -4343, 5794, -16015, -2040, -16015, -5370, 2295,
                4038, 1127, 7266, -3001, -13806, -5344, -4197, -9029,
                -11596, 13917, 1073, 10854, -5101, 10854, 6215, 10854,
                11710, -13489, -9748, -18953, -1980, -13355, 17592, 2427,
                8394, -5548, 8394, -11991, -19999, 2039, 14309, 24990,
                -1481, 2450, 9281, 29116, 394, -10364, -2501, 11064, 3859,
                3878, -14811, -2833, -14811, -2463, 9529, -24844, 4812,
                -12060, -6725, 13358, -17035, 1246, 6457, -11357, 16475,
                -1658, -8169, -1891, -11799, 2420, -11799, 2420, -6429,
                -17588, -2946, 2872, -3653, -2198, -6970, -2198, 8000, 7279,
                8000, 7279, -14089, -1923, -6881, -22723, -6881, -22723,
                1473, 3894, -8025, 14904, 8729, -8723, -564, -6185, -6049,
                11259, 4279, -11687, 330, -10687, -650, 6993, -35, -16432,
                -10248, 1566, 6570, -5092, -14482, -4204, -11847, -3285,
                -11847, -3285, 13820, -6054, -11806, -21190, -32683, -108,
                7904, -10488, -10290, -12897, -2805, -12897, -2805, -9804,
                -2805, -9804, -2805, -1025, -17560, -1025, -17560, 22488,
                -17560, 22488, -2076, -16060, -3176, -16060, 2423, -3378,
                -9612, -8644, -17538, -2163, -9474, -2570, 10226, -5303,
                -12720, 12120, 10231, 3345, 11890, 6162, 11890, 9047, 10677,
                -13107, 3337, -4867, 9215, -4867, 20481, 1323, 4200, 11904,
                4200, 11904, 388, 17041, 2281, 17041, -2288, -13365, -20900,
                -1787, 11522, 606, 11522, -14285, -7599, -7530, 1465, -8929,
                -637, -15103, -9833, 1960, -9833, 1960, -9833, 1960, 10388,
                20015, 1763, 441, -9791, 441, -9791, 441, -9791, 441, -3024,
                -6973, -7891, -16175, 526, 6487, 9665, 6487, -15548, -18677,
                5904, -14739, 4110, -11265, -20009, 6518, -989, 6518, 4973,
                -9113, -16186, 3105, 12065, 15218, 11253, 11680, 4377, 3159,
                -12931, -5628, -20423, -6239, -5960, -12519, -6059, 2685,
                8073, 8934, 2098, -7008, 6337, -4519, 4902, -12140, -22834,
                3429, -5207, -19002, -4293, 7823, -11982, 21517, -131,
                -1566, 2084, -1566, 5344, 2665, -6485, -12108, -6485,
                -12108, -6485, -12108, -17918, 1199, -146, 7811, -146,
                12325, -146, 12325, -146, 5834, -2226, 6640, -3000, 6640,
                -3000, 6640, 18255, 7795, -1707, 6521, -5531, -2448, -5531,
                23820, 26466, 1596, -16769, -396, 5256, 25270, 3098, -3954,
                -4699, -7423, -7628, 9547, 4702, 11183, 6428, 16607, 1913,
                -7874, 2381, 5065, -12326, 645, -18803, 12557, -18803,
                -3618, 8019, -6288, 13917, -2031, 13192, -13710, 1080,
                -11000, -6579, -11000, 5234, 2907, 2201, 10224, -11912,
                -12674, 6614, -12674, 6614, -4344, 3999, -2998, -2861,
                -2998, -13333, -5724, -13333, 3492, -7521, 16571, -5178,
                4861, 3769, 1739, 3769, -5010, 7275, -8652, -16751, 1041,
                -6105, 12719, 13711, 3968, -9744, 11847, -1436, 11847,
                -1436, 2247, 3529, 2247, 3529, 2247, 2877, 2247, 3129,
                -10846, -1354, 4806, 3130, 4806, -666, 8395, 17217, -342,
                5121, -3982, 5121, 7736, 11820, 778, -4376, -8845, 7178,
                7259, 1479, 7259, 1479, -1552, 2244, -1552, 16569, 2657,
                5183, -10139, -15346, -24014, 2431, -1374, -4535, 4758,
                -4535, 7572, -12203, 19376, -27245, 1458, 2657, -5082, 5317,
                -5082, 5317, -5082, 5317, -12750, 14199, 6874, 9084, -16095,
                8383, -8499, 17004, -1646, 6935, 10084, -12172, -10529,
                -4398, -11639, 773, 11055, 743, -4553, 18225, -5135, 4595,
                -9819, -12112, 3466, -3761, -11474, -3761, -354, 3782, 575,
                -3342, -10723, -16373, -13423, -13719, -2881, 950, -2908,
                950, 2260, -6657, -14414, 620, 19930, -2311, 19930, 29140,
                -946, 516, 5599, 16373, 16485, -1459, -6601, 13461, -6601,
                13461, -178, 13461, -178, 22380, -2612, -12164, 1013, -3631,
                1013, 7286, 3603, 7286, 3603, 13267, -5312, 13267, -5312,
                11097, -5963, -10030, -1052, -10030, -4096, -10030, -4096,
                -10030, -5340, 14393, -29414, 1715, -6830, -15666, -201,
                -7512, -1875, 3741, 3320, 3741, 10310, 3741, 10310, 3741,
                -14052, 2367, -4175, 2684, 4211, -12598, 1343, -12598, 1343,
                -2571, -7246, -7641, -7246, -4609, 9411, -2403, 6678, 4790,
                6008, 4790, 6008, 4790, 11322, 2795, 9312, 11953, 7379,
                -13632, -20459, -2196, 6795, 15564, -25542, 1304, -13670,
                -870, 7256, -9739, 7256, -23598, 127, -9635, -18185, 1314,
                -3689, 12518, -3689, -3533, -7050, 1996, 2333, 4325, 2333,
                -7913, 2333, -7913, 19599, -4481, 383, 4282, 1541, -3407,
                10256, -7762, 18528, 3303, -4561, -2875, 4008, -4399, 14485,
                7522, 14485, 21712, 1048, 5124, -4490, -7370, -2182, -10655,
                -23504, -10655, -23504, -695, -14584, 1872, -8238, -2333,
                -8238, -2333, -10675, -2333, -10675, -20713, 613, -2512,
                17125, -2512, 4190, 9705, 11738, -16729, 4378, 5520, 4378,
                5520, -8849, -9765, 9788, -16764, 2791, 16177, -3567, 16177,
                2436, -12112, -3792, -12112, -3792, 9301, -1512, 7105,
                -2882, 15838, 2147, 21420, 977, 7845, 14060, 5096, 14060,
                5096, -5576, 15581, -2276, -697, 5884, 961, 16334, 9558,
                10028, -17094, 2510, 9901, -5249, -9020, 2015, 4000, 3522,
                4000, -1114, 10757, -1114, 10757, -1114, -9845, 11646, 4615,
                10112, -19919, -1334, -8667, -2655, -10126, 14950, 551,
                -1002, 1295, -1002, 1295, -1002, 1295, -4384, 908, 7582,
                12359, -18681, -18397, -898, -2146, 9813, -2146, 9813,
                -2146, 1703, 21483, 1703, 21483, 1703, -10254, -18271,
                13441, -1203, 4866, 6246, 9021, 3085, 9021, 3085, 9021,
                3085, 28095, -5797, 28095, 1412, -5846, 4582, -8312, 10539,
                -8312, 10539, 7124, -14083, 13131, -8704, 12986, 17013,
                7900, 807, -4443, 807, 9106, -8297, 5069, 10190, 5069,
                10190, 5069, -13882, -6467, -7586, 2403, -10665, 2403,
                -10665, 2403, -14880, 3343, 8824, 18785, -344, 9085, 2839,
                9085, 2839, -7929, 1694, 4593, 3030, -34, 1658, -34, 1658,
                -34, -1932, -2821, -5058, 3117, -5058, 3117, -7465, -6856,
                11883, -18869, -6118, 6439, 4331, -7438, -13915, -7438,
                -13915, 18678, -7800, 6906, -2989, -12727, 4610, -12727,
                4610, -12727, 201, 10891, -2404, 10891, -6642, 3382, -9772,
                11170, 18097, 3264, -7918, 6288, -6698, -10869, -6698,
                -10869, 17297, 22131, -3518, 22131, -3518, -6647, 4417,
                12485, 361, -2146, 11744, -2146, 11744, -28164, -2854, 948,
                -1670, 2664, -1670, 11439, 813, 16721, -4335, 16721, -1048,
                -7998, 10646, 5663, -5834, 14440, -2237, -6589, 4517, 8636,
                -14759, 4296, 4700, 8565, 4700, 8565, 8449, 14785, 20729,
                -27572, -758, 10246, -13569, 16927, 22772, -1338, 10469,
                5577, 8786, -3444, -9699, -3444, -9699, -258, 9854, 4790,
                9854, -9490, -5464, -3140, 7608, -3140, 7608, -14078, 7608,
                -14078, 7608, -14078, -17322, 4134, -7013, -11587, -8825,
                10859, 9791, 10931, 11229, -14430, 1563, -15160, 6670,
                -15160, -1780, 7093, 4624, 5350, 9958, -18951, 19085, 12860,
                1836, 3222, -13050, -1150, 7783, 1954, 10381, -19384, -1028,
                6077, 2440, -8874, -221, -6138, 10290, 11586, -20100, -89,
                7659, -12481, -22399, 6107, -1091, 10956, 4557, 7394, -9424,
                -9341, -3984, -9341, -3157, 20851, 11590, 20851, 24615,
                -2780, 6806, -13219, -4358, -7835, 5181, 1223, 10725, 1223,
                14074, 1772, 7776, -1499, 15269, 2623, -2971, -12748,
                -18229, 3111, -18229, 3111, -8318, 18124, -60, -4953, 12594,
                -4953, 12594, 9910, 12180, 14716, -8975, 7661, 1949, 9138,
                -2842, 988, 1870, -1896, 1870, 4506, 1870, 4506, 1870,
                -3358, 1870, -9389, 10494, -9699, 3891, 6597, 3891, 6597,
                3891, -3131, -11998, 23774, 500, -6475, -238, 3538, -9148,
                1715, 6628, -8116, 6628, -8116, 2084, 4965, -3032, -9474,
                -3977, 21478, -579, -7609, 3298, -7478, -17782, -2539,
                12456, 558, 1148, 7184, 1148, 1423, -12676, 1423, 6116,
                2927, 6683, -12371, 12512, 18979, -8651, 5923, -11021,
                -10858, 7377, 14784, -20265, 5076, -18269, 3972, -17509,
                -728, -11632, 4658, -11632, -13721, -7543, 5176, -11009,
                5176, -11009, 5176, -13269, 16389, 4424, 4233, -9429, -8428,
                12861, 21683, 409, 9557, 4093, 9557, 9528, 3110, -5940,
                12219, -2716, 6175, -3896, 3410, 10863, 20480, 3044, 4556,
                -5891, 12618, -5891, 12618, -17148, -1284, 4297, -14771,
                4297, -10401, 4550, 1279, 10742, -5343, -3050, -22727,
                -5858, -22727, -1330, -12000, -2876, 1660, -9208, -5322,
                -9208, -7668, 11908, 20563, 860, 1118, -8296, 1118, -2248,
                -1513, -13282, 714, -13282, 714, 12226, 9604, 15677, 7224,
                -12764, 20892, 630, -8372, -329, 3774, 177, -8474, -2353,
                -8474, -2353, -8474, -2353, -8474, 10333, 13326, -4260,
                8503, -6337, 2817, 6635, 4688, -4715, 4688, 4762, -12721,
                4744, 15672, -4441, 13756, 793, 9333, -13397, -3889, 3240,
                12773, -25815, 1893, 10169, 3476, 7254, -10103, -2856, 4684,
                2734, -632, 3200, -632, 15122, -6370, 15122, 13003, -2712,
                -3646, 15924, -362, 4869, -1749, -6379, -7157, -15271,
                -17628, 13729, -16679, 18762, -11037, -2809, 444, 8504, 444,
                -3069, -9984, -3069, 1524, 427, -13050, 427, -3607, 25490,
                5036, -1844, -5117, -19916, -491, 8825, -3747, 16395, 1079,
                20589, -2199, 20589, -192, 8172, -2346, 8172, 8964, 8172,
                -13350, 11289, -1796, -1996, -14014, -200, -14252, -5627,
                -14252, 2037, -2807, -6230, 16934, -29595, -1964, 1759,
                -6635, -12978, -17261, -10358, 17010, -25630, -6, 4828,
                -10292, 13106, -16032, 11022, -1162, -7454, 10292, -7454,
                10292, -7454, -13455, 18804, 5374, -15508, -2116, 3919,
                -7582, -3012, 6153, -5527, 1550, -10709, -3384, 14067,
                21046, -1644, 11176, -18375, -4344, 15472, 6333, -7228,
                10933, -9083, -11632, 8041, 9177, 12164, -1029, -1810, 9635,
                -3903, -834, 332, -834, 332, -7930, 332, -5694, 6607, -5694,
                2823, -5694, 2823, 6509, -10785, 1494, -2490, 187, -2490,
                187, -6249, 905, -3471, 905, 1157, -2786, 6225, 2389, 6225,
                2389, -7650, 7381, -7650, 7381, -15639, 136, -6050, -14093,
                -6050, -14093, -6050, -14093, 1169, -3633, -12261, -16338,
                -1629, -4408, 7605, -4408, 7605, 14981, 23143, -958, -2117,
                -10779, -4169, -12094, 443, -291, -16110, -291, -658, 5758,
                -658, 5758, 6420, -12455, -9797, 1874, 7488, -1104, 3102,
                3468, -2571, -5821, 4697, -5821, 4697, -6079, 3897, -9070,
                -21538, -482, -8678, -15231, 7084, -9631, -16847, 11335,
                -4126, 7372, 9072, 8555, 11866, 5748, -12355, 11408, 2469,
                -7888, -2829, -7910, -7289, -7910, -7289, -15149, 4697,
                14429, -5500, -10368, 5136, 5629, -12952, 3069, -8485,
                -16011, 10598, -8648, 21387, -4701, 21387, 1833, -10436,
                5382, -14322, 5598, -7897, 14589, 6067, 6310, 18222, 6950,
                18222, 5117, 4293, -9819, -7063, -16426, -15584, 27161,
                2167, 6378, 13398, -11973, -1403, -10003, -4494, -10003,
                -18659, 1737, 9841, 5070, 9841, 5070, -9605, 9119, -11236,
                -17948, -11236, -17948, 529, 777, 2493, 8551, -1735, 5805,
                -18184, -1315, -22658, 9238, -22658, 53, -3963, 5483, -3963,
                5483, -1143, 5483, -12995, 1865, -8114, -6199, -6538, -7622,
                -3921, -7622, -3921, -10237, 26010, -8, 122, -7935, 122,
                -3394, 2445, -3394, -6492, 5705, 13808, 907, -10770, 5323,
                15170, -8394, 15170, -8394, -8560, -14711, 23908, 357,
                -3864, 11896, 9946, -19371, 29, 8103, 12032, 8103, 12032,
                -3994, 5176, 11672, 5931, 23002, -3815, 23002, 192, -22782,
                13675, -22782, -2667, 8789, 9879, -2137, -1314, -2137,
                -3144, -11888, 20338, -21637, -772, 13967, 5944, 13967,
                -795, -6778, 429, -2748, 12368, -2748, -10852, -30012,
                -11477, -30012, -11477, -30012, -333, -3083, -3191, -7735,
                -3191, -7735, 2987, -21489, 5164, -21489, -4245, -18304,
                -715, 5480, -12608, 5480, -12608, -4262, -6001, 9701, -6001,
                -8365, 10185, 8364, -13230, -6126, 6726, -9258, -13918,
                -9258, -13918, -18220, 7214, -14599, 2790, 3794, -3779,
                3794, 13707, 3794, 13707, 3794, -3489, -615, 4816, -615,
                4007, 12097, 3499, -6487, -25618, -6487, -25618, 303, -1677,
                -5407, -1677, -5407, 5459, 7925, 7489, -2609, -11127, -2609,
                -11127, -5031, 2989, 10044, 8718, -7591, 3718, -9118, -3116,
                6433, 14092, 1509, -5938, 5240, 14614, 911, 2864, -1716,
                2864, -1716, 9575, -2480, 7070, 23179, 82, 9798, -3020,
                8250, -3877, 8250, -3877, 7642, 3816, -5652, 6739, -5652,
                -9921, 1305, -2541, 1305, 12226, 4477, 12226, 5754, -4160,
                11271, 10189, 21994, -3072, 16223, 5709, 5464, 57, -14321,
                57, -14321, 57, -5620, 11043, -5620, 11043, -5620, 15987,
                -278, -7550, 4525, 5371, -13648, 22449, 7841, -445, -2433,
                9100, -10436, -13513, 11333, -18826, 11333, -18826, -6021,
                -1235, -703, -8177, -703, -8177, -703, 5281, -1915, -7999,
                -2252, -8872, -440, -6090, 6741, -6090, 13627, 7345, -3717,
                -10728, 2248, 13222, 15513, -1808, 355, 8547, 355, 1976,
                -1701, 8066, -11899, -8523, -11113, 8171, -12754, -6656,
                15537, -117, 4826, -2894, 4826, -3946, -10976, -1633, -5991,
                1606, -8302, 3237, -8302, 3237, -8846, 16963, -5345, 975,
                6205, -15651, 6205, -15651, -185, -14752, 6662, -14752,
                -216, 3598, -4479, 9393, -984, 9393, -984, 4662, -9523,
                -17310, 5339, -2713, 9014, -823, 6446, 2035, 3407, 2035,
                -9593, -2798, 10898, 1458, 10898, 1458, 10898, 1458, 10898,
                2013, 1679, 6629, 1679, -11628, 6400, 11240, -5850, 5578,
                4209, 12550, -2558, 1007, 659, -7886, 659, 17778, 5982,
                17778, -4563, -8456, -6200, -12580, -3461, -11908, -5106,
                -3598, 10408, 8403, -14758, 3131, 2707, -4809, -12064, 969,
                -4892, -3141, -5210, 3666, -5210, 12736, -24993, 143, 19642,
                -11668, 19642, -16126, -1446, -5019, -12987, 5271, -4002,
                10972, -19953, -19739, -460, 2080, -5544, -8194, 6087,
                12767, -1286, 4263, 4416, 3124, 4416, 3124, 9064, 2065,
                21914, -11745, 21914, 12696, -303, 6485, 12736, 6485, 12736,
                22587, -5058, -15777, 1249, -11362, 10674, -11362, 10432,
                16827, -1573, 2576, 14116, 2576, 12590, -1140, 14670, 874,
                -5082, -17824, -5082, -17824, 4740, 5102, -12520, 2265,
                -282, 6442, -282, -16384, -2424, -16384, -2424, 5423, 3761,
                5423, 3761, 5423, 3761, 5423, 12040, -9044, 1683, 7534,
                2242, 7534, 2242, 11480, 11720, 22291, -1728, 6046, -14941,
                882, -5842, -11802, -5842, 12279, 3280, 9190, 13747, 12260,
                20717, 1967, -2310, 10468, 8393, 10468, -6081, -3802, 5736,
                -200, 3740, -200, 21566, -921, 2682, 9068, 2682, -525,
                -3233, -12113, -3233, -12113, -3233, 4437, -5635, 4437,
                -5635, 4437, -12305, 1395, 10100, 229, 10100, 229, -3359,
                -15516, 4224, 14909, 3451, 14909, 3451, -5587, 11808, -5587,
                11808, -5587, 11808, -13671, 2642, -6655, 5629, 6519, 162,
                1422, 162, 2060, -10116, 2060, 5052, 16485, -6118, 16485,
                -6118, -11635, 2597, -7384, -2338, 8885, -762, -12429,
                -8386, -12429, 437, -2627, -10281, -2627, -3568, 1264,
                -2627, 1264, -8600, 14071, -1478, 14071, -14524, 22783,
                29645, 1086, -13773, 738, -7450, -6991, -7450, -15200,
                -1046, 8277, -826, 8277, -826, 8277, -826, 8277, -16540,
                4499, 3357, -9329, 4991, 27989, 7802, 27989, -378, -8392,
                453, 3943, 5505, -9552, 1997, 3675, -14952, 8431, 5375,
                6539, 6747, 13166, 4789, -7459, -4971, -4483, 13276, 13445,
                15628, 7225, 3446, 7401, 2264, 7609, -2360, 4547, -1851,
                4547, -1851, -4161, -5263, -4161, -5263, -4161, 11508, 894,
                -3006, -13469, -8414, 10928, 18672, -350, 23220, 8532,
                23220, -3861, 11192, 6548, 9660, 6857, -5818, 12552, -6505,
                16730, 19722, 3639, -14318, 21447, 2112, -6849, -1919,
                -6849, -1919, -6849, 13155, -6007, 18141, -13190, 18141,
                -13190, 18141, -13190, 3645, -5164, 4259, 2660, 4259, 2660,
                6265, -8178, 6545, -4405, 4975, -12668, -2991, -12668,
                -2991, -12668, -650, -10246, -188, 3800, 1087, 1095, 16232,
                3120, 16232, 3120, 5890, 4219, 7312, 15278, -10038, 21129,
                -170, -4723, 26582, 242, -13983, -3654, -13983, -3654,
                -12212, -1618, -9774, -6866, 7727, -9149, 10461, -1354,
                10461, -4734, -9275, -9547, 8384, 12221, -2682, 12221,
                -2682, 18776, 4356, 18776, 4356, 18776, -85, 18776, -85,
                -8725, 9236, -8725, -9783, 12435, 4072, -491, -2581, -491,
                -3777, -158, 5243, -213, 571, 4217, -5264, -15689, -36435,
                -322, -7786, -2231, -459, 8677, -459, -4953, -3278, -4953,
                -10636, -2250, -10636, -2250, -10641, -2150, -10641, -2150,
                -10641, -2150, 4720, -11994, 4720, -19022, 458, -8688,
                -4857, 15307, 23882, -2385, -14690, 7218, -8983, -7653,
                13470, 7689, -11214, 19615, 611, 2149, 6007, -15596, 1525,
                -2610, 16477, -2610, 16477, -12155, 16477, 305, -14106,
                8896, -14106, -6677, -14106, -3439, 10032, -14201, 15528,
                -19058, 5765, -3815, -8790, -21621, -8790, -21621, -1488,
                -3361, 4356, -6536, 4356, -10642, -1014, 990, -1014, 990,
                -12338, 990, -9535, -16219, -9535, -16219, -1983, 2356,
                -6872, 11407, -7091, -5662, -953, 9225, -953, -17361, -2807,
                -11886, 167, -2015, 7422, -2015, -21232, -7159, -21232,
                -7159, -21232, -2281, -14435, 15735, -21425, 17931, 5536,
                12522, -15730, 5729, -9439, 6315, -9439, -6298, -3724,
                -11818, 467, -19915, -2210, -11890, 9480, 9343, -10738,
                -11267, -10738, -11267, 3012, 9459, 3012, 9459, 3715, 4856,
                10103, 1155, -2939, 8850, -3424, -5919, 9413, 3519, -5910,
                -8513, -5910, -11263, 6751, -5336, 4367, -11707, 10943,
                1513, 4676, 4502, 4676, 7666, 4676, 7666, 7931, 7666,
                -11858, 21150, 4362, 4800, 5973, 12883, -4988, 12883, -4988,
                13834, -325, -3494, 6954, 12030, -13303, 10085, 4302, 6970,
                -8150, 7067, -8150, 7067, -2551, -4749, -4109, -1548, 4208,
                -1548, -8556, 3592, -8850, 302, -8850, 302, 6865, -18482,
                6865, -5208, -10400, 318, 3720, 2654, 6793, -5878, -1875,
                21483, -26262, 21483, -26262, 1556, 6968, 7524, -3304, 7524,
                -9374, 17479, 2623, 15356, -15477, -24664, -12851, 5223,
                1376, 5153, -5898, -9206, 9382, -14052, -13415, 9724,
                -15426, -6363, -15426, -6363, -15426, 9601, -21320, 3025,
                9591, 1766, -5809, -7499, -5809, -7499, -4396, 4172, 12799,
                2161, 1306, -7024, 11641, 7711, -3254, -3366, -6831, -3366,
                -7992, 6966, -13649, -8511, 13154, 2368, 5935, -1561,
                -12529, 32, -12529, 32, -12529, 32, -5473, -20292, -6547,
                12465, 2794, 5255, 15993, 5255, 15993, 5255, 15993, 22661,
                -3395, -15557, -17749, -1542, 7539, 2661, -10836, 106,
                -24527, -7798, -24527, -7798, -24527, -7798, -24527, -7798,
                -24527, -2413, -18133, -5920, -7239, 3353, -5479, 3353,
                -15108, -4072, -9904, -9048, 3170, -9048, 3170, -9825, -934,
                20832, 28644, 691, 3937, -10791, 228, 2308, 14656, 2417,
                -11971, 17277, -11971, 17277, 22439, -2930, 11761, 11198,
                10590, -15004, -19308, -14356, 3561, 4670, -7742, 4342,
                -3087, -3153, -3087, 21018, 9609, 21018, 8132, -23679, -41,
                2106, 12128, -2716, 8976, 3172, -10130, -16799, -10130,
                -16799, 8735, 4314, -14447, 4314, -14447, -5416, -14184,
                14257, 13490, -7486, -6960, -7486, -6960, -15491, -258,
                -1688, 18390, 4842, 18390, 3283, 15928, -7635, 6322, -7635,
                6322, -7244, 3398, -4143, -5249, 7612, 14676, 7612, 14676,
                -2966, 12213, -9792, 9177, -20956, -3064, -20956, 1335,
                4873, -9275, 4873, -9275, 4873, -3851, 3740, 12386, 3740,
                12386, 11282, 6620, 9735, -10233, 2511, -1526, -10866,
                -20032, 6028, -8062, 4477, 5125, 11186, -5591, 1675, 6491,
                1675, 14201, -6481, -6670, -12930, -4932, -20962, -3777,
                -20962, 370, -7297, 5764, -7297, 5663, 12954, 21988, 9563,
                -10502, -19942, 451, 4957, 1216, 5243, -8902, 1487, -8902,
                15736, -700, 3642, -9200, 3642, -12661, 9895, 2325, 9895,
                2325, 26, 10592, 26, 12066, -11432, -12208, -9542, -12208,
                -9542, -12185, 9647, 6630, -5137, -7276, -5137, 2077, -4518,
                5724, -4518, 5724, -4518, 5724, -426, 6518, -426, 6518,
                -5083, 6518, 31, 7833, 31, 7783, -6868, 7783, -6868, -7733,
                2547, -5669, -13519, -3153, -4436, 1036, -2167, 1036, 7873,
                16267, -666, 10491, 6762, 10491, -9615, -8517, -5833, 5687,
                14399, -3702, 5483, 1644, 5483, 1644, 5733, -5748, 10525,
                18166, 11559, -3793, 6313, 8328, -15353, -3241, 5368, 16971,
                5795, 16971, 16996, -2406, -7388, -11771, 6922, -10522,
                6922, -10522, -2767, 10287, 3955, 10287, 8671, 13036, 1251,
                -12666, 2517, -12666, 865, 4851, -8505, 4851, 6468, -7984,
                -4445, -9426, -6895, -9426, -6895, 1912, 4180, 7778, 8313,
                16646, 1557, 10532, -9214, -4113, 10809, -983, 6508, 26143,
                -293, -6392, -15374, -7063, 8369, 7298, 18033, 5103, 18033,
                4568, 9947, -2329, -19880, -11083, -19880, -2703, 2936,
                7883, -16779, -3509, 9436, -3222, 9514, -14657, 2606, 6347,
                -9965, 6347, -2412, 1563, -10999, 1563, -6281, 9582, -6281,
                -3, -6281, -3, -10057, -2110, -10057, -2506, 17079, 931,
                -311, -2548, -311, -771, 15873, -771, -2122, -13603, 4840,
                4356, 13098, 1938, -7991, 15997, 6817 >>,
            k |-> << 2, 2, 4, 2, 2, 2, 2, 4, 2, 2, 2, 2, 2, 2, 4, 4, 2, 2, 2, 2,
                4, 4, 2, 2, 2, 2, 2, 2, 2, 2, 2, 2, 2, 2, 2, 4, 4, 2, 2, 6,
                4, 4, 2, 2, 4, 4, 2, 2, 2, 2, 2, 4, 4, 2, 2, 2, 2, 2, 2, 2,
                2, 6, 4, 4, 2, 2, 2, 2, 2, 2, 2, 2, 2, 2, 2, 2, 2, 2, 4, 8,
                2, 6, 4, 4, 2, 2, 2, 4, 4, 2, 2, 4, 2, 2, 2, 2, 2, 4, 4, 2,
                2, 4, 4, 2, 2, 2, 2, 2, 2, 2, 4, 2, 2, 2, 2, 2, 2, 2, 2, 2,
                2, 2, 2, 2, 2, 2, 2, 2, 2, 2, 2, 2, 2, 2, 2, 4, 6, 2, 4, 2,
                2, 2, 2, 2, 2, 2, 2, 2, 2, 2, 2, 2, 2, 2, 2, 2, 2, 2, 2, 8,
                6, 6, 4, 4, 2, 2, 2, 4, 4, 2, 2, 2, 2, 2, 2, 2, 4, 4, 2, 2,
                2, 2, 2, 2, 2, 2, 2, 2, 2, 2, 2, 2, 2, 2, 4, 2, 2, 2, 4, 4,
                2, 2, 2, 2, 2, 2, 2, 2, 2, 4, 4, 2, 2, 2, 2, 2, 2, 2, 2, 2,
                2, 2, 2, 2, 2, 2, 2, 2, 4, 2, 2, 2, 2, 2, 2, 2, 2, 2, 2, 2,
                2, 2, 6, 2, 4, 4, 2, 2, 2, 2, 2, 2, 2, 2, 2, 2, 2, 2, 2, 2,
                2, 2, 2, 2, 4, 4, 2, 2, 2, 2, 4, 2, 2, 2, 2, 4, 4, 2, 2, 2,
                2, 2, 2, 4, 4, 2, 2, 2, 2, 2, 4, 4, 2, 2, 4, 2, 2, 2, 2, 4,
                2, 2, 2, 4, 4, 2, 2, 4, 2, 2, 2, 2, 2, 2, 2, 2, 2, 4, 4, 2,
                2, 2, 2, 2, 2, 2, 2, 2, 2, 2, 2, 2, 2, 2, 2, 4, 4, 2, 2, 2,
                2, 2, 6, 4, 4, 2, 2, 2, 2, 2, 4, 4, 2, 2, 2, 2, 2, 2, 2, 2,
                2, 2, 4, 2, 2, 2, 2, 2, 2, 2, 2, 2, 4, 4, 2, 2, 2, 4, 2, 2,
                2, 6, 6, 4, 4, 2, 2, 2, 2, 2, 2, 2, 2, 2, 2, 2, 2, 2, 2, 2,
                2, 2, 2, 2, 2, 2, 2, 2, 4, 2, 2, 2, 2, 2, 2, 2, 2, 8, 4, 6,
                2, 4, 4, 2, 2, 2, 2, 4, 2, 2, 2, 2, 2, 2, 2, 2, 2, 2, 2, 4,
                2, 2, 4, 2, 2, 2, 2, 4, 2, 2, 2, 2, 2, 4, 2, 2, 2, 4, 2, 2,
                2, 2, 2, 2, 2, 2, 4, 2, 2, 2, 2, 2, 2, 2, 2, 2, 4, 4, 2, 2,
                2, 2, 2, 4, 2, 2, 2, 2, 4, 4, 2, 2, 2, 2, 4, 4, 2, 2, 4, 2,
                2, 2, 2, 2, 2, 2, 4, 4, 2, 2, 2, 4, 6, 2, 4, 4, 2, 2, 2, 2,
                2, 2, 2, 2, 2, 2, 4, 2, 2, 2, 2, 4, 2, 2, 2, 2, 2, 2, 2, 2,
                2, 2, 2, 2, 6, 4, 4, 2, 2, 2, 4, 4, 2, 2, 2, 2, 2, 2, 2, 4,
                2, 2, 2, 2, 6, 4, 4, 2, 2, 2, 2, 2, 2, 2, 2, 2, 2, 2, 2, 2,
                2, 4, 4, 2, 2, 2, 2, 2, 2, 2, 2, 2, 4, 4, 2, 2, 4, 2, 2, 2,
                2, 2, 2, 2, 2, 2, 2, 2, 2, 4, 4, 2, 2, 2, 4, 4, 2, 2, 10, 4,
                8, 2, 6, 4, 4, 2, 2, 4, 2, 2, 4, 2, 2, 2, 2, 4, 4, 2, 2, 2,
                2, 2, 2, 2, 4, 4, 2, 2, 2, 2, 2, 2, 2, 4, 2, 2, 2, 2, 2, 2,
                2, 2, 2, 2, 2, 2, 2, 2, 2, 2, 2, 2, 2, 2, 2, 4, 4, 2, 2, 2,
                2, 4, 2, 2, 2, 4, 2, 2, 2, 4, 2, 2, 2, 2, 4, 6, 2, 4, 4, 2,
                2, 4, 4, 2, 2, 4, 2, 2, 2, 2, 4, 2, 2, 2, 2, 2, 2, 2, 2, 2,
                2, 2, 2, 2, 2, 2, 4, 2, 2, 2, 6, 8, 4, 6, 2, 4, 4, 2, 2, 2,
                2, 2, 2, 4, 2, 2, 6, 2, 4, 4, 2, 2, 2, 4, 2, 2, 2, 2, 2, 2,
                2, 2, 2, 2, 2, 6, 4, 4, 2, 2, 2, 2, 2, 2, 2, 2, 4, 2, 2, 4,
                4, 2, 2, 2, 2, 2, 2, 4, 4, 2, 2, 4, 2, 2, 2, 4, 2, 2, 2, 2,
                4, 2, 2, 2, 2, 2, 2, 4, 4, 2, 2, 2, 2, 2, 2, 2, 2, 10, 6, 8,
                4, 6, 2, 4, 4, 2, 2, 2, 2, 2, 2, 2, 4, 4, 2, 2, 2, 2, 2, 4,
                4, 2, 2, 4, 2, 2, 2, 4, 4, 2, 2, 4, 4, 2, 2, 2, 2, 2, 2, 4,
                2, 2, 4, 2, 2, 2, 8, 6, 6, 4, 4, 2, 2, 2, 2, 4, 2, 2, 2, 2,
                2, 2, 2, 2, 2, 2, 2, 4, 2, 2, 4, 2, 2, 2, 2, 2, 2, 2, 2, 4,
                4, 2, 2, 2, 2, 2, 2, 2, 2, 2, 2, 2, 6, 4, 4, 2, 2, 2, 2, 4,
                2, 2, 2, 2, 2, 4, 2, 2, 2, 2, 2, 4, 2, 2, 2, 2, 2, 2, 2, 2,
                2, 4, 4, 2, 2, 2, 4, 2, 2, 2, 4, 2, 2, 2, 2, 2, 2, 2, 2, 2,
                4, 4, 2, 2, 2, 2, 2, 2, 2, 2, 2, 4, 2, 2, 2, 2, 2, 2, 2, 2,
                2, 2, 2, 2, 2, 4, 2, 2, 2, 2, 2, 6, 6, 4, 4, 2, 2, 2, 2, 2,
                2, 2, 2, 2, 2, 6, 4, 4, 2, 2, 4, 2, 2, 4, 4, 2, 2, 2, 2, 4,
                2, 2, 2, 2, 2, 4, 2, 2, 2, 2, 2, 2, 2, 2, 2, 2, 2, 2, 2, 2,
                2, 2, 2, 2, 2, 2, 2, 2, 2, 2, 2, 2, 2, 4, 2, 2, 2, 2, 4, 2,
                2, 2, 2, 2, 2, 2, 2, 2, 2, 2, 2, 4, 4, 2, 2, 2, 2, 2, 2, 2,
                2, 2, 4, 6, 2, 4, 6, 2, 4, 2, 2, 4, 2, 2, 2, 2, 2, 2, 2, 4,
                6, 2, 4, 4, 2, 2, 4, 4, 2, 2, 4, 2, 2, 2, 2, 2, 2, 2, 2, 2,
                2, 2, 2, 2, 2, 2, 2, 2, 2, 2, 4, 2, 2, 2, 4, 4, 2, 2, 2, 2,
                2, 2, 4, 4, 2, 2, 2, 2, 2, 2, 2, 2, 2, 4, 4, 2, 2, 2, 2, 4,
                4, 2, 2, 2, 2, 2, 2, 2, 2, 4, 4, 2, 2, 2, 2, 2, 8, 8, 6, 6,
                4, 4, 2, 2, 2, 2, 2, 2, 2, 4, 4, 2, 2, 4, 2, 2, 2, 2, 2, 4,
                2, 2, 2, 2, 2, 2, 8, 2, 6, 6, 4, 4, 2, 2, 2, 2, 2, 2, 2, 2,
                2, 2, 2, 2, 4, 2, 2, 4, 2, 2, 8, 6, 6, 4, 4, 2, 2, 2, 2, 4,
                4, 2, 2, 2, 2, 2, 8, 6, 6, 4, 4, 2, 2, 2, 2, 2, 4, 4, 2, 2,
                2, 2, 2, 2, 2, 2, 2, 2, 4, 4, 2, 2, 2, 2, 2, 2, 2, 2, 4, 2,
                2, 2, 2, 2, 2, 2, 2, 2, 2, 2, 2, 2, 2, 2, 2, 2, 2, 2, 2, 2,
                2, 2, 2, 6, 2, 4, 2, 2, 2, 2, 2, 2, 2, 2, 2, 2, 2, 4, 2, 2,
                2, 2, 2, 2, 2, 2, 6, 4, 4, 2, 2, 2, 4, 4, 2, 2, 2, 2, 2, 2,
                2, 2, 2, 2, 4, 2, 2, 2, 2, 2, 2, 2, 2, 2, 2, 2, 2, 4, 2, 2,
                2, 4, 2, 2, 2, 2, 4, 2, 2, 4, 4, 2, 2, 4, 4, 2, 2, 2, 2, 2,
                2, 2, 2, 2, 2, 2, 2, 2, 2, 4, 2, 2, 6, 4, 4, 2, 2, 2, 2, 2,
                2, 2, 2, 2, 2, 4, 2, 2, 2, 2, 2, 2, 2, 2, 2, 2, 2, 2, 2, 2,
                2, 6, 6, 4, 4, 2, 2, 2, 2, 2, 2, 2, 2, 2, 2, 2, 2, 2, 2, 2,
                4, 4, 2, 2, 2, 4, 4, 2, 2, 2, 2, 2, 2, 2, 2, 2, 2, 2, 2, 4,
                2, 2, 2, 2, 2, 2, 4, 6, 2, 4, 2, 2, 6, 4, 4, 2, 2, 2, 2, 2,
                2, 2, 2, 2, 4, 2, 2, 2, 2, 2, 2, 4, 2, 2, 2, 2, 4, 4, 2, 2,
                2, 2, 2, 2, 2, 2, 2, 4, 4, 2, 2, 2, 2, 2, 2, 4, 2, 2, 2, 2,
                4, 4, 2, 2, 6, 4, 4, 2, 2, 2, 2, 2, 2, 2, 2, 2, 2, 2, 2, 2,
                4, 4, 2, 2, 2, 2, 2, 2, 2, 2, 6, 2, 4, 4, 2, 2, 2, 2, 2, 2,
                2, 2, 2, 2, 2, 2, 2, 2, 6, 6, 4, 4, 2, 2, 2, 2, 2, 2, 2, 2,
                2, 2, 2, 2, 2, 2, 2, 2, 2, 2, 2, 2, 2, 2, 2, 2, 2, 2, 2, 2,
                2, 2, 2, 2, 2, 4, 4, 2, 2, 2, 6, 4, 4, 2, 2, 2, 2, 2, 2, 2,
                2, 2, 2, 2, 2, 2, 2, 2, 2, 2, 2, 2, 2, 2, 2, 6, 4, 4, 2, 2,
                2, 4, 2, 2, 2, 2, 2, 2, 4, 2, 2, 2, 2, 2, 2, 4, 2, 2, 2, 2,
                2, 2, 4, 2, 2, 2, 2, 2, 2, 2, 2, 2, 2, 2, 2, 4, 2, 2, 2, 2,
                2, 4, 2, 2, 2, 2, 2, 4, 2, 2, 2, 4, 2, 2, 2, 4, 2, 2, 2, 2,
                2, 2, 4, 4, 2, 2, 2, 4, 2, 2, 2, 2, 2, 2, 4, 2, 2, 4, 4, 2,
                2, 4, 2, 2, 2, 2, 2, 2, 2, 2, 2, 4, 2, 2, 2, 2, 2, 2, 4, 2,
                2, 2, 2, 2, 2, 2, 2, 4, 4, 2, 2, 2, 2, 2, 4, 2, 2, 2, 2, 2,
                2, 8, 6, 6, 4, 4, 2, 2, 4, 2, 2, 2, 2, 2, 2, 2, 2, 2, 4, 4,
                2, 2, 2, 2, 4, 2, 2, 4, 2, 2, 4, 2, 2, 2, 4, 2, 2, 2, 2, 2,
                2, 2, 2, 2, 4, 2, 2, 2, 2, 2, 2, 4, 2, 2, 4, 2, 2, 2, 4, 2,
                2, 4, 2, 2, 2, 2, 4, 2, 2, 2, 2, 2, 2, 4, 4, 2, 2, 6, 4, 4,
                2, 2, 2, 6, 4, 4, 2, 2, 2, 2, 2, 2, 2, 2, 2, 2, 2, 2, 2, 2,
                2, 6, 6, 4, 4, 2, 2, 2, 2, 2, 2, 2, 2, 2, 2, 2, 2, 2, 2, 2,
                2, 2, 2, 2, 2, 2, 2, 2, 4, 2, 2, 2, 2, 2, 2, 2, 2, 2, 2, 2,
                4, 2, 2, 2, 2, 2, 2, 2, 2, 2, 4, 2, 2, 2, 4, 2, 2, 2, 2, 2,
                2, 2, 2, 2, 2, 2, 4, 4, 2, 2, 2, 2, 4, 4, 2, 2, 2, 2, 2, 4,
                4, 2, 2, 2, 2, 2, 2, 4, 2, 2, 2, 2, 2, 2, 2, 2, 4, 4, 2, 2,
                2, 2, 2, 6, 4, 4, 2, 2, 2, 2, 2, 2, 2, 2, 2, 4, 2, 2, 2, 2,
                2, 2, 2, 2, 2, 2, 2, 2, 2, 2, 2, 2, 2, 2, 2, 2, 2, 2, 4, 4,
                2, 2, 2, 2, 2, 2, 2, 4, 4, 2, 2, 2, 6, 4, 4, 2, 2, 2, 2, 2,
                2, 2, 2, 2, 2, 4, 2, 2, 4, 2, 2, 2, 2, 2, 2, 2, 2, 2, 2, 2,
                2, 2, 2, 2, 2, 2, 6, 8, 4, 6, 2, 4, 4, 2, 2, 2, 2, 2, 2, 4,
                2, 2, 2, 2, 2, 2, 6, 6, 4, 4, 2, 2, 6, 4, 4, 2, 2, 4, 2, 2,
                2, 4, 4, 2, 2, 4, 4, 2, 2, 2, 2, 4, 4, 2, 2, 2, 2, 2, 2, 2,
                2, 2, 2, 2, 2, 2, 4, 4, 2, 2, 2, 2, 4, 4, 2, 2, 4, 4, 2, 2,
                2, 2, 2, 2, 2, 2, 2, 2, 4, 2, 2, 2, 2, 2, 2, 2, 2, 2, 2, 2,
                2, 2, 2, 2, 2, 2, 4, 2, 2, 8, 4, 6, 2, 4, 4, 2, 2, 8, 4, 6,
                2, 4, 2, 2, 2, 2, 2, 4, 4, 2, 2, 2, 2, 2, 6, 4, 4, 2, 2, 2,
                2, 2, 2, 2, 2, 6, 6, 4, 4, 2, 2, 2, 2, 2, 8, 4, 6, 2, 4, 2,
                2, 2, 2, 2, 2, 2, 2, 2, 2, 8, 8, 6, 6, 4, 4, 2, 2, 2, 2, 2,
                2, 2, 4, 2, 2, 2, 2, 4, 4, 2, 2, 2, 6, 6, 4, 4, 2, 2, 4, 4,
                2, 2, 2, 2, 2, 2, 2, 2, 4, 4, 2, 2, 2, 2, 2, 2, 2, 2, 2, 2,
                2, 2, 2, 2, 2, 2, 2, 2, 2, 2, 2, 2, 2, 4, 4, 2, 2, 4, 2, 2,
                2, 2, 2, 2, 6, 4, 4, 2, 2, 2, 2, 2, 2, 2, 2, 6, 4, 4, 2, 2,
                4, 4, 2, 2, 2, 4, 4, 2, 2, 2, 2, 4, 4, 2, 2, 2, 4, 2, 2, 2,
                2, 4, 2, 2, 2, 2, 2, 2, 2, 2, 4, 2, 2, 2, 2, 2, 2, 6, 4, 4,
                2, 2, 2, 4, 4, 2, 2, 2, 2, 2, 2, 2, 2, 2, 2, 2, 2, 2, 2, 2,
                2, 2, 2, 2, 2, 2, 2, 4, 2, 2, 2, 2, 2, 2, 4, 4, 2, 2, 2, 6,
                4, 4, 2, 2, 8, 6, 6, 4, 4, 2, 2, 2, 2, 2, 2, 2, 2, 2, 2, 2,
                4, 2, 2, 6, 2, 4, 2, 2, 2, 2, 2, 2, 2, 4, 2, 2, 2, 4, 2, 2,
                4, 6, 2, 4, 4, 2, 2, 2, 2, 2, 6, 4, 4, 2, 2, 2, 2, 2, 2, 4,
                2, 2, 2, 2, 2, 2, 2, 6, 4, 4, 2, 2, 2, 2, 6, 4, 4, 2, 2, 2,
                2, 6, 4, 4, 2, 2, 2, 4, 2, 2, 2, 4, 4, 2, 2, 2, 2, 2, 2, 4,
                2, 2, 2, 2, 2, 2, 2, 2, 4, 2, 2, 2, 2, 4, 4, 2, 2, 2, 2, 2,
                2, 2, 2, 2, 2, 2, 2, 2, 2, 2, 2, 4, 4, 2, 2, 2, 2, 2, 2, 2,
                2, 2, 6, 4, 4, 2, 2, 2, 2, 2, 6, 4, 4, 2, 2, 2, 2, 2, 2, 6,
                4, 4, 2, 2, 4, 4, 2, 2, 2, 2, 2, 2, 2, 2, 2, 2, 2, 2, 2, 4,
                2, 2, 2, 2, 2, 2, 2, 4, 2, 2, 2, 6, 4, 4, 2, 2, 2, 2, 2, 4,
                2, 2, 2, 2, 2, 2, 2, 6, 4, 4, 2, 2, 2, 2, 2, 2, 2, 2, 2, 2,
                2, 2, 8, 6, 6, 4, 4, 2, 2, 2, 2, 2, 2, 2, 2, 2, 4, 2, 2, 4,
                2, 2, 2, 2, 2, 4, 2, 2, 2, 2, 4, 4, 2, 2, 2, 2, 2, 2, 8, 6,
                6, 4, 4, 2, 2, 2, 2, 2, 4, 4, 2, 2, 2, 2, 2, 2, 4, 2, 2, 2,
                2, 2, 2, 2, 2, 2, 2, 2, 2, 2, 2, 2, 2, 4, 4, 2, 2, 2, 2, 2,
                2, 2, 2, 2, 2, 2, 2, 2, 2, 2, 2, 2, 2, 2, 4, 2, 2, 2, 2, 2,
                4, 2, 2, 2, 2, 4, 4, 2, 2, 2, 2, 2, 2, 2, 2, 4, 2, 2, 4, 4,
                2, 2, 2, 2, 2, 2, 2, 4, 2, 2, 6, 4, 4, 2, 2, 2, 4, 4, 2, 2,
                2, 4, 4, 2, 2, 2, 2, 2, 6, 6, 4, 4, 2, 2, 4, 2, 2, 4, 2, 2,
                2, 4, 4, 2, 2, 2, 6, 2, 4, 4, 2, 2, 8, 6, 6, 4, 4, 2, 2, 2,
                2, 2, 2, 2, 2, 2, 2, 2, 2, 2, 6, 6, 4, 4, 2, 2, 2, 4, 4, 2,
                2, 6, 2, 4, 6, 2, 4, 4, 2, 2, 6, 6, 4, 4, 2, 2, 2, 4, 6, 2,
                4, 2, 2, 2, 2, 4, 4, 2, 2, 4, 2, 2, 2, 2, 2, 2, 2, 2, 4, 2,
                2, 2, 2, 2, 2, 2, 2, 2, 2, 2, 2, 2, 2, 2, 2, 2, 2, 2, 2, 2,
                2, 2, 2, 2, 2, 2, 2, 2, 2, 2, 2, 2, 2, 2, 2, 2, 4, 2, 2, 4,
                4, 2, 2, 2, 2, 4, 2, 2, 2, 2, 4, 4, 2, 2, 4, 4, 2, 2, 2, 2,
                2, 2, 2, 2, 4, 4, 2, 2, 2, 2, 2, 2, 2, 2, 2, 2, 2, 2, 2, 2,
                2, 2, 2, 2, 2, 4, 4, 2, 2, 2, 4, 4, 2, 2, 2, 2, 2, 2, 2, 2,
                2, 2, 2, 2, 2, 2, 2, 6, 4, 4, 2, 2, 2, 6, 2, 4, 2, 2, 2, 4,
                2, 2, 4, 2, 2, 2, 4, 2, 2, 4, 8, 2, 6, 4, 4, 2, 2, 2, 2, 4,
                4, 2, 2, 4, 4, 2, 2, 2, 4, 4, 2, 2, 4, 2, 2, 2, 8, 6, 6, 4,
                4, 2, 2, 2, 2, 2, 2, 2, 2, 4, 4, 2, 2, 2, 2, 2, 6, 4, 4, 2,
                2, 2, 2, 2, 2, 6, 4, 4, 2, 2, 2, 2, 2, 2, 2, 2, 2, 6, 2, 4,
                2, 2, 2, 2, 2, 2, 2, 2, 4, 2, 2, 2, 2, 2, 2, 4, 2, 2, 2, 2,
                2, 2, 2, 2, 2, 4, 2, 2, 4, 4, 2, 2, 2, 4, 2, 2, 2, 2, 2, 2,
                2, 2, 4, 4, 2, 2, 4, 2, 2, 2, 2, 2, 2, 2, 2, 2, 2, 2, 2, 2,
                2, 2, 4, 2, 2, 2, 2, 2, 2, 2, 2, 4, 2, 2, 2, 4, 2, 2, 2, 2,
                2, 2, 2, 4, 2, 2, 2, 2, 2, 2, 2, 2, 2, 2, 2, 2, 2, 2, 2, 2,
                2, 2, 2, 2, 2, 2, 2, 2, 2, 4, 2, 2, 2, 2, 2, 4, 2, 2, 2, 2,
                2, 2, 2, 2, 2, 2, 2, 2, 2, 2, 2, 2, 2, 2, 2, 4, 4, 2, 2, 2,
                2, 8, 2, 6, 6, 4, 4, 2, 2, 2, 2, 2, 2, 2, 2, 2, 2, 4, 4, 2,
                2, 2, 4, 4, 2, 2, 2, 2, 2, 2, 2, 2, 2, 4, 2, 2, 2, 2, 2, 2,
                2, 2, 2, 2, 2, 2, 2, 2, 2, 6, 2, 4, 2, 2, 2, 2, 2, 2, 2, 2,
                2, 2, 4, 2, 2, 2, 2, 2, 2, 2, 2, 2, 2, 2, 2, 2, 2, 2, 2, 2,
                4, 2, 2, 2, 2, 2, 2, 2, 2, 2, 2, 2, 2, 2, 2, 2, 2, 2, 4, 4,
                2, 2, 2, 2, 2, 2, 2, 4, 2, 2, 4, 4, 2, 2, 2, 2, 4, 4, 2, 2,
                2, 2, 2, 2, 2, 2, 2, 2, 2, 2, 2, 2, 2, 2, 2, 2, 2, 2, 2, 2,
                2, 2, 2, 2, 4, 4, 2, 2, 2, 2, 2, 2, 2, 2, 2, 2, 2, 4, 8, 2,
                6, 4, 4, 2, 2, 4, 6, 2, 4, 4, 2, 2, 2, 4, 2, 2, 2, 2, 2, 2,
                2, 2, 2, 2, 2, 2, 2, 2, 2, 2, 4, 2, 2, 2, 2, 2, 2, 4, 2, 2,
                2, 2, 4, 4, 2, 2, 2, 4, 2, 2, 2, 2, 2, 2, 4, 2, 2, 2, 2, 2,
                2, 2, 2, 2, 6, 6, 4, 4, 2, 2, 2, 2, 2, 8, 6, 6, 4, 4, 2, 2,
                2, 2, 2, 2, 2, 4, 2, 2, 2, 2, 2, 2, 2, 2, 2, 4, 2, 2, 2, 2,
                2, 2, 2, 2, 2, 2, 2, 2, 2, 2, 2, 2, 2, 2, 2, 2, 2, 2, 2, 2,
                2, 2, 2, 2, 2, 2, 2, 2, 2, 2, 2, 2, 2, 4, 2, 2, 2, 2, 6, 6,
                4, 4, 2, 2, 2, 2, 8, 2, 6, 4, 4, 2, 2, 2, 2, 6, 4, 4, 2, 2,
                2, 2, 2, 2, 4, 2, 2, 2, 2, 2, 2, 2, 2, 2, 2, 2, 2, 2, 2, 2,
                2, 2, 2, 2, 2, 2, 2, 2, 2, 2, 4, 2, 2, 2, 2, 2, 2, 2, 2, 2,
                2, 4, 2, 2, 2, 2, 2, 2, 2, 4, 4, 2, 2, 2, 2, 4, 2, 2, 4, 2,
                2, 2, 2, 2, 2, 2, 4, 2, 2, 2, 2, 2, 2, 2, 2, 2, 2, 2, 2, 4,
                4, 2, 2, 8, 4, 6, 2, 4, 2, 2, 2, 2, 2, 4, 2, 2, 2, 2, 2, 2,
                4, 2, 2, 2, 2, 2, 2, 2, 2, 4, 4, 2, 2, 4, 2, 2, 2, 2, 2, 2,
                2, 2, 2, 2, 4, 2, 2, 2, 2, 2, 2, 2, 2, 6, 6, 4, 4, 2, 2, 2,
                2, 2, 2, 2, 2, 2, 2, 2, 2, 2, 2, 2, 2, 2, 2, 2, 2, 2, 2, 2,
                2, 2, 2, 2, 4, 2, 2, 2, 2, 2, 2, 2, 2, 2, 2, 2, 4, 2, 2, 2,
                2, 2, 2, 4, 2, 2, 2, 2, 2, 2, 2, 2, 2, 4, 6, 2, 4, 4, 2, 2,
                2, 2, 2, 4, 2, 2, 4, 4, 2, 2, 4, 4, 2, 2, 2, 2, 8, 2, 6, 4,
                4, 2, 2, 2, 2, 2, 2, 2, 2, 2, 2, 2, 8, 2, 6, 4, 4, 2, 2, 2,
                2, 2, 2, 2, 4, 4, 2, 2, 2, 4, 2, 2, 2, 2, 2, 2, 6, 4, 4, 2,
                2, 2, 2, 2, 2, 2, 2, 2, 2, 2, 2, 2, 2, 2, 2, 4, 2, 2, 2, 2,
                2, 2, 2, 4, 2, 2, 2, 2, 2, 6, 2, 4, 4, 2, 2, 2, 2, 2, 2, 2,
                2, 2, 2, 2, 2, 2, 2, 2, 2, 4, 2, 2, 2, 2, 2, 2, 2, 2, 4, 4,
                2, 2, 2, 2, 2, 4, 6, 2, 4, 4, 2, 2, 2, 2, 4, 2, 2, 2, 2, 2,
                2, 4, 4, 2, 2, 2, 2, 2, 2, 2, 4, 2, 2, 2, 4, 4, 2, 2, 2, 2,
                2, 2, 2, 2, 2, 2, 2, 4, 4, 2, 2, 2, 2, 2, 2, 2, 2, 2, 2, 2,
                2, 2, 2, 2, 2, 2, 4, 2, 2, 6, 4, 4, 2, 2, 2, 2, 2, 2, 2, 2,
                2, 2, 2, 2, 2, 6, 6, 4, 4, 2, 2, 2, 2, 2, 2, 2, 2, 2, 6, 4,
                4, 2, 2, 6, 4, 4, 2, 2, 2, 2, 2, 2, 2, 2, 6, 6, 4, 4, 2, 2,
                4, 2, 2, 2, 2, 2, 4, 4, 2, 2, 2, 2, 2, 2, 2, 2, 2, 4, 2, 2,
                2, 2, 6, 4, 4, 2, 2, 2, 2, 2, 6, 4, 4, 2, 2, 2, 2, 2, 2, 2,
                4, 4, 2, 2, 2, 2, 2, 2, 6, 4, 4, 2, 2, 2, 2, 4, 4, 2, 2, 2,
                2, 2, 2, 2, 2, 2, 4, 4, 2, 2, 2, 2, 2, 2, 6, 4, 4, 2, 2, 2,
                4, 2, 2, 2, 2, 2, 2, 2, 2, 2, 2, 4, 4, 2, 2, 2, 4, 4, 2, 2,
                2, 2, 2, 2, 4, 4, 2, 2, 2, 2, 2, 4, 2, 2, 2, 2, 4, 2, 2, 2,
                2, 2, 2, 2, 2, 2, 2, 2, 2, 2, 2, 4, 4, 2, 2, 2, 2, 2, 2, 2,
                2, 2, 2, 2, 2, 2, 2, 2, 4, 4, 2, 2, 2, 4, 2, 2, 2, 2, 4, 8,
                2, 6, 6, 4, 4, 2, 2, 2, 2, 2, 2, 2, 2, 2, 2, 2, 2, 2, 4, 2,
                2, 2, 2, 2, 2, 2, 2, 2, 2, 2, 2, 2, 2, 2, 2, 2, 2, 2, 2, 2,
                2, 2, 2, 2, 2, 2, 2, 2, 2, 2, 2, 2, 2, 2, 2, 2, 4, 2, 2, 2,
                4, 2, 2, 2, 2, 2, 2, 2, 2, 2, 4, 2, 2, 2, 2, 2, 2, 2, 2, 2,
                2, 4, 4, 2, 2, 2, 2, 2, 4, 4, 2, 2, 2, 2, 2, 2, 2, 2, 2, 2,
                2, 10, 2, 8, 4, 6, 2, 4, 2, 2, 2, 2, 2, 6, 4, 4, 2, 2, 2, 2,
                2, 2, 2, 2, 2, 2, 2, 4, 4, 2, 2, 2, 2, 2, 2, 2, 2, 2, 2, 2,
                2, 2, 2, 2, 2, 4, 2, 2, 4, 2, 2, 2, 2, 2, 2, 2, 2, 2, 2, 2,
                2, 2, 2, 2, 2, 2, 2, 2, 2, 4, 2, 2, 2, 2, 6, 4, 4, 2, 2, 2,
                2, 2, 2, 2, 2, 2, 2, 2, 4, 2, 2, 2, 2, 2, 2, 2, 2, 2, 2, 2,
                2, 2, 2, 4, 4, 2, 2, 2, 2, 4, 2, 2, 2, 2, 2, 2, 2, 2, 4, 2,
                2, 2, 2, 2, 2, 4, 2, 2, 2, 2, 2, 2, 4, 2, 2, 2, 2, 4, 4, 2,
                2, 2, 2, 2, 2, 2, 2, 2, 2, 2, 2, 2, 8, 6, 6, 4, 4, 2, 2, 2,
                2, 2, 2, 2, 2, 2, 4, 2, 2, 2, 2, 2, 2, 2, 2, 2, 2, 2, 2, 2,
                2, 2, 2, 2, 2, 2, 2, 2, 2, 2, 4, 2, 2, 4, 2, 2, 2, 2, 2, 2,
                2, 2, 2, 2, 2, 2, 2, 2, 2, 2, 2, 2, 4, 2, 2, 4, 2, 2, 2, 4,
                2, 2, 2, 2, 2, 2, 2, 2, 2, 2, 2, 2, 2, 4, 2, 2, 2, 6, 2, 4,
                2, 2, 2, 2, 2, 2, 2, 2, 4, 2, 2, 2, 2, 2, 2, 2, 2, 2, 2, 2,
                2, 2, 2, 2, 2, 2, 2, 2, 2, 2, 2, 6, 4, 4, 2, 2, 2, 2, 2, 2,
                2, 2, 2, 2, 2, 2, 2, 2, 2, 2, 2, 2, 2, 2, 2, 2, 2, 2, 2, 2,
                2, 2, 2, 2, 2, 2, 2, 2, 4, 6, 2, 4, 2, 2, 6, 2, 4, 4, 2, 2,
                2, 2, 2, 4, 4, 2, 2, 2, 4, 2, 2, 2, 2, 4, 4, 2, 2, 4, 4, 2,
                2, 2, 2, 6, 6, 4, 4, 2, 2, 2, 2, 2, 2, 2, 4, 4, 2, 2, 2, 2,
                2, 2, 2, 2, 2, 2, 4, 2, 2, 4, 4, 2, 2, 2, 2, 2, 2, 2, 2, 2,
                2, 2, 4, 4, 2, 2, 2, 2, 2, 2, 2, 2, 2, 2, 2, 2, 2, 2, 2, 2,
                2, 2, 2, 2, 2, 2, 2, 2, 4, 4, 2, 2, 2, 2, 2, 2, 2, 2, 2, 2,
                2, 2, 2, 2, 2, 4, 2, 2, 2, 2, 2, 2, 2, 2, 2, 2, 2, 4, 2, 2,
                2, 2, 2, 2, 2, 2, 2, 2, 2, 2, 2, 2, 4, 2, 2, 2, 2, 4, 4, 2,
                2, 2, 2, 4, 4, 2, 2, 2, 2, 2, 2, 2, 2, 2, 2, 4, 2, 2, 2, 4,
                6, 2, 4, 2, 2, 2, 2, 2, 2, 2, 4, 4, 2, 2, 2, 2, 2, 4, 2, 2,
                4, 2, 2, 2, 2, 2, 2, 2, 2, 4, 4, 2, 2, 2, 2, 2, 2, 2, 2, 2,
                2, 2, 4, 4, 2, 2, 2, 2, 2, 2, 4, 2, 2, 2, 4, 2, 2, 2, 2, 2,
                4, 2, 2, 2, 2, 2, 2, 2, 4, 2, 2, 2, 2, 2, 4, 2, 2, 2, 6, 4,
                4, 2, 2, 2, 2, 4, 4, 2, 2, 2, 4, 2, 2, 2, 2, 2, 4, 4, 2, 2,
                2, 4, 2, 2, 2, 2, 2, 2, 2, 2, 4, 4, 2, 2, 2, 2, 2, 2, 8, 2,
                6, 4, 4, 2, 2, 2, 4, 2, 2, 2, 2, 2, 4, 4, 2, 2, 2, 4, 4, 2,
                2, 2, 2, 2, 4, 4, 2, 2, 2, 2, 2, 2, 2, 2, 2, 2, 2, 2, 2, 2,
                2, 2, 2, 4, 4, 2, 2, 2, 2, 2, 2, 2, 2, 2, 4, 4, 2, 2, 2, 2,
                4, 2, 2, 2, 4, 2, 2, 4, 2, 2, 2, 2, 2, 2, 2, 2, 2, 2, 2, 6,
                4, 4, 2, 2, 6, 4, 4, 2, 2, 2, 2, 2, 2, 2, 2, 2, 2, 2, 2, 2,
                2, 2, 4, 4, 2, 2, 2, 2, 6, 4, 4, 2, 2, 2, 2, 2, 2, 2, 2, 4,
                2, 2, 2, 2, 2, 2, 2, 2, 2, 2, 4, 2, 2, 2, 2, 2, 2, 2, 2, 2,
                2, 2, 2, 2, 4, 2, 2, 2, 2, 2, 2, 2, 4, 4, 2, 2, 2, 2, 2, 2,
                4, 4, 2, 2, 2, 4, 2, 2, 2, 2, 2, 4, 4, 2, 2, 2, 2, 2, 2, 2,
                2, 2, 2, 4, 2, 2, 2, 2, 8, 6, 6, 4, 4, 2, 2, 2, 4, 2, 2, 2,
                2, 2, 2, 2, 2, 2, 2, 2, 4, 2, 2, 4, 2, 2, 2, 2, 2, 2, 2, 2,
                2, 2, 2, 2, 2, 2, 2, 2, 2, 2, 2, 2, 4, 2, 2, 2, 2, 2, 4, 2,
                2, 2, 2, 2, 2, 2, 2, 2, 2, 2, 2, 2, 2, 2, 2, 2, 2, 2, 4, 4,
                2, 2, 2, 2, 4, 2, 2, 2, 2, 4, 4, 2, 2, 2, 2, 2, 2, 4, 2, 2,
                2, 2, 2, 4, 2, 2, 2, 2, 2, 2, 4, 4, 2, 2, 2, 2, 2, 2, 4, 2,
                2, 4, 4, 2, 2, 8, 6, 6, 4, 4, 2, 2, 2, 2, 2, 4, 4, 2, 2, 2,
                2, 2, 2, 2, 2, 2, 4, 2, 2, 2, 2, 2, 2, 2, 2, 2, 2, 4, 2, 2,
                2, 2, 2, 4, 2, 2, 2, 2, 4, 2, 2, 2, 6, 4, 4, 2, 2, 6, 4, 4,
                2, 2, 2, 2, 4, 4, 2, 2, 2, 2, 2, 4, 4, 2, 2, 6, 6, 4, 4, 2,
                2, 2, 2, 2, 2, 2, 4, 2, 2, 4, 2, 2, 2, 4, 4, 2, 2, 2, 2, 2,
                2, 2, 2, 4, 2, 2, 2, 4, 2, 2, 2, 4, 2, 2, 2, 4, 2, 2, 2, 2,
                2, 2, 2, 2, 4, 2, 2, 2, 2, 8, 6, 6, 4, 4, 2, 2, 2, 2, 2, 2,
                2, 4, 2, 2, 2, 2, 2, 2, 2, 2, 2, 2, 2, 2, 2, 2, 2, 2, 2, 2,
                2, 2, 2, 2, 2, 2, 2, 2, 2, 2, 2, 4, 4, 2, 2, 6, 4, 4, 2, 2,
                2, 2, 2, 2, 2, 2, 2, 2, 4, 2, 2, 2, 2, 2, 2, 2, 2, 2, 2, 2,
                2, 2, 2, 2, 2, 6, 4, 4, 2, 2, 2, 2, 6, 6, 4, 4, 2, 2, 2, 2,
                4, 4, 2, 2, 2, 2, 2, 2, 2, 6, 4, 4, 2, 2, 2, 2, 2, 2, 2, 2,
                4, 4, 2, 2, 2, 2, 2, 2, 2, 2, 2, 2, 2, 2, 4, 4, 2, 2, 2, 2,
                2, 2, 2, 2, 4, 2, 2, 2, 2, 2, 2, 4, 4, 2, 2, 8, 4, 6, 2, 4,
                4, 2, 2, 4, 2, 2, 2, 2, 2, 4, 2, 2, 2, 2, 2, 2, 2, 2, 2, 2,
                2, 2, 2, 2, 4, 2, 2, 4, 2, 2, 4, 4, 2, 2, 6, 6, 4, 4, 2, 2,
                4, 2, 2, 2, 2, 2, 2, 2, 2, 2, 2, 2, 2, 2, 2, 2, 2, 2, 2, 2,
                2, 2, 2, 4, 6, 2, 4, 2, 2, 2, 6, 2, 4, 2, 2, 2, 2, 2, 2, 2,
                2, 2, 4, 4, 2, 2, 2, 2, 4, 2, 2, 2, 4, 6, 2, 4, 2, 2, 4, 4,
                2, 2, 2, 2, 2, 2, 2, 2, 4, 2, 2, 2, 2, 2, 2, 4, 2, 2, 6, 4,
                4, 2, 2, 2, 2, 2, 2, 2, 2, 2, 2, 2, 4, 2, 2, 2, 2, 2, 2, 2,
                2, 2, 2, 2, 4, 4, 2, 2, 4, 4, 2, 2, 2, 2, 2, 2, 2, 2, 2, 2,
                2, 2, 4, 2, 2, 2, 2, 2, 2, 2, 2, 2, 6, 2, 4, 6, 2, 4, 2, 2,
                2, 2, 2, 2, 2, 4, 4, 2, 2, 2, 2, 2, 2, 2, 2, 2, 2, 2, 4, 4,
                2, 2, 2, 2, 2, 4, 2, 2, 2, 2, 4, 4, 2, 2, 4, 2, 2, 2, 2, 2,
                2, 2, 2, 2, 2, 4, 4, 2, 2, 2, 2, 4, 2, 2, 2, 2, 2, 2, 2, 2,
                2, 2, 2, 2, 2, 2, 2, 2, 2, 2, 6, 4, 4, 2, 2, 2, 2, 2, 2, 2,
                4, 4, 2, 2, 2, 2, 2, 2, 2, 2, 2, 2, 2, 4, 2, 2, 2, 2, 2, 2,
                2, 2, 2, 2, 6, 6, 4, 4, 2, 2, 2, 2, 2, 2, 2, 6, 6, 4, 4, 2,
                2, 2, 2, 2, 2, 2, 2, 2, 2, 2, 10, 8, 8, 6, 6, 4, 4, 2, 2, 2,
                2, 2, 2, 4, 2, 2, 2, 2, 2, 4, 4, 2, 2, 2, 2, 2, 2, 2, 2, 2,
                2, 2, 2, 2, 4, 4, 2, 2, 2, 2, 2, 2, 2, 2, 2, 2, 2, 2, 2, 2,
                4, 2, 2, 4, 2, 2, 2, 2, 2, 2, 2, 2, 2, 2, 4, 4, 2, 2, 2, 4,
                4, 2, 2, 2, 2, 2, 2, 4, 4, 2, 2, 2, 2, 2, 4, 2, 2, 2, 2, 4,
                4, 2, 2, 2, 2, 2, 2, 4, 4, 2, 2, 2, 2, 2, 2, 4, 2, 2, 2, 6,
                4, 4, 2, 2, 2, 4, 4, 2, 2, 2, 2, 2, 2, 2, 2, 2, 2, 2, 2, 2,
                2, 2, 2, 4, 2, 2, 2, 2, 2, 2, 2, 4, 2, 2, 2, 4, 2, 2, 2, 2,
                2, 2, 2, 2, 2, 2, 2, 2, 4, 2, 2, 2, 2, 4, 2, 2, 2, 4, 4, 2,
                2, 4, 2, 2, 2, 2, 4, 4, 2, 2, 2, 2, 2, 4, 2, 2, 2, 6, 6, 4,
                4, 2, 2, 4, 6, 2, 4, 2, 2, 4, 2, 2, 4, 4, 2, 2, 2, 2, 2, 2,
                2, 2, 4, 2, 2, 2, 2, 2, 4, 2, 2, 2, 2, 2, 2, 2, 2, 4, 4, 2,
                2, 2, 2, 2, 2, 2, 2, 2, 2, 2, 2, 2, 4, 2, 2, 2, 2, 2, 2, 4,
                4, 2, 2, 2, 4, 2, 2, 2, 2, 2, 4, 2, 2, 2, 4, 2, 2, 2, 2, 2,
                4, 4, 2, 2, 2, 2, 2, 2, 2, 2, 2, 2, 2, 2, 2, 2, 2, 2, 2, 2,
                2, 2, 2, 4, 2, 2, 2, 2, 2, 4, 2, 2, 2, 2, 2, 2, 2, 2, 2, 2,
                2, 2, 4, 2, 2, 2, 4, 2, 2, 6, 2, 4, 4, 2, 2, 4, 2, 2, 2, 2,
                2, 4, 2, 2, 4, 2, 2, 2, 2, 2, 2, 2, 2, 2, 2, 6 >>])
    @@ (387 :> [u |-> << 591, 207, 56, 527, 438, 880, 989, 35, 354, 561, 551, 902,
                501, 756, 85, 23, 518, 981, 582, 387, 241, 934, 335, 460,
                17, 48, 494, 334, 550, 497, 542, 743, 862, 422, 431, 200,
                685, 761, 248, 614, 702, 657, 732, 603, 362, 155, 107, 304,
                183, 498, 849, 361, 121, 257, 211, 446, 592, 117, 958, 399,
                496, 200, 686, 198, 101, 482, 870, 468, 197, 102, 841, 541,
                619, 560, 351, 913, 680, 844 >>,
            z |-> << -13358, -25823, 428, -25823, 10089, -984, 8356, -984, 8356,
                17344, 9055, 43, 16321, -2732, 3879, 166, 3879, 523, -18172,
                -13903, -4803, -1915, -4803, -3567, -21035, -79, -21035,
                6033, -1770, 31277, 16521, 6092, -2285, -16656, -13607,
                6243, 10858, -7859, 6374, 15245, 10008, 12600, 6716, -16481,
                -10151, -9229, -3243, -9229, -48, 11959, -3935, -8705,
                -3517, -8145, -2636, 21564, -9530, -849, -1085, -849,
                -14316, 6243, -9972, -504, -429, 10908, -925, -14013, -593,
                22133, 1492, 22133, 10351, -19783, 6794, 2575, 8896, -2027 >>,
            zc |-> << 4207, 11544, -6868, 11544, -1639, -3131, -19744, -3131,
                -19744, 20726, 1162, 9306, 117, 1695, 147, -4346, 147, 3037,
                13421, -6050, -20237, 5046, -20237, -289, -710, -6372, -710,
                -19721, 30219, -2165, 2896, 4094, 10689, -18760, -3129,
                -10050, 7726, 8174, -14039, 8577, 12913, 8534, 15018, 12424,
                -4057, -5707, -6491, -5707, -13509, -38, 9913, -3192, -5498,
                -6829, -14348, -12337, 2314, -25335, 4956, -25335, -161,
                -10022, 6170, -382, -9509, -529, 10836, -1465, -452, 7769,
                12160, 7769, 20518, 8025, -2438, 5910, 4649, 2004 >>,
            k |-> << 2, 4, 2, 2, 2, 4, 4, 2, 2, 2, 2, 2, 2, 2, 4, 2, 2, 2, 2, 2,
                4, 2, 2, 2, 4, 2, 2, 2, 2, 2, 2, 2, 2, 2, 2, 2, 2, 2, 2, 2,
                2, 2, 2, 2, 2, 4, 2, 2, 2, 2, 2, 2, 2, 2, 2, 2, 2, 4, 2, 2,
                2, 2, 2, 2, 2, 2, 2, 2, 2, 4, 2, 2, 2, 2, 2, 2, 2, 2 >>])
    @@ (404 :> [u |-> << 668, 350, 893, 278, 52, 917, 472, 6, 488, 841, 769, 346,
                358, 727, 662, 600, 724, 699, 17, 698, 293, 984, 867, 741,
                354, 295, 25, 160, 819, 151, 725, 9, 701, 229, 989, 581,
                755, 38, 243, 121, 525, 970, 63, 359, 292, 905, 958, 336,
                466, 723, 739, 693, 350, 50, 606, 657, 999, 187, 855, 227,
                432, 734, 200, 402, 521, 682, 501, 102, 148, 309, 89, 845,
                698, 266, 612, 545, 764, 211, 969, 845 >>,
            z |-> << -11827, 7780, -3143, -546, -2093, -560, -2093, -54, 12349,
                4631, -6818, -12672, 13439, 8868, 10360, 15363, 9495,
                -10767, 3945, -10767, 3945, -7819, 3945, -7819, -13533,
                3621, -3507, 3621, -3507, 4687, -10062, 15036, -10062,
                15036, 303, 15036, -4974, 704, -4974, 704, 4874, -13762,
                -1798, -13762, 5412, -4186, -1107, -4186, 17646, 9524, 8740,
                -10327, -4448, 1305, 16293, 3545, -4041, 3545, -4041, -3653,
                16288, -8244, -4204, 5503, 19862, 154, -9599, -5720, -4495,
                -5720, -10640, 4733, -10640, 7014, 9013, 15551, -7303,
                -12460, -410, -12460 >>,
            zc |-> << 13375, -2955, 5566, -271, -118, 8400, -118, -2215, -434,
                5852, 12007, -13771, -8341, 12424, 16658, 6911, 10670,
                10352, 6004, 10352, 6004, 12970, 6004, 12970, -9645, -3856,
                3211, -3856, 3211, -7231, 7488, 4798, 7488, 4798, 1818,
                4798, -3372, -10505, -3372, -10505, 263, -9308, -5589,
                -9308, -2770, -20515, 3098, -20515, -2643, 8860, 10821,
                13393, -1479, -5505, 11001, -3115, 5264, -3115, 5264,
                -14737, -4703, 6442, -12922, -24779, 2355, 20070, 34, -2646,
                -8320, -2646, 9057, 8231, 9057, -14614, 22038, 2700, 6687,
                -6526, 1381, -6526 >>,
            k |-> << 2, 2, 2, 2, 4, 2, 2, 2, 2, 2, 2, 2, 2, 2, 2, 2, 2, 4, 6, 2,
                4, 4, 2, 2, 2, 4, 4, 2, 2, 2, 4, 6, 2, 4, 2, 2, 4, 4, 2, 2,
                2, 4, 2, 2, 2, 4, 2, 2, 2, 2, 2, 2, 2, 2, 2, 4, 4, 2, 2, 2,
                2, 2, 2, 2, 2, 2, 2, 4, 2, 2, 4, 2, 2, 2, 2, 2, 2, 6, 4, 4 >>])
    @@ (411 :> [u |-> << 845, 618, 264, 254, 884, 562, 719, 403, 877, 803, 927, 181,
                620, 91, 878, 943, 362, 274, 518, 118, 404, 974, 26, 186,
                284, 344, 665, 877, 758, 595, 946, 332, 144, 518, 725, 494,
                910, 814, 870, 683, 425, 968, 864, 251, 685, 343, 17, 268,
                874, 951, 116, 432, 312, 362, 121, 883, 146, 108, 783, 185,
                404, 106, 946, 725, 732, 443, 365, 57, 86, 817, 821, 623,
                142, 414, 794, 207, 116, 305, 191, 91, 152, 549, 767, 560,
                942, 112, 946, 394 >>,
            z |-> << 3647, -14280, -8963, 5120, 1615, 17012, -6871, 9665, 2193,
                4376, -7688, 4376, -7688, -1620, -13619, -1620, -13619,
                1450, -10364, -2372, 3554, -5928, -9331, -5928, -9331,
                12942, 8065, 3378, 5335, 5883, -1521, -8866, 602, 17753,
                -456, 8887, 3881, 2613, 3881, -7227, 4579, 8289, -3980,
                8289, -10973, 6095, -1745, 6095, -1745, -18037, -1745,
                -18037, -10366, -8737, -6083, 2185, -6083, 2185, -6083,
                -3787, -8897, 9476, 137, 9476, -4048, -20477, -5332, 4509,
                4376, 4509, 4376, -9978, -2592, 13429, -6087, -3016, -3520,
                -9509, 1663, 15367, 1663, 15367, 3421, 6655, -1341, 16010,
                -1341, 16010 >>,
            zc |-> << 10598, 7211, -8604, -3266, 9862, 4874, 15706, -2458, 2727,
                -11598, 2262, -11598, 2262, 5208, -8312, 5208, -8312,
                -17733, 502, -9509, -713, -8638, -12894, -8638, -12894,
                -12173, 3537, 4927, 14485, 1254, 4058, -4172, -11624, 1452,
                17840, -125, 7843, 2220, 7843, 17867, -725, -11088, 5853,
                -11088, 12986, -3763, -9862, -3763, -9862, -6523, -9862,
                -6523, -14089, -3184, 5482, -3020, 5482, -3020, 5482,
                -12402, -2166, 9173, 272, 9173, 16683, -8607, -1617, 4451,
                11380, 4451, 11380, 3453, -10777, -3925, 6116, -2304, -6950,
                -5976, -11780, 2822, -11780, 2822, 15135, 908, 5703, -14352,
                5703, -14352 >>,
            k |-> << 2, 2, 2, 2, 2, 2, 2, 2, 2, 4, 4, 2, 2, 4, 4, 2, 2, 2, 2, 2,
                2, 4, 4, 2, 2, 2, 2, 2, 2, 2, 2, 2, 2, 2, 2, 2, 4, 2, 2, 2,
                2, 4, 2, 2, 2, 4, 6, 2, 4, 4, 2, 2, 2, 2, 6, 4, 4, 2, 2, 2,
                2, 4, 2, 2, 2, 2, 2, 4, 4, 2, 2, 2, 2, 2, 2, 2, 2, 2, 4, 4,
                2, 2, 2, 2, 4, 4, 2, 2 >>])
    @@ (413 :> [u |-> << 656, 385, 77, 585, 485, 757, 648, 951, 358, 50, 326, 421,
                582, 581, 605, 846, 41, 753, 769, 45, 492, 653, 214, 279,
                698, 228, 214, 811, 566, 979, 793, 464, 461, 589, 793, 120,
                312, 86, 830, 458, 946, 7, 113, 525, 443, 85, 98, 732, 688,
                270, 806, 180, 28, 817, 532, 622, 451, 488, 47, 805, 968,
                860, 147, 235, 334, 284, 738, 449, 396, 665, 309, 718, 495,
                556, 872, 620, 597, 761, 463, 844, 72, 56, 681, 602 >>,
            z |-> << -11494, -7056, 1541, -4329, 16259, 7213, 4306, -1415, -4643,
                -1386, -8067, 17711, 16975, 18136, 10870, 8004, 21716, 8004,
                21716, -100, 21716, -11621, -7004, 9646, -10151, -7052,
                6039, 2806, 3567, -22315, -1725, -22315, 23434, 13347,
                -3206, -3619, -5638, 6574, -1593, 6574, 671, -26307, 671,
                -26307, -8383, 9014, 2752, 9014, -11137, 8269, -5036, 1364,
                22669, 1364, 22669, -8557, -7208, -6280, -4249, -7286,
                -4249, -7286, -4249, -7286, -12396, 9863, -3505, -21770,
                16435, -12491, 11137, -380, 29438, 10517, 3038, 13640,
                14313, -2189, 12043, 1556, 9219, 1556, 9219, 8162 >>,
            zc |-> << 15676, -1922, -7570, 26084, -901, 12500, 1417, 4510, -1462,
                -3592, -17930, -16681, 17154, 14118, 3305, 7516, -1044,
                7516, -1044, -6170, -1044, 6246, -9034, -10727, 7418, -6706,
                -5551, 13152, 494, -20104, 14413, -20104, -10169, 4076,
                2483, -7331, -2550, -615, 12626, -615, -10104, 11846,
                -10104, 11846, -1152, 11109, -4743, 11109, 9164, -6193,
                4832, 13330, 6031, 13330, 6031, 21477, -29469, -165, -5672,
                -11651, -5672, -11651, -5672, -11651, -9513, -8893, 16562,
                -10617, -10302, 10851, -9718, 18207, -2381, 1589, 9413,
                16821, 5339, 15838, -1262, -3807, 16282, -3807, 16282, 2064 >>,
            k |-> << 2, 2, 2, 2, 2, 2, 2, 2, 2, 2, 2, 2, 2, 2, 2, 4, 6, 2, 4, 2,
                2, 2, 2, 2, 2, 2, 2, 2, 2, 4, 2, 2, 2, 2, 2, 2, 2, 4, 2, 2,
                4, 4, 2, 2, 2, 4, 2, 2, 2, 2, 2, 4, 4, 2, 2, 2, 2, 2, 6, 6,
                4, 4, 2, 2, 2, 2, 2, 2, 2, 2, 2, 2, 2, 2, 2, 2, 2, 2, 2, 4,
                4, 2, 2, 2 >>])
    @@ (415 :> [u |-> << 62, 818, 121, 171, 128, 287, 850, 681, 570, 217, 966, 323,
                218, 808, 964, 200, 286, 869, 714, 854, 139, 3, 594, 862,
                670, 543, 826, 945, 14, 136, 770, 580, 25, 366, 139, 750,
                804, 274, 741, 29, 514, 664, 273, 853, 957, 227, 386, 415,
                537, 486, 111, 693, 217, 719, 289, 509, 685, 975, 712, 376,
                564, 422, 519, 843, 307, 394, 740, 182, 226, 630, 460, 472,
                654, 254, 230, 174, 307, 224, 372, 366, 297, 652, 302, 638,
                999, 550, 50, 189, 366, 367, 939, 135, 725, 202, 63, 525,
                771, 121, 277, 40, 17, 3, 689, 919, 480, 483, 97, 843, 802,
                427, 821, 632, 81, 461, 498, 57, 168, 223, 453, 507, 190,
                782, 342, 384, 648, 182, 647, 269, 207, 870, 169, 772, 705,
                544, 973, 525, 813, 300, 367, 424, 794, 315, 263, 683, 965,
                311, 970, 802, 771, 363, 134, 284, 204, 896, 505, 619, 482,
                350, 756, 854, 706, 917, 240, 728, 847, 398, 495, 328, 226,
                865, 992, 713, 301, 19, 848, 585, 433, 294 >>,
            z |-> << -3916, -1569, -3916, -1307, -3916, 7616, 4472, 7067, -14282,
                -10836, -375, -10836, 6279, -6433, 6906, -6433, 6906, 3988,
                7443, 3990, 10379, 3990, 10379, 3990, 5022, 12822, 4294,
                3748, 4294, 3748, 4294, -3844, -638, -9605, 4118, 7536,
                -6273, 9424, 20985, 153, 20985, -12345, 7066, -5602, -13364,
                -5602, -13364, 10621, -10584, -10005, 3340, -10134, 7099,
                -9769, 858, 19884, -8452, 10440, -8452, 10440, -19444, 6549,
                12202, -4772, -8714, 14727, -7625, -5493, 6094, -6532,
                -17576, 21204, -12494, -8313, -6324, -5387, -10308, -5927,
                -14424, -14201, 9896, -13182, 9786, -6299, -13929, -6299,
                -13929, -4932, -13929, 5635, -8598, 4138, -8598, 15515, 433,
                15515, -4327, -3648, 5245, -396, 5245, -396, 5245, -396,
                -21889, -9300, -3228, 3917, -3228, 12582, 4586, -6863, -753,
                -1418, -6969, -2529, -4919, -2529, 4851, -13861, 5687,
                -6438, -11480, 15615, -10778, 5021, -13067, -8513, 3771,
                -1045, 4981, 7429, 3893, 4417, 245, 13565, -5842, -9511,
                -10755, 13666, -6392, -11287, 8767, 6095, -6362, 6095,
                -6362, 6095, -6362, -9317, -4113, -9023, 1626, 125, 23896,
                -3478, -21779, 12498, 5938, 4481, 4748, -1340, 8022, 7178,
                -3197, -1110, -20693, -11209, 4805, -10015, 2757, -10015,
                2757, -15144, 2757, -15144, -17444, -4112 >>,
            zc |-> << -6837, 1323, -6837, -1157, -6837, -4625, 8648, 18102, 3582,
                -6808, 990, -6808, -5719, -9031, -3989, -9031, -3989, 6876,
                4503, 8510, 2699, 8510, 2699, 8510, 19835, 1693, 14492,
                -5029, 14492, -5029, 14492, 650, -2261, -3567, -5930, 6199,
                8481, -8779, 1890, -4884, 1890, 8959, -4527, -13389, -18037,
                -13389, -18037, -23707, 29950, -344, -6699, 6958, -9145,
                10191, -18585, 1041, 14552, -20041, 14552, -20041, 16231,
                -26313, 682, 8531, -15942, -6445, 5771, -6364, -12753,
                21828, -25104, -3764, 7860, -7574, -5236, -9084, -7213,
                -12808, -13800, -9334, -13150, 10181, -13981, 713, -14047,
                713, -14047, -11486, -14047, -1699, 6520, -6674, 6520, 1476,
                -7326, 1476, 3099, -6224, 2373, 8354, 2373, 8354, 2373,
                8354, -26594, -378, 13393, 4453, 13393, -2852, 11142, 2169,
                -8285, -32061, -26, -14979, -5882, -14979, -30321, 335,
                -6232, 11548, -15641, -12118, 5044, -10815, 8348, -6730,
                -2973, 1171, -6042, 9849, 18192, 410, 4556, 1103, 9201,
                -14300, -18972, -3482, 10232, -8776, -11323, 6789, 12598,
                6789, 12598, 6789, 12598, -3491, -6968, -6588, -1211, 9607,
                1030, 23581, -2573, -7282, 4291, 7692, 2346, 2157, -9108,
                4728, 10922, -25214, -541, -7008, -3598, 10773, 11186,
                10773, 11186, 19523, 11186, 19523, -5665, -1970 >>,
            k |-> << 6, 2, 4, 2, 2, 2, 2, 2, 2, 4, 2, 2, 2, 4, 4, 2, 2, 2, 2, 6,
                4, 4, 2, 2, 2, 2, 6, 4, 4, 2, 2, 2, 2, 2, 2, 2, 2, 2, 4, 2,
                2, 2, 2, 4, 4, 2, 2, 2, 2, 2, 2, 2, 2, 2, 2, 2, 4, 4, 2, 2,
                2, 2, 2, 2, 2, 2, 2, 2, 2, 2, 2, 2, 2, 2, 2, 2, 2, 2, 2, 2,
                2, 2, 2, 4, 6, 2, 4, 2, 2, 2, 4, 2, 2, 4, 2, 2, 2, 2, 6, 6,
                4, 4, 2, 2, 2, 2, 4, 2, 2, 2, 2, 2, 2, 2, 2, 4, 2, 2, 2, 2,
                2, 2, 2, 2, 2, 2, 2, 2, 2, 2, 2, 2, 2, 2, 2, 2, 2, 2, 2, 2,
                2, 2, 2, 6, 6, 4, 4, 2, 2, 2, 2, 2, 2, 2, 2, 2, 2, 2, 2, 2,
                2, 2, 2, 2, 2, 2, 2, 2, 2, 4, 6, 2, 4, 4, 2, 2, 2, 2 >>])
    @@ (423 :> [u |-> << 337, 521, 928, 526, 936, 953, 630, 416, 237, 590, 336, 815,
                836, 14, 583, 488, 982, 421, 124, 599, 398, 570, 706, 402,
                813, 22, 590, 611, 518, 47, 447, 745, 759, 997, 531, 59,
                558, 857, 801, 7, 418, 766, 822, 746, 352, 886, 418, 841,
                207, 601, 924, 706, 477, 275, 233, 199, 582, 46, 742, 646,
                970, 343, 418, 642, 920, 568, 414, 909, 980, 745, 963, 23,
                432, 203, 618, 339, 732, 671 >>,
            z |-> << 2801, 7785, 479, 7322, -11634, 1329, -11634, -14716, 4966,
                -17386, 10379, 4178, -3674, 403, -3674, 3727, -477, -10074,
                2585, -15978, 13463, 17242, -7572, 12398, 17353, 634, 17353,
                4002, -6285, -697, 16239, 8420, -7035, 62, -7035, 904,
                11207, 3322, 14612, -120, 14612, 6511, 5553, -7662, 8123,
                -2003, 11580, -4258, 4543, 7166, 2098, -2042, -17766, -9198,
                -6983, 3639, -5625, 2281, 7825, 2281, -576, -9467, 18289,
                6531, 1283, -19240, 8260, -556, -13748, -556, -13748, -556,
                -13748, 4965, -15445, 12451, 8806, 2196 >>,
            zc |-> << -20911, 396, 7764, 444, 18279, 4622, 18279, -4648, -14503,
                9551, -5398, 3917, 26437, -2345, 26437, -90, 2916, -2119,
                -9709, 15699, -19420, 5895, 16014, -3861, 14036, -3342,
                14036, 24028, 259, -6066, -3438, 7975, 506, 974, 506, -6817,
                1831, 3933, -4485, -723, -4485, 5384, 7272, 12781, -3100,
                9489, -2772, 4970, -13091, 1712, 4325, 18658, -1786, -7728,
                -6195, -13246, 1025, 712, 12896, 712, 1733, -18074, -10535,
                2209, 7896, 15443, -1716, -3898, -3151, -3898, -3151, -3898,
                -3151, -12451, 11389, -8595, 11929, 2034 >>,
            k |-> << 2, 2, 2, 2, 4, 2, 2, 2, 2, 2, 2, 2, 4, 2, 2, 2, 2, 2, 2, 2,
                2, 2, 2, 2, 4, 2, 2, 2, 2, 2, 2, 2, 4, 2, 2, 2, 2, 2, 4, 2,
                2, 2, 2, 2, 2, 2, 2, 2, 2, 2, 2, 2, 2, 2, 2, 2, 2, 4, 2, 2,
                2, 2, 2, 2, 2, 2, 2, 6, 6, 4, 4, 2, 2, 2, 2, 2, 2, 6 >>])
    @@ (424 :> [u |-> << 816, 465, 258, 517, 741, 424, 130, 540, 866, 986, 388, 416,
                976, 760, 112, 490, 550, 183, 107, 442, 378, 175, 892, 667,
                306, 59, 393, 343, 305, 123, 17, 971, 757, 705, 676, 971,
                453, 292, 928, 978, 439, 439, 98, 680, 491, 350, 656, 344,
                225, 135, 314, 695, 640, 765, 826, 307, 456, 411, 387, 314,
                384, 858, 359, 75, 755, 672, 894, 993, 513, 102, 817, 979,
                481, 69, 485, 252, 533, 259, 400, 802, 160, 214, 32, 233,
                530, 747, 965, 304, 838, 268, 216, 412, 613, 858, 29, 728,
                767, 151, 400, 433, 94, 111, 277, 666, 788, 281, 547, 790,
                833, 145, 924, 604, 691, 159, 676, 491, 865, 786, 51, 513,
                943, 399, 135, 251, 811, 395, 235, 758, 973, 280, 983, 180,
                548, 552, 897, 648, 860, 388, 211, 658, 296, 973, 646, 764,
                86, 913, 245, 897, 619, 463, 797, 735, 817, 490, 60, 233,
                758, 437, 970, 260, 118, 726, 900, 541, 178, 163, 945, 384,
                69, 64, 718, 846, 114, 59, 44, 427, 887, 698, 275, 996 >>,
            z |-> << -1472, -16761, 1247, 16980, -4905, -10418, 1199, 10951,
                -13564, -173, -13564, 3606, -253, -4368, -253, 29567,
                -13169, -20708, -1400, -20708, -11343, -12359, 3139, -12359,
                -3584, -1475, -16302, -12976, -7231, 10175, 8079, 10175,
                8079, 10175, -18035, -456, -18035, 4006, -18765, -476,
                -18765, -9017, 2919, -938, -21950, 13258, -12757, -11802,
                -4825, -4073, 11426, 9990, 12648, 6467, -5358, -4278,
                -22829, -17582, -15645, -9623, 10122, -3735, -6337, 996,
                7796, 7086, -9585, 60, -9585, -157, -7734, -157, -7734,
                -258, -16726, 2268, -16832, -6188, 12739, -4596, -4472,
                1814, 16546, 1814, 16546, 8601, -5029, 8601, -5029, -8668,
                -4253, 17756, 10178, 9023, -5705, 9023, -5705, -3119,
                -13211, -8725, 9163, -3289, 9163, 11049, -6866, 3816, 14381,
                5310, -2435, 15996, 1758, 15996, -8657, 4730, -941, 11183,
                3344, 6917, 198, 6917, -1359, -10222, -4005, 7461, -4124,
                -13969, 7661, 1989, 20415, 1989, 20415, 1989, 20415, 9320,
                2838, 9231, -3137, -12927, 6213, -12841, 12389, 545, 12389,
                -2272, 4021, -1787, 4021, 2484, -6895, 14220, 6539, 7785,
                -404, -7192, -3741, 7585, -3741, 4479, 3532, -5490, 3532,
                5051, 967, -13040, -3870, -6566, -1447, -6566, 7552, 1426,
                7552, 9603, -897, 9603, -897, 9603, 3408, -10699, -12010,
                12864 >>,
            zc |-> << 13366, -2415, -16978, 1248, 15761, -2121, -10830, 1221,
                -18088, 757, -18088, -633, -10092, 2932, -10092, -5638,
                2123, -9783, -9538, -9783, -4261, 10693, 7334, 10693, -1579,
                -6105, -11072, -10425, -3749, 11885, 10083, 11885, 10083,
                11885, -4067, 4599, -4067, -1942, -18868, 3776, -18868,
                -1348, -6508, 20171, -1234, -12642, 12839, -6670, -3642,
                -8013, -10844, 13916, 6681, 5256, 9077, -18798, -11313,
                -13863, -9444, -15418, -3273, 9509, -2102, -1657, 11527,
                3101, 325, 2186, 325, 4090, -331, 4090, -331, -7746, -968,
                -16507, 2380, -14931, -4189, 4107, -5312, -15678, 2060,
                -15678, 2060, -4963, 7361, -4963, 7361, -7078, -13830,
                -13591, 3231, 7708, 4373, 7708, 4373, -10892, -19924, -1423,
                -12281, -5740, -12281, 6367, 9055, -17517, 2362, 4625, 2289,
                8736, 7140, 8736, 4858, -9130, 20371, -249, 4264, 211,
                -6575, 211, 6025, -2809, -5869, -5958, 12311, -5495, -7852,
                -13076, 19055, -13076, 19055, -13076, 19055, 1220, 7581,
                3814, 10161, -4975, -11325, 10022, 6861, 1760, 6861, 1456,
                -2573, 2905, -2573, 8236, 22479, -1762, 8237, 5788, 13482,
                -156, 15419, -7812, 15419, -597, -5958, -3440, -5958, 2855,
                9274, 1690, -3706, -1767, 5568, -1767, 4770, -2841, 4770,
                -1809, -5605, -1809, -5605, -1809, 6628, 9492, -13317,
                -13867 >>,
            k |-> << 2, 2, 2, 2, 2, 2, 2, 2, 4, 2, 2, 2, 4, 2, 2, 2, 2, 4, 2, 2,
                2, 4, 2, 2, 2, 2, 2, 2, 2, 6, 4, 4, 2, 2, 4, 2, 2, 2, 4, 2,
                2, 2, 2, 2, 2, 2, 2, 2, 2, 2, 2, 2, 2, 2, 2, 2, 2, 2, 2, 2,
                2, 2, 2, 2, 2, 2, 4, 2, 2, 4, 4, 2, 2, 2, 2, 2, 2, 2, 2, 2,
                2, 4, 4, 2, 2, 4, 4, 2, 2, 2, 2, 2, 2, 4, 4, 2, 2, 2, 2, 2,
                4, 2, 2, 2, 2, 2, 2, 2, 2, 4, 2, 2, 2, 2, 2, 2, 2, 4, 2, 2,
                2, 2, 2, 2, 2, 2, 2, 6, 6, 4, 4, 2, 2, 2, 2, 2, 2, 2, 2, 2,
                4, 2, 2, 2, 4, 2, 2, 2, 2, 2, 2, 2, 2, 2, 4, 2, 2, 2, 4, 2,
                2, 2, 2, 2, 2, 4, 2, 2, 4, 2, 2, 6, 4, 4, 2, 2, 2, 2, 4, 4 >>])
    @@ (432 :> [u |-> << 903, 896, 589, 987, 851, 208, 766, 32, 296, 570, 834, 160,
                348, 30, 986, 501, 437, 652, 470, 948, 587, 20, 817, 977,
                177, 849, 906, 699, 717, 576, 398, 246, 523, 471, 20, 634,
                927, 888, 703, 204, 836, 774, 919, 569, 779, 185, 868, 660,
                276, 231, 651, 268, 38, 892, 360, 31, 496, 160, 90, 565,
                462, 898, 357, 750, 380, 544, 696, 912, 128, 309, 927, 896,
                304, 928, 535, 692, 326, 760 >>,
            z |-> << 1869, 2020, 1869, 6564, -3848, 6564, 6009, 12063, 6009,
                12063, -3120, -4445, -2261, -28863, 10, -28863, 19509,
                -4035, 6518, 1153, -3114, 10698, 3264, 10698, 3264, 10698,
                2769, 10698, 5877, -18625, -14441, 1532, -24800, -3976, 321,
                6284, -9461, 3348, -9461, 4967, 4747, 14423, 1311, 14423,
                -6223, 2706, 3723, -12544, -9193, 6817, -12870, -2874,
                -2830, -2874, -2830, -34, -12425, -13842, 1352, -13842,
                9384, -2746, 12903, -6592, 8228, 18579, 5402, 4711, -3879,
                4711, 4468, -3106, 4468, 650, 19026, -10847, 11382, -7470 >>,
            zc |-> << 345, 8895, 345, -7169, 4646, -7169, -17359, 2536, -17359,
                2536, 3078, -9948, -731, 685, 3327, 685, -7947, 21239, -422,
                5886, 570, 9826, -3010, 9826, -3010, 9826, 5642, 9826,
                16587, 14170, -5758, -16343, 20588, -237, -1143, 1978, 6519,
                6384, 6519, -4369, 5823, 3573, 7946, 3573, 5537, -2304,
                8546, 9013, -7643, -12101, 8415, 8058, -845, 8058, -845,
                -5077, -115, 23786, -8522, 23786, -891, 7687, -7326, 13846,
                -21880, 4242, 2573, -2099, -7566, -2099, -2041, 6294, -2041,
                7760, 3542, 12027, -7598, 6766 >>,
            k |-> << 4, 2, 2, 4, 2, 2, 4, 4, 2, 2, 2, 2, 2, 4, 2, 2, 2, 2, 2, 2,
                2, 8, 4, 6, 2, 4, 2, 2, 2, 2, 2, 2, 2, 2, 2, 2, 4, 2, 2, 2,
                2, 4, 2, 2, 2, 2, 2, 2, 2, 2, 2, 4, 4, 2, 2, 2, 2, 4, 2, 2,
                2, 2, 2, 2, 2, 2, 2, 4, 2, 2, 4, 2, 2, 2, 2, 2, 2, 2 >>])
    @@ (433 :> [u |-> << 478, 78, 492, 134, 582, 115, 647, 239, 55, 423, 778, 818,
                120, 309, 777, 374, 469, 334, 476, 888, 617, 216, 848, 641,
                279, 535, 245, 768, 510, 819, 342, 750, 556, 40, 25, 962,
                653, 367, 371, 575, 468, 853, 667, 4, 689, 587, 654, 441, 8,
                485, 33, 157, 247, 645, 695, 743, 875, 473, 631, 824, 484,
                405, 51, 974, 186, 792, 787, 874, 316, 938, 419, 6, 213,
                155, 466, 591, 854, 458 >>,
            z |-> << -8212, -150, -11193, 2370, -9601, 3171, -12441, 14280,
                -1083, 14280, 6135, -1451, -3627, 10384, -5785, -5480,
                -20538, -2972, 9976, 2640, -12892, 5055, 4018, -13506, 2846,
                -16150, 7960, 601, 13391, -5172, 12253, 3618, -5538, 996,
                -12433, 996, -12433, -13865, 11175, -10338, 11674, 4249,
                7809, 17738, 7809, 17738, -7396, -1961, -75, -5281, 7350,
                -4774, 7350, 13589, 10700, 5613, -760, 22461, 11069, -616,
                -25424, -5814, 5375, 6258, 5375, 6258, 3781, -3734, 4169,
                -1221, -433, -1158, -5107, -1158, 24065, 10815, -1342,
                -13812 >>,
            zc |-> << -425, -8251, -235, -10480, 2066, -8233, 7059, -3906, -6316,
                -3906, 5367, 1219, -7244, -7100, 12824, -22626, -3771,
                -20730, -608, 8726, 5343, -4116, 9868, 8688, -17718, 2247,
                -7562, 15765, 429, 10446, -7741, 15940, 685, 3003, 14350,
                3003, 14350, -14338, -18938, 24807, -1045, 8966, 16999,
                9971, 16999, 9971, 19695, -232, -2549, -165, -12727, -6478,
                -12727, 10123, 8607, 3638, 10643, -4569, 4499, 13135, -4107,
                -1220, -5760, 6361, -5760, 6361, 2898, 7631, -1745, 6684,
                -70, -12072, -4240, -12072, -8685, 2794, 11542, -27626 >>,
            k |-> << 2, 2, 2, 2, 2, 2, 2, 4, 2, 2, 2, 2, 2, 2, 2, 2, 2, 2, 2, 2,
                2, 2, 2, 2, 2, 2, 2, 2, 2, 2, 2, 2, 2, 4, 4, 2, 2, 2, 2, 2,
                2, 2, 4, 4, 2, 2, 2, 2, 2, 2, 4, 2, 2, 2, 2, 2, 2, 2, 2, 2,
                2, 2, 4, 4, 2, 2, 2, 2, 2, 2, 2, 4, 2, 2, 2, 2, 2, 2 >>])
    @@ (436 :> [u |-> << 237, 747, 328, 110, 393, 537, 642, 245, 623, 322, 919, 229,
                975, 302, 531, 155, 977, 666, 493, 56, 155, 906, 424, 158,
                858, 930, 278, 243, 333, 201, 642, 486, 376, 716, 323, 927,
                624, 21, 334, 16, 440, 255, 720, 798, 130, 443, 831, 275,
                99, 828, 609, 977, 624, 221, 61, 870, 313, 485, 159, 536,
                818, 846, 600, 174, 852, 981, 180, 723, 405, 146, 923, 705,
                12, 678, 277, 194, 809, 865, 387, 135, 627, 434, 398, 492,
                341, 97 >>,
            z |-> << 7821, -8107, -7373, -2444, 8152, 21375, -12808, 6594,
                -14999, 5621, -513, 3058, -12108, 3058, -12108, -864, -6907,
                -864, -6907, -1589, -11696, -1589, -11696, 1533, -9443,
                -1666, -9443, -7655, -10762, 5544, -2093, -23475, 14503,
                -9643, 5171, 1908, -2086, -391, -16123, -391, -16123, 8679,
                8783, -3506, -1640, 12422, -5294, -5067, 2735, 3831, 2735,
                565, -12866, -3897, -1583, -3897, -1583, -12379, 1299,
                13240, 3618, 3188, -11855, 3003, 5729, -6650, 5729, -6650,
                -10805, -11704, 2161, -11704, -8547, -11704, -8547, 5328,
                3171, -3051, -9933, 3353, -10256, -19999, -1758, -21422,
                -7074, 2753 >>,
            zc |-> << -8306, 11712, -3248, -8944, -23005, 5654, 7158, -13552,
                10468, -2381, 797, -18909, 1123, -18909, 1123, 20964, -107,
                20964, -107, 8559, -2590, 8559, -2590, -1460, -8168, 3234,
                -8168, -11763, -6006, -11580, 22239, -2562, -8255, 11808,
                -2142, 6569, 541, -3179, -3932, -3179, -3932, -9615, 6470,
                2838, -10666, -2130, 7807, -2839, 626, 11503, 626, 2175,
                5739, 7748, -19784, 7748, -19784, -542, -12247, 1499, 3330,
                10980, 3667, -2768, -8184, 15646, -8184, 15646, -2906, 9358,
                4452, 9358, -6236, 9358, -6236, -5259, 2683, 9887, -3074,
                -9599, 19868, -12985, -25197, -956, -2779, -4899 >>,
            k |-> << 2, 2, 2, 2, 2, 2, 2, 2, 2, 2, 2, 4, 4, 2, 2, 4, 4, 2, 2, 4,
                4, 2, 2, 2, 4, 2, 2, 2, 2, 2, 2, 2, 2, 2, 2, 2, 2, 4, 4, 2,
                2, 2, 2, 2, 2, 2, 2, 2, 4, 2, 2, 2, 2, 4, 4, 2, 2, 2, 2, 2,
                2, 2, 2, 2, 4, 4, 2, 2, 2, 6, 2, 4, 4, 2, 2, 2, 2, 2, 2, 2,
                2, 2, 2, 2, 2, 2 >>])
    @@ (454 :> [u |-> << 668, 732, 929, 759, 772, 322, 704, 820, 31, 53, 808, 684,
                649, 377, 360, 957, 162, 960, 436, 972, 266, 692, 649, 900,
                425, 514, 60, 930, 509, 877, 842, 612, 468, 723, 721, 728,
                30, 679, 298, 472, 254, 188, 628, 125, 256, 768, 651, 721,
                461, 699, 346, 491, 40, 443, 408, 762, 990, 213, 454, 591,
                601, 921, 798, 200, 471, 507, 988, 501, 431, 62, 228, 680,
                94, 685, 772, 556, 735, 157, 53, 429 >>,
            z |-> << 12050, 2693, -7154, 7724, -7154, 11836, 8816, 10881, 5905,
                10881, 5905, 10881, -12361, -14954, 4007, -735, 4313, -735,
                4313, 10383, 9024, 10383, 7397, -1649, 5340, -7176, 10598,
                161, 10598, -6474, 3549, -6474, 17646, 9560, 9632, -11723,
                -2547, -11723, -2547, -16702, -7568, 4801, -9112, -3647,
                8411, 6852, 13009, -3053, 18633, -10084, -1150, -5772, -672,
                -21104, 14459, -2315, 22547, -2315, 22547, 16913, 7314,
                -1352, -5816, -1352, 8336, 3055, 7, -28245, -6862, -6288,
                7246, -6288, 2800, 10687, 3099, 16575, -7078, 9000, -984,
                9000 >>,
            zc |-> << 8739, 1459, 10995, 7351, 10995, -10257, 5627, 13412, 9879,
                13412, 9879, 13412, 15085, -13173, -1216, 5308, -583, 5308,
                -583, 13376, -10919, 13376, 2763, 8888, -26947, 241, 253,
                7705, 253, 23266, 10858, 23266, -2458, 9647, 9345, 10465,
                -18816, 10465, -18816, -1854, -5959, -11603, 3133, -5618,
                -7630, 12103, 8936, 17640, -3571, 13152, -21714, -102,
                -5472, -12956, -5069, -14556, -11227, -14556, -11227, 15232,
                1764, -14195, 5791, -14195, -32610, 46, 3062, 469, -1065,
                2791, -10906, 2791, -6133, 7281, 15018, 3954, 4858, -1587,
                -6244, -1587 >>,
            k |-> << 2, 2, 4, 2, 2, 2, 2, 6, 4, 4, 2, 2, 2, 2, 2, 4, 4, 2, 2, 4,
                2, 2, 2, 2, 2, 2, 4, 2, 2, 4, 2, 2, 2, 2, 2, 4, 4, 2, 2, 2,
                2, 2, 2, 2, 2, 2, 2, 2, 2, 2, 2, 2, 2, 2, 2, 4, 4, 2, 2, 2,
                2, 4, 2, 2, 2, 2, 2, 2, 2, 4, 2, 2, 2, 2, 2, 2, 2, 4, 2, 2 >>])
    @@ (470 :> [u |-> << 20, 619, 475, 677, 537, 495, 696, 262, 214, 175, 743, 472,
                682, 978, 753, 415, 358, 370, 821, 4, 249, 35, 665, 265, 66,
                281, 103, 426, 809, 24, 296, 818, 574, 786, 181, 716, 166,
                616, 339, 567, 92, 25, 158, 491, 814, 75, 610, 581, 135,
                783, 57, 342, 494, 449, 955, 336, 763, 310, 820, 820, 360,
                40, 656, 496, 692, 956, 45, 382, 655, 31, 267, 45, 804, 490,
                106, 809, 763, 735, 390, 607, 7, 377, 925, 309 >>,
            z |-> << 507, -4704, 20094, 4142, -3634, 19324, -10716, -8374, -5755,
                5504, -1912, 19743, -5031, -18068, -5031, -18068, -13199,
                11236, -12172, 807, -12172, 807, -12172, -2010, -1522,
                -5508, -1683, 13098, 8908, 2967, 8908, 2967, 14004, -5826,
                5732, -8023, 3888, -15561, 7931, -8607, -315, 13606, -315,
                13606, 13551, 1809, 13551, -10544, 3471, -729, -1676, -729,
                -30035, 5889, -1231, 11723, -7676, 9325, 4430, -4787, -3888,
                1125, -496, 19517, 1717, 15510, -1249, 15510, -2046, -9804,
                -438, -9804, -438, -9804, 7861, 5905, 7861, -6835, 15247,
                6712, -2163, 6712, -2163, -8023 >>,
            zc |-> << -2029, 23265, -2748, 19729, 31994, -416, 8848, -6987, -5064,
                -7329, 16786, -3001, 15024, -10820, 15024, -10820, -14480,
                -4505, 8567, -2266, 8567, -2266, 8567, -1088, -3021, -3034,
                -9110, -3104, -5704, 12696, -5704, 12696, 3633, 5240, -8435,
                5213, -11127, 11308, -18965, 1415, -12352, -377, -12352,
                -377, 18284, -6986, 18284, 2360, -4464, -21472, -4707,
                -21472, -3159, -658, 3415, -7293, 10653, -5522, 4438, 10983,
                -1182, -3292, 21525, -366, 725, -11654, -4846, -11654, 681,
                -236, 14092, -236, 14092, -236, 8801, 6940, 8801, 14692,
                -15489, -1925, 4829, -1925, 4829, -4254 >>,
            k |-> << 2, 2, 2, 2, 2, 2, 2, 2, 2, 2, 2, 2, 4, 4, 2, 2, 2, 2, 6, 4,
                4, 2, 2, 2, 2, 2, 2, 2, 4, 4, 2, 2, 2, 2, 2, 2, 2, 2, 2, 2,
                4, 4, 2, 2, 4, 2, 2, 2, 2, 4, 2, 2, 2, 2, 2, 2, 2, 2, 2, 2,
                2, 2, 2, 2, 2, 4, 2, 2, 2, 6, 4, 4, 2, 2, 4, 2, 2, 2, 2, 4,
                4, 2, 2, 2 >>])
    @@ (484 :> [u |-> << 523, 741, 418, 889, 877, 436, 653, 487, 283, 252, 587, 503,
                496, 843, 917, 400, 942, 679, 825, 936, 945, 656, 799, 201,
                381, 547, 101, 336, 624, 746, 473, 520, 434, 952, 517, 260,
                553, 426, 800, 582, 180, 200, 321, 756, 485, 156, 355, 514,
                643, 450, 472, 229, 975, 861, 578, 917, 872, 165, 445, 18,
                464, 447, 199, 896, 371, 5, 696, 268, 747, 540, 539, 79,
                473, 909, 171, 623, 883, 319, 751, 437, 907, 996, 919, 595,
                482, 878, 184, 897, 123, 39, 401, 745, 15, 627, 381, 587,
                188, 141, 927, 897, 791, 951, 234, 271, 527, 592, 170, 760,
                741, 165, 605, 315, 304, 148, 599, 32, 832, 432, 241, 187,
                43, 180, 238, 424, 805, 412, 521, 705, 854, 131, 45, 397,
                619, 833, 734, 268, 456, 189, 326, 904, 737, 330, 273, 551,
                129, 964, 586, 67, 534, 463, 538, 850, 371, 474, 826, 158,
                770, 202, 896, 918, 883, 497, 833, 956, 76, 454, 373, 979,
                623, 82, 102, 318, 992, 543, 651, 405, 5, 734 >>,
            z |-> << 16943, -5276, 9339, 19424, -1709, 19424, -1827, -18269,
                -9761, 5350, 997, -32737, 12266, 6071, -1819, 6071, 1607,
                9555, 1571, 11089, 1571, 11089, -5761, -4912, 8649, -9315,
                -2931, 11452, 13746, -1769, 20133, -26933, 5923, 237,
                -17080, 3656, -21184, 13435, 3645, -12462, -4971, -6158,
                11248, -932, -12220, -4193, 2208, 22207, -7149, -14448,
                -15513, 2325, 7920, 2325, 7920, -2012, -3562, -2012, -3562,
                -277, -23870, -13828, 1015, -2621, -10779, 9131, -10779,
                9131, 2673, 20598, -8190, -523, 8861, 8833, 4185, 8833,
                -3458, 11230, -3900, 8676, 1723, -4754, 1723, -4754, 10535,
                -1553, 14808, -1030, 14808, -1030, 14808, -14005, 13122,
                -14005, 13122, -12714, -3424, 1397, -7786, 1397, -7786,
                2117, -7786, 2117, 24595, -11865, 5183, 7969, -7119, 3574,
                -16060, -11447, -8131, 3039, -4140, -15302, -2488, -15302,
                -7034, -5525, -4297, -5525, -4297, 13240, -3709, 6357,
                18713, 7742, -1166, 16300, -1166, 16300, 11067, 5214, -9057,
                -3228, -13528, -5694, 6548, 2546, -8525, -12087, 3871,
                -10681, -6912, 875, -6912, 595, -22020, 21748, 11745, -3719,
                -4513, 12969, -3456, 4620, -6891, 1488, -76, 12724, -76,
                12724, -853, -21598, -853, -21598, 1660, 469, -7140, 20616,
                -3048, 20616, 193, 20616, -10738, -7288, 1000, -7288 >>,
            zc |-> << 1643, 15557, -1960, -7978, 10216, -7978, 21618, -1098,
                -8504, -15110, 26354, 27526, -141, -1370, 7599, -1370, 3970,
                5264, 4482, 5782, 4482, 5782, 5783, -12350, -21690, 1108,
                -7155, -14988, 6956, 16661, -26101, 8278, -860, 6297, 1216,
                -16469, 15241, -3302, 13237, 3228, -5313, -10317, -7829,
                16288, -522, -9998, -22151, 2228, 20649, -25704, -1597,
                10724, 1486, 10724, 1486, -12328, -404, -12328, -404, -3775,
                -15977, -2428, -770, 8104, 9160, -8532, 9160, -8532, 16410,
                21228, 761, -8265, -575, 2847, -11123, 2847, 7333, -8076,
                15734, -1327, 7580, 25168, 7580, 25168, -501, 1859, -5909,
                -4826, -5909, -4826, -5909, 15051, -17813, 15051, -17813,
                3561, -2973, 1904, -9046, 1904, -9046, -17491, -9046,
                -17491, 7384, 3317, -6566, 8600, 5126, -11350, 9164, -10805,
                -4521, -10764, 880, -4007, 12207, -4007, -5818, -6749,
                -14980, -6749, -14980, -3260, 12970, -25415, 1990, 4484,
                -5160, -13994, -5160, -13994, 3977, 7393, 9179, -17033,
                -1913, -10191, -2806, 4340, 11955, -9016, -17054, 1486,
                1384, 4687, 1384, -7479, 20873, -20654, 1282, 10144, -22697,
                -1015, 3308, -5819, 6269, -1118, 10289, -107, 10289, -107,
                -7986, -7734, -7986, -7734, -437, 1824, 2109, 5972, -6683,
                5972, 2158, 5972, 17195, 5055, -12447, 5055 >>,
            k |-> << 2, 2, 2, 4, 2, 2, 2, 2, 2, 2, 2, 2, 2, 4, 2, 2, 2, 2, 4, 4,
                2, 2, 2, 2, 2, 2, 2, 2, 2, 2, 2, 2, 2, 2, 2, 2, 2, 2, 2, 2,
                2, 2, 2, 2, 2, 2, 2, 2, 2, 2, 2, 4, 4, 2, 2, 4, 4, 2, 2, 2,
                2, 2, 2, 2, 4, 4, 2, 2, 2, 2, 2, 2, 2, 4, 2, 2, 2, 2, 2, 2,
                4, 4, 2, 2, 2, 2, 6, 4, 4, 2, 2, 4, 4, 2, 2, 2, 2, 4, 6, 2,
                4, 4, 2, 2, 2, 2, 2, 2, 2, 2, 2, 2, 2, 2, 2, 4, 2, 2, 2, 4,
                4, 2, 2, 2, 2, 2, 2, 2, 4, 4, 2, 2, 2, 2, 2, 2, 2, 2, 2, 2,
                2, 2, 2, 2, 4, 2, 2, 2, 2, 2, 2, 2, 2, 2, 2, 2, 2, 2, 4, 4,
                2, 2, 4, 4, 2, 2, 2, 2, 2, 6, 2, 4, 2, 2, 2, 4, 4, 2 >>])
    @@ (487 :> [u |-> << 353, 247, 772, 692, 515, 649, 868, 810, 983, 82, 249, 890,
                7, 585, 214, 59, 30, 702, 755, 451, 331, 904, 406, 990, 904,
                201, 689, 839, 954, 298, 750, 107, 710, 475, 97, 934, 253,
                50, 274, 376, 665, 347, 619, 905, 118, 685, 275, 810, 60,
                398, 40, 475, 641, 727, 137, 961, 631, 246, 84, 845, 385,
                971, 606, 988, 554, 967, 138, 658, 38, 938, 131, 106, 420,
                243, 674, 358, 114, 103, 783, 552, 353, 371, 815, 741, 298,
                315, 286, 946, 808, 595 >>,
            z |-> << -12715, 8011, 7335, 1538, 21844, 8898, 2480, -1685, 4631,
                -1685, 4631, -13812, 86, -13812, -3015, 10242, -3015, 10242,
                -3015, -19658, 6675, -1940, 728, 6329, 8742, 6329, 8742,
                10365, -646, 10365, -4499, 3225, -2130, -9284, -7844, -268,
                -7844, 15057, -7844, 15057, -12093, 12018, 7861, -11351,
                3555, -11351, 8346, -4824, -1443, -4824, -308, 22020, 13424,
                -6697, -13292, 1097, -13292, -2818, 3411, -3544, 3411, 823,
                4873, 283, 4873, -2931, 3910, -2931, -15084, -1854, -15084,
                -1854, -15084, 7789, -11289, -8310, 2694, 1840, 2694,
                -20339, -12786, 11469, 5831, -8731, -10475, -11454, 1902,
                -14489, 3898, -14489 >>,
            zc |-> << -7372, -7405, 10377, 19434, 2235, 3602, 2935, -2814, -2967,
                -2814, -2967, 4123, -496, 4123, 15889, 8127, 15889, 8127,
                15889, -5642, -2784, 8377, -139, -9940, 4884, -9940, 4884,
                -8312, 1460, -8312, 2878, -6006, 18405, -563, -14295, 474,
                -14295, -11248, -14295, -11248, 13164, -15359, 2307, 9341,
                -7320, 9341, -6047, -1064, -6259, -1064, -5765, -3818, 8343,
                4206, 6894, 3856, 6894, -1719, -832, 10671, -832, 3641, 571,
                2522, 571, 1006, -8912, 1006, -4678, -9189, -4678, -9189,
                -4678, -11444, 13883, -3052, 14593, -2575, 14593, 7251,
                -14584, -4679, 7619, 10436, -11474, -9910, -908, 5335,
                12635, 5335 >>,
            k |-> << 2, 2, 2, 2, 2, 2, 2, 4, 4, 2, 2, 4, 2, 2, 6, 4, 4, 2, 2, 2,
                2, 2, 2, 4, 4, 2, 2, 4, 2, 2, 2, 2, 2, 2, 6, 2, 4, 4, 2, 2,
                2, 2, 2, 4, 2, 2, 2, 4, 2, 2, 2, 2, 2, 2, 4, 2, 2, 2, 4, 2,
                2, 2, 4, 2, 2, 4, 2, 2, 6, 4, 4, 2, 2, 2, 2, 2, 4, 2, 2, 2,
                2, 2, 2, 2, 2, 2, 2, 4, 2, 2 >>])
    @@ (493 :> [u |-> << 924, 953, 664, 363, 937, 710, 737, 516, 974, 544, 974, 940,
                866, 420, 911, 328, 268, 470, 857, 28, 553, 212, 260, 382,
                454, 306, 316, 752, 268, 311, 47, 214, 726, 934, 178, 561,
                260, 248, 867, 289, 654, 541, 222, 26, 281, 105, 978, 570,
                955, 792, 782, 131, 825, 761, 83, 92, 946, 593, 727, 307,
                311, 900, 874, 97, 957, 172, 54, 742, 920, 132, 622, 43,
                878, 884, 531, 556, 464, 585, 564, 786, 645, 175, 282, 35,
                313, 43, 967, 345, 24, 100, 946, 719, 512, 973, 248, 397,
                889, 689, 13, 247, 924, 393, 455, 433, 727, 201, 714, 992,
                572, 76, 862, 268, 762, 343, 591, 287, 940, 946, 54, 55,
                891, 310, 85, 369, 237, 481, 861, 470, 136, 603, 395, 926,
                653, 286, 624, 560, 346, 738, 262, 952, 297, 471, 382, 420,
                4, 182, 678, 441, 137, 124, 4, 468, 45, 686, 433, 206, 437,
                272, 152, 479, 377, 647, 783, 835, 330, 915, 547, 455, 333,
                288, 506, 458, 614, 297, 368, 287, 877, 996, 595, 511, 975,
                640, 55, 737, 416, 403, 984, 17 >>,
            z |-> << -11770, 1288, -11770, 5658, 1505, 10099, 1163, 4564, 407,
                4405, -2265, 8229, -2265, 8229, -2596, -11924, -2238, 11472,
                -14413, 521, -14413, -6908, -6963, -8490, -18695, -10913,
                11088, -8295, -9090, -2596, 2481, 6975, 2481, -16258, 2426,
                -16258, -8740, 5633, -4051, 9552, 5492, -15047, -5628, 5612,
                -5628, 5612, 532, 5612, -4295, 6309, -4295, 1709, 5322,
                -2187, 1238, 15589, 1238, 15589, -9314, -10996, 6296, 2915,
                -4562, 2915, -4562, 2915, -4562, 2915, -4562, 3196, -4562,
                823, 25075, 823, 25075, -15109, 23963, 14967, 14211, 6004,
                -10661, -5536, -2213, 992, -2213, 992, -760, 992, 682, 992,
                682, 992, 4663, 9007, -5924, 9007, 3324, 1839, -1771, 1839,
                -1771, -9286, -22559, 16600, -8523, 6466, -7673, 171, -7673,
                8958, -4169, 8958, -7180, 10128, -16156, 2697, -3263, -5514,
                -3263, -5514, -3263, -5514, -2249, -13087, -1130, 11355,
                -936, -11212, 2900, -15721, 7003, 2118, -13030, 8449, 9864,
                -19612, 12661, -8881, -2656, -758, -2656, -23153, -12606,
                5520, -6108, 5520, -6108, -10989, -110, -6065, -110, -6065,
                998, -6481, -13897, -2992, -16685, -7202, -715, -23254,
                15040, 11861, 5478, -4805, 6084, 961, -19432, -19950,
                -12355, 549, -31125, 22339, -15219, -9272, -14171, 6598,
                3128, 4465, 3128, 4465, 519, -5060, -17661, -5513, -17661,
                2152, 5785, 1095 >>,
            zc |-> << 14203, 3553, 14203, -1764, 3131, 8926, 17171, 155, 4382,
                410, 10461, -1587, 10461, -1587, 6225, -8853, -17322, -958,
                2709, -4551, 2709, -8262, -14217, -21887, -4405, -11492,
                -8055, 9081, -11143, -1081, 1294, -8797, 1294, 4148, -12774,
                4148, -8342, -3849, 7073, -12971, 20607, 2241, -3126, 872,
                -3126, 872, 3591, 872, 3294, 6527, 3294, -1936, 6616, 1375,
                5908, 6425, 5908, 6425, 10977, -11212, -2970, 1682, 1219,
                1682, 1219, 1682, 1219, 1682, 1219, -9611, 1219, 10164,
                13771, 10164, 13771, 24002, -9977, 19778, 3211, 11853, 4776,
                -8252, -905, 18117, -905, 18117, 2297, 18117, 1387, 18117,
                1387, 18117, 118, -2377, -14478, -2377, 6841, -1095, 7067,
                -1095, 7067, -22380, -15032, -4840, 6487, -9021, 1317, 1163,
                1317, -7890, 6534, -7890, 12040, -17417, 6941, -1298, 6720,
                -2527, 6720, -2527, 6720, -2527, -7134, -6526, -16000, -581,
                11294, -925, -10196, 15608, -1708, 5896, 9345, -14500,
                20419, 7679, -8157, 8909, -18705, 1691, -18705, -5686,
                -18589, -9798, 18809, -9798, 18809, -1762, -1759, -414,
                -1759, -414, -2440, 18153, -3144, -13966, -4605, -4728,
                -12028, -3906, -12511, 6174, 4624, 9511, -2486, 8399, 20969,
                -5270, -9748, -18546, 4687, -8097, 8599, -14315, -8759,
                -3714, 25448, 111, 25448, 111, 1758, 1598, -15268, 15628,
                -15268, -430, 2783, 8867 >>,
            k |-> << 4, 2, 2, 2, 2, 2, 2, 2, 2, 2, 4, 4, 2, 2, 2, 2, 2, 2, 4, 2,
                2, 2, 2, 2, 2, 2, 2, 2, 2, 2, 4, 2, 2, 4, 2, 2, 2, 2, 2, 2,
                2, 2, 4, 6, 2, 4, 2, 2, 4, 2, 2, 2, 2, 2, 4, 4, 2, 2, 2, 2,
                2, 8, 10, 6, 8, 4, 6, 2, 4, 2, 2, 4, 4, 2, 2, 2, 2, 2, 2, 2,
                2, 2, 4, 10, 2, 8, 2, 6, 4, 4, 2, 2, 2, 4, 2, 2, 2, 4, 4, 2,
                2, 2, 2, 2, 2, 2, 4, 2, 2, 4, 2, 2, 2, 2, 2, 2, 6, 6, 4, 4,
                2, 2, 2, 2, 2, 2, 2, 2, 2, 2, 2, 2, 2, 2, 2, 2, 2, 2, 4, 2,
                2, 2, 2, 4, 4, 2, 2, 2, 4, 4, 2, 2, 2, 2, 2, 2, 2, 2, 2, 2,
                2, 2, 2, 2, 2, 2, 2, 2, 2, 2, 2, 2, 2, 2, 2, 2, 4, 4, 2, 2,
                2, 2, 4, 2, 2, 2, 4, 4 >>])
    @@ (495 :> [u |-> << 288, 981, 749, 518, 551, 654, 961, 507, 862, 754, 669, 746,
                605, 249, 148, 706, 560, 479, 258, 249, 660, 885, 698, 304,
                492, 259, 522, 169, 796, 52, 109, 890, 672, 750, 317, 230,
                412, 676, 308, 858, 825, 980, 145, 553, 314, 614, 752, 541,
                557, 496, 554, 434, 536, 767, 629, 9, 353, 88, 845, 434,
                730, 233, 167, 874, 475, 797, 31, 476, 928, 498, 311, 480,
                161, 528, 558, 629, 181, 271, 76, 804, 605, 27, 153, 879,
                503, 896, 860, 961, 660, 439, 671, 964, 232, 638, 564, 448,
                706, 161, 254, 79, 143, 870, 482, 271, 881, 914, 350, 229,
                789, 14, 595, 736, 509, 614, 339, 655, 854, 864, 508, 552,
                167, 1, 275, 30, 275, 755, 186, 495, 509, 682, 623, 881,
                982, 530, 490, 433, 123, 206, 763, 171, 214, 833, 957, 716,
                797, 346, 478, 66, 527, 83, 644, 255, 653, 470, 337, 481,
                917, 473, 261, 736, 148, 265, 823, 517, 615, 994, 341, 151,
                587, 163, 385, 684, 303, 956, 782, 212, 96, 425, 298, 983 >>,
            z |-> << 1248, 27961, 1248, 27961, 20121, 3170, 88, 11326, 3991,
                7772, 11795, 6217, -14375, -6255, 4590, 5143, -9366, -16976,
                -8685, 7760, 7863, 3471, -10740, -703, -17110, 1557, -12824,
                4625, 11599, 3210, 11599, 3210, 11599, -8152, -10837, -4668,
                17271, -11860, 8026, 2389, 1706, -18781, 1706, -18781, 9599,
                13996, 2643, 22732, -1964, 29666, -20436, 13246, 15581,
                6291, -6895, 16497, -6895, 16497, -2198, 16497, -8936,
                -6246, 14319, -698, 14319, 7799, -252, 7799, -19, -19737,
                -1984, -12435, 1057, 25584, 20482, -11338, -5738, -3462,
                -3492, 4329, -3492, 102, 9651, 102, 9651, 985, -7346, 985,
                -7346, 18943, 1861, 9226, 6541, 9226, -16724, 17910, -8201,
                -4955, -2782, -505, -17600, -505, -17600, 5842, -12144,
                -2409, -12144, 7061, 15197, 407, 15197, 672, 24154, -15684,
                12519, 9259, 29490, 268, 29490, -12426, 9316, -7137, 9316,
                -7137, 9316, -7137, -184, 36020, 20052, 10165, 8932, -9453,
                230, -9453, -28048, -10208, -2649, 6499, -6481, -4898, 5454,
                8966, -5791, 8966, -5791, -2991, -7524, 475, -8461, 2320,
                -12944, 7889, -4053, -20744, -2399, 8434, -533, -17008,
                8864, -6767, -4553, 7683, 702, 23885, -9414, 2813, -9414,
                2813, -11665, -3763, 15527, -11469, 1484, -1617, -6609,
                -1617, -1611, -17246, 4990, 3448 >>,
            zc |-> << 16604, 10239, 16604, 10239, 6670, 1061, 5688, 222, 5684,
                11658, 8116, 14495, 6070, -4464, -7813, 17648, 27151, -1460,
                -8350, -12138, 3274, 6738, 10897, -19362, -505, -17003, 855,
                -5154, 8006, 7255, 8006, 7255, 8006, 11163, -7356, -14332,
                -8571, 10942, -4292, 2628, -11400, 5388, -11400, 5388,
                -15510, 6357, 16172, 16291, 29331, -2090, 17000, -24162,
                2101, 13007, -2455, -4644, -2455, -4644, 11676, -4644, 7756,
                -4993, -1181, 10671, -1181, -429, -5010, -429, 7849, -109,
                -19586, -702, -12377, 12718, 9235, 4588, -8018, -1866, 779,
                12518, 779, 10523, 89, 10523, 89, 2840, 19348, 2840, 19348,
                -6709, 688, 19711, -12635, 19711, 20943, -4485, 5007, -6846,
                -1621, 10905, -1322, 10905, -1322, -3500, -6724, 6676,
                -6724, -6591, 6143, -2065, 6143, 17269, 1939, 11252, -12878,
                4063, 4857, 11212, 4857, 1977, -8185, 5826, -8185, 5826,
                -8185, 5826, -13672, -15644, 1068, 14995, 2891, 31767, 3609,
                31767, -3843, -1812, -3393, -7247, 5204, -5619, -4672, 6505,
                11262, 6505, 11262, -21461, -371, -7497, 558, -6679, 7678,
                -12578, 21208, -3747, -21035, -373, 8401, -1889, -8972,
                4545, -6832, -5568, 13169, 3579, -4290, -11159, -4290,
                -11159, 3044, -11066, -9635, 10740, -640, -1153, 6507,
                -1153, -8767, -6328, 4922, -3879 >>,
            k |-> << 4, 4, 2, 2, 2, 2, 2, 2, 2, 2, 2, 2, 2, 2, 2, 2, 2, 2, 2, 2,
                2, 2, 2, 2, 2, 2, 2, 2, 6, 4, 4, 2, 2, 2, 2, 2, 2, 2, 2, 2,
                4, 4, 2, 2, 2, 2, 2, 2, 2, 2, 2, 2, 2, 2, 4, 6, 2, 4, 2, 2,
                2, 2, 4, 2, 2, 4, 2, 2, 2, 2, 2, 2, 2, 2, 2, 2, 2, 2, 4, 2,
                2, 4, 4, 2, 2, 4, 4, 2, 2, 2, 2, 4, 2, 2, 2, 2, 2, 2, 2, 4,
                4, 2, 2, 2, 4, 2, 2, 2, 4, 2, 2, 2, 2, 2, 2, 2, 4, 2, 2, 2,
                6, 6, 4, 4, 2, 2, 2, 2, 2, 2, 2, 4, 2, 2, 2, 2, 2, 2, 2, 2,
                2, 4, 4, 2, 2, 2, 2, 2, 2, 2, 2, 2, 2, 2, 2, 2, 2, 2, 2, 2,
                2, 2, 2, 2, 4, 4, 2, 2, 2, 2, 2, 2, 2, 4, 2, 2, 2, 2, 6, 4 >>])
    @@ (499 :> [u |-> << 953, 645, 384, 784, 614, 142, 37, 734, 651, 736, 157, 509,
                25, 704, 983, 690, 503, 319, 384, 389, 499, 770, 887, 652,
                918, 411, 732, 634, 449, 110, 543, 873, 895, 89, 653, 945,
                85, 164, 454, 315, 930, 558, 129, 362, 75, 937, 622, 403,
                743, 686, 520, 975, 369, 741, 483, 841, 212, 355, 37, 307,
                954, 216, 831, 922, 718, 801, 98, 454, 929, 390, 820, 522,
                491, 257, 307, 760, 26, 270, 625, 301, 409, 834, 881, 653,
                358, 731 >>,
            z |-> << 1338, -12353, 12955, 5216, -10204, 8278, 12788, 8278, 12788,
                -7065, 338, -4582, -20159, 350, -20159, 350, -20159, -9911,
                -14730, -101, 15687, 3921, 3142, 6382, -1634, 15607, 7875,
                -7879, -9759, 1103, 10599, 2530, 4605, 2530, 4605, -1675,
                -19119, -1675, -19119, 4737, 1017, -10596, -3381, -6437,
                -13376, 1671, -13376, 14938, 8492, 2133, 4484, -646, 13634,
                -1180, 12299, -4317, -5943, -3344, 8796, 2106, 8796, 5641,
                8796, 2075, 8796, 7622, -1035, 7622, -1716, 11811, 931,
                -11886, -17015, -8630, 10573, 7724, -14699, 7724, -14699,
                -7553, 11683, -12677, 3296, -12677, 13327, 6765 >>,
            zc |-> << 4172, 15619, -5241, 12980, 3263, 12815, 8206, 12815, 8206,
                4878, -12304, 91, 377, 19662, 377, 19662, 377, -15480,
                -15447, -24575, -26, 2736, 7964, 2330, 7731, -5930, 13646,
                20903, -1270, -9823, 1240, -6780, 1585, -6780, 1585, -12395,
                -4698, -12395, -4698, -2029, 7452, 1680, -9096, -2089,
                16939, 5968, 16939, -5927, 11105, 19697, 190, 2353, -7374,
                17007, -602, 5126, -11863, -1042, 6363, -891, 6363, -4823,
                6363, 4012, 6363, -802, -9187, -802, 6741, -4025, 13259,
                32776, -574, -10828, -7821, -14123, 9316, -14123, 9316,
                -16605, -3143, 13725, 8197, 13725, -8154, 14996 >>,
            k |-> << 2, 2, 2, 2, 2, 4, 4, 2, 2, 2, 2, 2, 6, 4, 4, 2, 2, 2, 2, 2,
                2, 2, 2, 2, 2, 2, 2, 2, 2, 2, 2, 4, 4, 2, 2, 4, 4, 2, 2, 2,
                2, 2, 2, 2, 4, 2, 2, 2, 2, 2, 2, 2, 2, 2, 2, 2, 2, 2, 8, 2,
                6, 2, 4, 2, 2, 4, 2, 2, 2, 2, 2, 2, 2, 2, 2, 4, 4, 2, 2, 2,
                2, 4, 2, 2, 2, 2 >>])
    @@ (505 :> [u |-> << 850, 292, 223, 197, 377, 138, 10, 82, 959, 721, 64, 819,
                774, 575, 174, 573, 339, 463, 333, 899, 84, 214, 221, 337,
                459, 349, 946, 648, 757, 871, 117, 471, 789, 327, 453, 658,
                281, 892, 881, 815, 937, 569, 667, 702, 635, 968, 662, 193,
                966, 68, 514, 625, 503, 69, 982, 574, 792, 649, 663, 119,
                928, 484, 75, 817, 476, 366, 443, 786, 317, 42, 752, 111,
                328, 122, 798, 669, 188, 294, 455, 94, 348, 324 >>,
            z |-> << -4609, -9712, -6572, -4899, -9853, -2684, 3978, -2684, 3978,
                -2684, 3978, 5400, 3978, -12365, 2798, -18563, -4720,
                -20247, 7032, -6636, -6673, -6636, -6673, -5103, -20811,
                4596, 1552, 12497, 5246, 14638, -751, 14638, -6420, -5238,
                20209, -12707, 5713, 18612, 1222, 18612, 1094, 18612, 12369,
                9413, 3008, 587, -10678, 254, 23328, 254, 23328, 731, -7764,
                13771, 478, 13771, 5910, 13293, -7986, -8090, -277, -8090,
                -22530, -989, -22530, -8703, 14395, -6691, -2199, -3255,
                -4623, -3255, -7886, 2435, 6068, -10299, -5946, -3927,
                -8995, -2666, -13295, 11886 >>,
            zc |-> << 7790, -7276, -6020, -12127, -3329, 1368, 14472, 1368, 14472,
                1368, 14472, 6283, 14472, 2866, -12403, 8504, -20554, -4473,
                -2937, -6799, -11429, -6799, -11429, -20266, -5651, -1553,
                4662, 7227, 3632, -1415, -10260, -1415, 10778, -19599,
                -5878, 9240, -3172, 7728, 1479, 7728, 6886, 7728, 10197,
                14077, 871, 1694, 5654, -7641, 2676, -7641, 2676, 23521, 70,
                3508, 3094, 3508, 11530, 12170, 3440, -291, 7807, -291,
                -3952, 13422, -3952, -20504, -2841, 10474, -879, -7396,
                3001, -7396, -3573, -3085, 10689, 5589, -9027, -18205, -984,
                -7147, -11469, -11623 >>,
            k |-> << 2, 2, 2, 2, 2, 6, 8, 4, 6, 2, 4, 2, 2, 2, 2, 2, 2, 2, 2, 4,
                4, 2, 2, 2, 2, 2, 2, 2, 2, 4, 2, 2, 2, 2, 2, 2, 2, 6, 2, 4,
                2, 2, 2, 2, 2, 2, 2, 4, 4, 2, 2, 2, 2, 4, 2, 2, 2, 2, 2, 4,
                2, 2, 4, 2, 2, 2, 2, 2, 2, 4, 2, 2, 2, 2, 2, 2, 2, 2, 2, 2,
                2, 2 >>])
    @@ (506 :> [u |-> << 847, 6, 115, 62, 704, 451, 26, 683, 804, 10, 990, 986, 513,
                53, 556, 563, 160, 244, 7, 281, 482, 505, 538, 283, 270,
                495, 863, 467, 736, 625, 441, 470, 272, 376, 340, 951, 816,
                589, 971, 468, 837, 179, 19, 166, 580, 930, 637, 429, 147,
                590, 494, 48, 105, 57, 867, 639, 708, 951, 431, 312, 532,
                324, 675, 478, 681, 379, 372, 881, 605, 903, 646, 267, 589,
                442, 23, 159, 861, 288, 133, 542, 503, 149 >>,
            z |-> << -4313, 1572, -4313, 1572, -4313, -4427, -6713, 9980, -6713,
                92, -6713, 92, -6713, 821, 19795, -11966, -4855, -1426,
                11805, -1426, 11805, 31604, -17841, -9862, -372, 11283,
                -1003, 17030, 7398, -9623, -12730, -17498, -7747, -15035,
                3873, 4008, 3511, 4008, -315, 12441, -3699, 2870, 7177,
                2870, 7177, 1939, -9915, -11247, 2802, -1557, -6361, 13792,
                3481, 13792, 3481, 13792, 1251, -898, -18016, 3387, -19950,
                11837, -2491, 19929, -10076, -14905, 8871, 2591, 8239, 2668,
                -13085, 5987, -13504, -3993, -4243, 1195, -4243, -7068,
                1272, 2633, -11919, -4490 >>,
            zc |-> << 18128, -3371, 18128, -3371, 18128, -454, 206, 6022, 206,
                3261, 206, 3261, 206, -6434, 17770, 2237, -6441, -18109,
                -34441, -18109, -34441, 4860, 3157, -9308, -17637, -150,
                11169, -2351, 13969, 20524, -25495, -2254, -14235, -11666,
                -1369, 757, 12471, 757, 4762, -1149, 3886, -11933, 1339,
                -11933, 1339, 6087, 19303, -2243, -10893, 26062, -76, 9238,
                9160, 9238, 9160, 9238, 578, 5934, -6573, -19372, 3721,
                -11810, 20212, -2383, 15212, -14057, -2965, 9333, 2161,
                7345, 8234, -15566, 20871, -485, 7251, -1124, 7251, -4081,
                -10949, 31254, 122, -6290 >>,
            k |-> << 6, 4, 4, 2, 2, 2, 8, 2, 6, 4, 4, 2, 2, 2, 2, 2, 2, 4, 4, 2,
                2, 2, 2, 2, 2, 2, 2, 2, 2, 2, 2, 2, 2, 2, 2, 4, 2, 2, 2, 2,
                2, 4, 4, 2, 2, 2, 2, 2, 2, 2, 2, 6, 4, 4, 2, 2, 2, 2, 2, 2,
                2, 2, 2, 2, 2, 2, 2, 2, 2, 2, 2, 2, 2, 2, 4, 2, 2, 2, 2, 2,
                2, 2 >>])
    @@ (507 :> [u |-> << 15, 988, 674, 459, 376, 270, 147, 553, 235, 329, 985, 313,
                946, 808, 522, 726, 313, 766, 423, 94, 748, 494, 979, 151,
                823, 763, 980, 390, 67, 767, 127, 630, 294, 867, 256, 267,
                713, 715, 96, 555, 73, 591, 89, 283, 728, 900, 732, 100,
                729, 152, 175, 975, 448, 581, 648, 394, 998, 430, 299, 376,
                936, 796, 317, 38, 284, 957, 356, 664, 641, 382, 427, 886,
                410, 133, 197, 198, 640, 376, 835, 78, 637, 422, 459, 582,
                953, 180, 12, 168, 810, 997, 127, 723, 712, 546, 391, 631,
                948, 170, 37, 262, 605, 738, 802, 617, 472, 274, 218, 387,
                572, 774, 944, 870, 187, 321, 566, 971, 356, 968, 183, 639,
                701, 514, 457, 698, 538, 689, 640, 27, 145, 809, 58, 103,
                93, 781, 505, 967, 995, 898, 565, 535, 673, 4, 554, 993,
                399, 153, 704, 959, 922, 757, 878, 474, 194, 77, 727, 441,
                671, 116, 650, 375, 317, 849, 155, 864, 545, 211, 62, 359,
                92, 67, 652, 364, 581, 646, 933, 502, 327, 487, 947, 651,
                468, 467, 44, 505, 570, 504, 664, 293 >>,
            z |-> << -4565, -22054, -4565, -22054, -14194, -6981, 1749, -15389,
                -7374, 3390, 17647, 3390, 17647, 1025, 17647, -9281, 10739,
                -4229, -8612, 2330, -386, 4124, 5365, 3059, 5365, -6574,
                -533, -6574, 3223, -4775, 3223, -14295, 7211, -3906, -8702,
                9194, 10023, -5252, 1229, -7689, 1541, -8130, -2551, 9887,
                4964, 2789, -4825, 2836, -7115, -3061, 21716, -456, 21716,
                18234, -11658, -17484, -9072, -17484, -9072, 6003, -1551,
                -6308, -1551, -1219, 13697, -1219, 13697, 11924, -12778,
                -11915, 9633, -2163, -10335, -2878, -5584, 5373, -13105,
                10869, -10534, 2152, -10534, -12293, 23313, 5635, 3866,
                4246, 3866, 4246, 3866, 9569, 3866, 9569, 3860, -22113,
                15977, 4966, 14756, 6581, 14756, 6581, 14756, 8008, 4751,
                -5377, -17620, -8913, -5273, 12366, 14555, -2275, -5682,
                -2275, -5682, 6923, 4394, -708, 2721, 13874, 4895, 13874,
                1337, -29469, 18592, 3594, 19138, 10335, -2342, 311, 3256,
                311, 1225, 311, 1225, 311, 5174, 1494, 13132, 1494, 13132,
                19956, 1676, 134, 1676, 4752, -10987, 4752, 1014, 4911,
                1014, 4911, -715, -13938, -4297, 1935, -4297, 19085, -7610,
                3214, -12341, -14929, 8645, -1945, -14487, 1385, -14487,
                -7312, -1787, -7312, -12553, 1945, -12553, 11058, 18246,
                5606, 41, -20641, -1449, 6618, 1514, -4361, -22544, -6001,
                71, 27888, 1827, 21064, -12492, -322 >>,
            zc |-> << 19749, -7175, 19749, -7175, -7661, -4554, -11522, 3107,
                -11416, -1413, 1782, -1413, 1782, 13822, 1782, 11259, -7535,
                14783, -1617, -3799, 16705, -50, 6579, -3291, 6579, -1667,
                2338, -1667, -9167, 3429, -9167, 9100, -4032, 5911, -9117,
                -9973, 9930, 2811, -8981, 995, -7221, 1804, -4842, -9366,
                2831, 4799, 2807, -4934, 4699, -3286, -13672, 4221, -13672,
                10008, 16345, -6035, -14777, -6035, -14777, -1696, -613,
                10251, -613, 3878, -11979, 3878, -11979, 13837, 15352,
                -19257, -1820, 9386, -2513, -3480, -5601, -11568, 14909,
                -3991, 18699, -6586, 18699, -23350, -11512, 1029, -6432,
                -4538, -6432, -4538, -6432, 10054, -6432, 10054, 17813,
                9377, -13206, 1457, 6517, -14802, 6517, -14802, 6517, 6310,
                12244, 23235, -2122, -7162, -13141, -19343, 3823, 2697,
                -9975, 2697, -9975, -18404, 624, 2321, -835, 9607, -11099,
                9607, 18982, 9886, -3975, 18714, 3851, 13954, 694, 15170,
                -3730, 15170, -1771, 15170, -1771, 15170, 64, 9114, 24292,
                9114, 24292, 4059, 186, -1212, 186, -8049, -3196, -8049,
                1663, 3349, 1663, 3349, 10501, -1175, 16832, -3584, 16832,
                -6471, 3403, -8180, 14943, -10167, -4527, 1970, 2295, 11037,
                2295, -2520, -5567, -2520, 14141, -5505, 14141, -18364,
                10165, 1896, 7529, 282, -20569, -179, 4481, 21234, -21272,
                -434, -6100, 2107, 27913, 591, 9974, -18815 >>,
            k |-> << 4, 4, 2, 2, 2, 2, 2, 2, 2, 4, 6, 2, 4, 2, 2, 2, 2, 2, 2, 2,
                2, 2, 4, 2, 2, 4, 2, 2, 4, 2, 2, 2, 2, 2, 2, 2, 2, 2, 2, 2,
                2, 2, 2, 2, 2, 2, 2, 2, 2, 2, 4, 2, 2, 2, 2, 4, 4, 2, 2, 2,
                4, 2, 2, 4, 4, 2, 2, 2, 2, 2, 2, 2, 2, 2, 2, 2, 2, 2, 4, 2,
                2, 2, 2, 2, 8, 4, 6, 2, 4, 4, 2, 2, 2, 2, 2, 2, 6, 4, 4, 2,
                2, 2, 2, 2, 2, 2, 2, 2, 2, 4, 4, 2, 2, 2, 2, 2, 2, 4, 2, 2,
                2, 2, 2, 2, 2, 2, 2, 8, 2, 6, 4, 4, 2, 2, 2, 4, 4, 2, 2, 2,
                4, 2, 2, 4, 2, 2, 4, 4, 2, 2, 2, 2, 4, 2, 2, 2, 2, 2, 2, 2,
                2, 2, 4, 2, 2, 4, 2, 2, 4, 2, 2, 2, 2, 2, 2, 2, 2, 2, 2, 2,
                2, 2, 2, 2, 2, 2, 2, 2 >>])
    @@ (511 :> [u |-> << 269, 809, 238, 690, 563, 714, 90, 326, 981, 624, 884, 420,
                610, 221, 401, 344, 988, 32, 815, 598, 112, 837, 0, 9, 508,
                408, 448, 551, 603, 521, 38, 860, 496, 80, 17, 155, 334,
                271, 506, 611, 261, 865, 848, 195, 121, 929, 574, 31, 630,
                207, 177, 754, 866, 494, 21, 26, 42, 132, 639, 581, 537,
                891, 901, 957, 494, 311, 277, 744, 169, 932, 839, 426, 95,
                423, 199, 503, 21, 862, 978, 39, 762, 222, 896, 968, 6, 371,
                483, 614 >>,
            z |-> << 8154, -5910, 7765, 6067, 17169, -4943, -2668, 8789, 345,
                8789, -1990, 18542, -13300, -4835, -16881, -9143, 3851,
                -9143, 3851, -9143, -25901, 48, -25901, 48, -25901, -12281,
                19580, 21632, 5119, -5622, -8401, -102, -8401, -4471,
                -12262, -4471, -12262, 480, 24429, -14491, 6151, -2640,
                -3648, -2640, -4494, 1270, -4494, 881, -12176, -5506, 5509,
                5560, -161, -4221, 10798, 3484, 10798, 3484, 10798, 10989,
                9758, -67, -19727, -67, -19727, -11190, 9502, -7124, -2559,
                -8701, -2559, -8701, -1633, -13422, 163, -4241, -7553, 2930,
                -7553, 2930, -7553, 2930, 23943, -2940, 23943, -2940, 23943,
                -2399 >>,
            zc |-> << -6073, 6994, -10651, 18091, 5113, 2592, -6286, 2848, 1336,
                2848, 9646, -13317, 5266, -13668, -10689, 2326, 12295, 2326,
                12295, 2326, 2340, -2811, 2340, -2811, 2340, -21717, -19600,
                10875, 24423, 263, -64, 11427, -64, -9336, -8852, -9336,
                -8852, -17670, 1359, 6784, -4014, -2128, 4171, -2128, 715,
                7308, 715, -3164, 5425, -5007, -6978, 3859, 11153, -47,
                18323, -9200, 18323, -9200, 18323, 23747, 945, 5990, -533,
                5990, -533, -9481, -8659, 5277, 11773, -1589, 11773, -1589,
                -8669, -3409, -14291, 30, 7129, -2050, 7129, -2050, 7129,
                -2050, -3419, -23061, -3419, -23061, -3419, 575 >>,
            k |-> << 2, 2, 2, 2, 2, 2, 2, 4, 2, 2, 2, 2, 2, 2, 2, 6, 4, 4, 2, 2,
                6, 4, 4, 2, 2, 2, 2, 2, 2, 2, 4, 2, 2, 4, 4, 2, 2, 2, 2, 2,
                2, 4, 2, 2, 4, 2, 2, 2, 2, 2, 2, 2, 2, 2, 6, 4, 4, 2, 2, 2,
                2, 4, 4, 2, 2, 2, 2, 2, 4, 4, 2, 2, 2, 2, 2, 2, 6, 6, 4, 4,
                2, 2, 6, 4, 4, 2, 2, 2 >>])
    @@ (530 :> [u |-> << 809, 441, 363, 746, 532, 519, 895, 754, 343, 972, 155, 862,
                458, 543, 195, 704, 905, 236, 173, 810, 959, 822, 957, 971,
                340, 717, 527, 184, 460, 164, 167, 320, 625, 516, 619, 842,
                626, 465, 477, 533, 790, 961, 985, 800, 452, 559, 222, 825,
                171, 406, 381, 97, 141, 59, 925, 930, 434, 304, 389, 117,
                904, 980, 908, 59, 698, 841, 188, 131, 39, 648, 788, 201,
                285, 594, 127, 729, 145, 550, 119, 522, 665, 266, 519, 624,
                977, 412, 605, 145, 754, 896, 678, 211, 562, 535, 161, 355,
                364, 661, 378, 355, 208, 468, 448, 432, 547, 741, 599, 549,
                622, 970, 985, 826, 58, 633, 890, 211, 751, 426, 276, 28,
                840, 770, 281, 883, 578, 871, 715, 568, 73, 38, 360, 322,
                629, 544, 341, 67, 446, 958, 993, 488, 611, 151, 196, 446,
                603, 230, 102, 481, 264, 822, 540, 956, 769, 307, 376, 497,
                206, 244, 755, 743, 611, 587, 757, 662, 872, 944, 679, 958,
                319, 772, 659, 560, 858, 976, 628, 253, 899, 327 >>,
            z |-> << -2540, -20217, 13241, 2203, 16573, 9672, 2699, -7519, 1385,
                -1264, 284, -1264, 21157, -13808, 6209, 5548, -1985, -6509,
                4448, -443, 12665, -443, 12665, -443, 12665, 2315, -13456,
                -1674, -12421, -3327, -5017, 10401, 3066, 23633, 10715,
                3897, -6083, -17253, 26361, 14537, 21401, -2211, 21401,
                -2211, 21401, -14718, 6015, -3959, -3374, -17193, -8021,
                -1124, -17851, -1124, -17851, -1124, -17851, -8833, -9148,
                1510, 8367, 1510, 8367, 1510, 8367, -3762, -2873, 11690,
                1105, 11690, -6198, -6457, 7019, -9947, 3833, -6888, 1641,
                -10206, 622, 20732, -12180, 1436, 23180, 2123, -610, 17486,
                -10534, 4312, 4112, 3079, -10595, 3094, 13608, -12318,
                -4335, -13154, 14249, -11408, -15131, -11751, -1581, -24725,
                -21267, 15463, 16518, 6151, 10916, 21380, 3271, 8273, 1643,
                8273, 1643, 8273, -2033, 6811, -4524, -16501, 4656, -7594,
                4656, -7594, 6163, 1986, 10252, 3900, 5386, -7532, -14024,
                -1092, -14024, 10722, 7325, -20301, -5392, -913, 5635,
                24326, -54, 24326, -10646, -3681, -2397, 21484, -13843,
                -3333, -437, -17253, 7638, 1619, 5854, -9524, -7456, -9524,
                -554, -14592, -6573, 8069, 8142, 6591, 13846, 14769, 7509,
                8376, 2316, 1518, 2316, -894, 10871, 6852, 7368, 11144,
                -13598, 593, -13598, 4275, -2950, -10416 >>,
            zc |-> << 13354, -8697, -7358, 16581, 27457, 484, 4189, 12222, -459,
                11164, -269, 11164, -20074, 1962, -9250, 2796, 3051, -5262,
                -4673, 1308, -9285, 1308, -9285, 1308, -9285, 18000, 1194,
                -13346, -1464, -3356, -9302, -14907, 23257, 3269, 3738,
                10531, 22316, -26473, -17625, 1682, -17133, 13920, -17133,
                13920, -17133, 3164, -5125, 3922, -11870, -13544, -2362,
                7364, -6003, 7364, -6003, 7364, -6003, -15565, -2648, -3346,
                4868, -3346, 4868, -3346, 4868, 4131, -2426, 6026, -3423,
                6026, 5979, -9003, -15937, 2521, -6219, 4457, -11423, 1368,
                -10416, 2838, 8662, -17373, 3574, 555, 3320, -14520, 3145,
                -5995, 2644, 6828, 6568, -14198, 24294, 1278, -10163,
                -14049, -11920, 15234, -12700, -5821, -14526, -15362,
                -16047, -21908, 3268, 14895, 21945, 8646, 853, 2828, -5431,
                2828, -5431, 2828, 2758, -7805, 15430, -5450, 5871, 9389,
                5871, 9389, -3514, 9721, 2157, 6714, 16956, 1211, -11038,
                -3615, -11038, -14629, 21533, 5650, -1980, -7378, -657,
                -2580, 2250, -2580, 3402, -4224, -13700, -11034, 5318,
                -2258, -9549, -1330, -5579, 13011, 515, -14899, 10430,
                -14899, -23660, -143, -7560, -8061, 8542, 14353, 17645,
                5034, 11929, 3649, 909, 3757, 909, 2269, -7211, 11719,
                19405, 1880, 7097, 2201, 7097, -2633, 6818, -5943 >>,
            k |-> << 2, 2, 2, 2, 2, 2, 2, 2, 2, 4, 2, 2, 2, 2, 2, 2, 2, 2, 2, 6,
                6, 4, 4, 2, 2, 2, 2, 2, 2, 2, 2, 2, 2, 2, 2, 2, 2, 2, 2, 2,
                6, 4, 4, 2, 2, 2, 2, 2, 2, 2, 2, 6, 6, 4, 4, 2, 2, 2, 2, 6,
                6, 4, 4, 2, 2, 2, 2, 4, 2, 2, 2, 2, 2, 2, 2, 2, 2, 2, 2, 2,
                2, 2, 2, 2, 2, 2, 2, 2, 2, 2, 2, 2, 2, 2, 2, 2, 2, 2, 2, 2,
                2, 2, 2, 2, 2, 2, 2, 2, 2, 6, 4, 4, 2, 2, 2, 2, 2, 2, 4, 4,
                2, 2, 2, 2, 2, 2, 2, 2, 4, 2, 2, 2, 2, 2, 2, 2, 2, 4, 2, 2,
                2, 2, 2, 2, 2, 2, 2, 2, 2, 2, 2, 4, 2, 2, 2, 2, 2, 2, 2, 2,
                2, 2, 2, 2, 4, 2, 2, 2, 2, 2, 2, 2, 4, 2, 2, 2, 2, 2 >>])
    @@ (531 :> [u |-> << 689, 354, 949, 643, 979, 192, 558, 432, 516, 569, 847, 446,
                572, 318, 914, 526, 259, 639, 487, 97, 931, 795, 437, 676,
                761, 522, 148, 780, 208, 98, 461, 25, 35, 938, 609, 687,
                397, 761, 273, 868, 114, 628, 301, 310, 129, 517, 417, 550,
                125, 829, 95, 179, 585, 345, 773, 207, 482, 469, 140, 193,
                398, 905, 120, 997, 986, 532, 704, 322, 334, 792, 342, 945,
                804, 271, 776, 540, 831, 823, 801, 970, 488, 938, 803, 367,
                781, 901, 469, 960, 137, 505, 264, 806, 209, 177, 644, 593,
                944, 228, 312, 625, 233, 884, 109, 117, 166, 916, 117, 941,
                775, 551, 357, 451, 149, 21, 929, 509, 873, 721, 952, 30,
                180, 990, 969, 92, 186, 227, 402, 678, 443, 541, 328, 533,
                971, 506, 477, 860, 554, 613, 500, 689, 459, 984, 592, 59,
                989, 689, 383, 63, 486, 104, 654, 427, 351, 923, 786, 65,
                876, 57, 568, 637, 417, 149, 996, 453, 744, 762, 460, 154,
                484, 344, 972, 416, 487, 77, 437, 427, 182, 728, 51, 19,
                835, 37, 673, 973, 876, 916 >>,
            z |-> << -10437, 4507, 1451, 2543, -19905, 2543, -19905, 6732, 27116,
                11488, -1800, 21075, -17987, 5772, 552, -16938, 7681, -1974,
                -9304, -2959, 18677, -2959, 18677, 11258, 1378, -11826,
                4068, -6623, -1423, -896, -4455, 1531, 15808, 1531, 15808,
                -8865, 14141, -7941, 6488, -14551, 2864, -14551, -10685,
                -7648, 511, -26104, 13327, -10504, 776, 3300, -17872, 3300,
                -17872, 11894, -6889, -860, -28417, -11392, -3096, -4156,
                8199, 18539, 214, 18539, 214, 18539, -10252, -11624, 10971,
                -6064, 4509, 8879, -6262, 8879, 2210, 12621, 3875, 4788,
                7224, -122, 7224, 12447, -5132, 12447, 2243, -698, 5676,
                -17368, 163, -17368, 8068, -5665, -5587, 4820, 11160, 6061,
                9926, -7316, 9926, -13140, 4240, -20568, 2787, -20568, 2787,
                -20568, 2787, -20568, 2787, -20568, -7065, -11660, 181,
                10781, 181, 10781, 3824, -4982, -5668, -4982, -5668, -4982,
                -5668, -4982, -5668, -4982, 16638, -5981, 16455, -19871,
                3908, 4718, 69, -33559, 11407, 1675, 21202, 99, 19717,
                -4088, 3322, 434, -6355, -9453, -6146, -9453, -6146, -231,
                -9672, 2947, -8824, -18885, 6230, 1014, 19414, 1014, 19414,
                1014, 19414, -10905, -11170, 16406, -105, 16406, 8437,
                -2358, -11967, -535, -21483, 1273, -698, -4096, -8182,
                -1165, -19398, -12784, 5798, 754, 5513, 754, 5513, 754,
                5513, -7753, 5513, -7753 >>,
            zc |-> << 13657, -1453, 4565, -13434, 17094, -13434, 17094, -27235,
                6547, 2294, 11711, -15532, 7175, -2532, 8590, 1877, -13269,
                22496, -282, 13903, -6655, 13903, -6655, 7588, 15995, 759,
                -5090, 6377, -1034, -9227, -366, 6162, 9215, 6162, 9215,
                16196, -5534, 9158, -3998, 9378, -8632, 9378, -11218, -3910,
                -10932, 5466, -21891, 1413, -882, -12390, 9895, -12390,
                9895, -6708, 6431, -14585, -15865, -980, -3627, -12547,
                -2053, 2941, 3212, 2941, 3212, 2941, 11852, -12429, -6212,
                11264, -1595, -7350, 8341, -7350, 15103, 1540, 3970, 5139,
                -190, 4955, -190, -5874, 11738, -5874, 1572, 9261, -373,
                386, -11341, 386, -6192, 5975, -5027, -10729, 17363, 1270,
                -14800, -10595, -14800, 6202, -2943, 7436, 14947, 7436,
                14947, 7436, 14947, 7436, 14947, 7436, -20762, -1611, 7801,
                287, 7801, 287, 6461, -13924, -6511, -13924, -6511, -13924,
                -6511, -13924, -6511, -13924, -9063, 18868, -22699, 4777,
                -20156, 332, 4828, 10144, -702, 11140, 10089, 24334, 48,
                19054, -278, 2284, 1329, 15342, -1639, 15342, -1639, -7345,
                -336, -7530, 18741, -9266, -2187, -6531, 9678, -6531, 9678,
                -6531, 9678, 18312, -2621, -3151, 1105, -3151, 7855, 15740,
                -1361, -12122, -2113, -418, 3954, -26355, -251, -7840,
                -16882, -2910, -8061, -2007, -6719, -2007, -6719, -2007,
                -6719, 7881, -6719, 7881 >>,
            k |-> << 2, 2, 2, 4, 4, 2, 2, 2, 2, 2, 2, 2, 2, 2, 2, 2, 2, 2, 2, 4,
                4, 2, 2, 2, 2, 2, 2, 2, 2, 2, 2, 4, 4, 2, 2, 2, 2, 2, 2, 4,
                2, 2, 2, 2, 2, 2, 2, 2, 2, 4, 4, 2, 2, 2, 2, 2, 2, 2, 2, 2,
                2, 6, 4, 4, 2, 2, 2, 2, 2, 2, 2, 4, 2, 2, 2, 2, 2, 2, 4, 2,
                2, 4, 2, 2, 2, 2, 2, 4, 2, 2, 2, 2, 2, 2, 2, 2, 4, 2, 2, 2,
                2, 10, 8, 8, 6, 6, 4, 4, 2, 2, 2, 2, 4, 4, 2, 2, 2, 10, 8,
                8, 6, 6, 4, 4, 2, 2, 2, 2, 2, 2, 2, 2, 2, 2, 2, 2, 2, 2, 2,
                2, 2, 2, 2, 4, 4, 2, 2, 2, 2, 2, 2, 2, 2, 6, 6, 4, 4, 2, 2,
                2, 2, 4, 2, 2, 2, 2, 2, 2, 2, 2, 2, 2, 2, 2, 2, 2, 2, 6, 10,
                4, 8, 2, 6, 6, 4, 4 >>])
    @@ (549 :> [u |-> << 48, 333, 921, 482, 808, 830, 249, 138, 896, 711, 351, 885,
                568, 413, 964, 140, 723, 856, 338, 364, 173, 602, 475, 598,
                79, 583, 980, 971, 633, 313, 216, 457, 808, 379, 133, 12,
                590, 789, 102, 345, 993, 222, 671, 864, 580, 59, 761, 20,
                754, 952, 135, 652, 646, 793, 65, 174, 869, 794, 52, 578,
                938, 926, 539, 404, 522, 500, 181, 722, 708, 272, 808, 482,
                14, 441, 863, 989, 565, 17, 924, 986, 21, 818, 282, 171,
                539, 825 >>,
            z |-> << -1349, 5822, -349, 13863, 4643, -5219, -5886, -9363, 3060,
                -9363, 8134, 1731, -19256, 4688, 7057, 4307, 7057, -4104,
                -11920, -10866, 3696, -5674, 24565, -7462, 1526, 3071,
                -14355, 785, -14355, -10418, -2220, 13650, -4673, -9664,
                13489, 315, 13489, -2107, -2894, 6865, 8412, 6865, 8412,
                2343, -6543, 12847, 3735, 12847, 3735, 12847, 3735, 12847,
                11635, 1846, 2945, 1846, 2945, 6665, 1076, 6665, -23251,
                717, -23251, 5999, 413, -13423, 5746, 9639, -10259, 8307,
                -791, -3429, -361, 10905, -3230, 292, -3230, -5762, -8162,
                -5762, -8162, -5762, -8162, 1544, 12882, 4769 >>,
            zc |-> << -3658, -2299, 8227, -804, 4327, 6903, -4065, 13285, 5752,
                13285, -3138, 9722, 15243, -876, 4430, -6930, 4430, 9023,
                -14237, -4508, -11728, 24273, -6028, 1741, -7698, 532,
                10298, 2769, 10298, -6845, -14757, -1889, 11979, -3166,
                4234, -1694, 4234, 1535, -7443, -11094, 3971, -11094, 3971,
                10569, 1200, 13398, -8936, 13398, -8936, 13398, -8936,
                13398, 5803, -1625, 3692, -1625, 3692, 1200, -6095, 1200,
                9588, 7810, 9588, -24832, 35099, 11, -8248, 10280, 9392,
                -6125, 13859, -124, -3008, -1744, 437, 2193, 437, 8444,
                -5394, 8444, -5394, 8444, -5394, -12764, 1570, 5221 >>,
            k |-> << 2, 2, 2, 2, 2, 2, 2, 4, 2, 2, 2, 2, 2, 2, 4, 2, 2, 2, 2, 2,
                2, 2, 2, 2, 2, 2, 4, 2, 2, 2, 2, 2, 2, 2, 4, 2, 2, 2, 2, 4,
                4, 2, 2, 2, 2, 8, 6, 6, 4, 4, 2, 2, 2, 4, 4, 2, 2, 4, 2, 2,
                4, 2, 2, 2, 2, 2, 2, 2, 2, 2, 2, 2, 2, 2, 4, 2, 2, 6, 6, 4,
                4, 2, 2, 2, 2, 2 >>])
    @@ (568 :> [u |-> << 307, 803, 448, 671, 797, 263, 385, 754, 549, 373, 223, 294,
                209, 637, 973, 800, 102, 439, 314, 427, 1, 531, 450, 778,
                891, 908, 821, 528, 454, 853, 84, 219, 239, 441, 578, 629,
                513, 349, 104, 331, 310, 361, 504, 458, 827, 408, 221, 301,
                50, 768, 795, 495, 954, 120, 791, 843, 558, 87, 432, 335,
                278, 394, 456, 918, 557, 268, 38, 730, 289, 120, 265, 330,
                144, 246, 744, 333, 641, 222, 88, 703 >>,
            z |-> << 9710, -2327, 19398, 10615, -6530, -6955, 13939, 3083,
                -21277, -12845, -7292, -9534, 5684, 2248, -1399, -967,
                -1399, -18438, -6933, -24646, 52, -24646, 14855, 3223, 1151,
                -25468, 1151, -25468, 11551, -7042, -3473, -7042, -3473,
                20432, 18731, 2489, -21774, -7622, -3042, -12311, -10283,
                763, -31279, 12760, -3330, -13896, -7165, -2465, -241, 7015,
                -241, 6159, 4949, 2582, 4949, 2011, -8454, -1363, -18824,
                -12389, -7255, -9263, 8262, 1124, -16681, -9254, -6573,
                -9254, -6573, -3533, -8666, -8828, -4286, 8232, -8153,
                11810, -12250, -1399, 2594, -5579 >>,
            zc |-> << -6157, 13737, -5798, 6142, 8192, -14448, -6240, 15902, 8323,
                -5873, -9822, -6722, -11999, 654, -9230, 730, -9230, -5975,
                -17875, 15704, -822, 15704, -2659, 2290, 13175, 15570,
                13175, 15570, -1504, -7565, -15438, -7565, -15438, -15352,
                11335, 23092, 2010, -2902, -7141, -10969, -14041, -22640,
                3497, -1624, 11941, -4569, -10049, -1089, 14500, 6378,
                14500, -67, 4195, -3364, 4195, 11861, 1193, -8350, -7713,
                -9215, -15269, -22518, -853, 8127, 4171, 10152, -3635,
                10152, -3635, -5726, -11989, -4211, -6013, -8529, 11998,
                -13870, 6234, -945, -5242, 2803 >>,
            k |-> << 2, 2, 2, 2, 2, 2, 2, 2, 2, 2, 2, 2, 2, 2, 4, 2, 2, 2, 2, 4,
                2, 2, 2, 2, 4, 4, 2, 2, 2, 4, 4, 2, 2, 2, 2, 2, 2, 2, 2, 2,
                2, 2, 2, 2, 2, 2, 2, 2, 4, 2, 2, 2, 4, 2, 2, 2, 2, 2, 2, 2,
                2, 2, 2, 2, 2, 4, 4, 2, 2, 2, 2, 2, 2, 2, 2, 2, 2, 2, 2, 2 >>])
    @@ (569 :> [u |-> << 876, 277, 506, 292, 954, 531, 705, 322, 916, 318, 850, 648,
                879, 467, 516, 282, 781, 428, 343, 800, 204, 659, 603, 502,
                936, 234, 145, 13, 111, 469, 576, 999, 451, 805, 796, 138,
                145, 569, 118, 13, 839, 1, 171, 483, 993, 993, 845, 783,
                909, 143, 26, 628, 566, 482, 86, 679, 895, 411, 66, 744, 28,
                478, 946, 358, 499, 92, 26, 991, 616, 575, 851, 100, 126,
                498, 431, 518, 59, 577, 70, 401 >>,
            z |-> << -3738, 515, -18768, 471, 421, 18537, -10233, 5791, -2467,
                8617, 4071, 8432, -884, 14532, -18155, 9225, -3609, -18824,
                11076, -5799, 5979, 10736, 569, 7361, -786, -5579, -786,
                24952, -786, 24952, 13691, 5599, 13691, 5599, -4010, -9898,
                2192, -9898, -629, 2236, -629, 2236, -629, 2236, 4264, 1094,
                4264, 1094, 720, 10322, 720, 10322, -6994, -8693, 2565,
                6838, -2003, -6845, 647, 6652, -223, 6652, -1531, -28,
                -9067, 11209, 12296, 11209, 12296, 11209, -48, -28200, -48,
                -28200, 7151, -7074, 1149, -7241, -1580, -11809 >>,
            zc |-> << 6324, -17994, 577, -214, 6066, 2851, 11835, -2465, 5649,
                -4472, 9611, 3302, 10407, -28997, 1346, -7136, 14298, -8555,
                -5765, 5891, -11115, 16501, 25093, 40, -9978, -4183, -9978,
                -10018, -9978, -10018, -2191, 5773, -2191, 5773, 3283, 1800,
                -11187, 1800, -12916, -73, -12916, -73, -12916, -73, 5198,
                757, 5198, 757, -2662, 19748, -2662, 19748, 27251, -361,
                -5924, 3093, 8930, -1401, -1146, -324, -4837, -324, 4835,
                -22469, -4, 2402, 19007, 2402, 19007, 2402, -10818, -684,
                -10818, -684, -27040, 290, -6565, 1299, -6912, 10919 >>,
            k |-> << 2, 2, 2, 2, 2, 2, 2, 2, 2, 2, 2, 2, 2, 2, 2, 2, 2, 2, 2, 2,
                2, 2, 2, 2, 6, 2, 4, 4, 2, 2, 4, 4, 2, 2, 2, 4, 2, 2, 6, 6,
                4, 4, 2, 2, 4, 4, 2, 2, 4, 4, 2, 2, 2, 2, 2, 2, 2, 2, 2, 4,
                2, 2, 2, 2, 2, 6, 4, 4, 2, 2, 4, 4, 2, 2, 2, 2, 2, 2, 2, 6 >>])
    @@ (573 :> [u |-> << 469, 827, 388, 32, 733, 48, 572, 125, 450, 848, 72, 915,
                537, 762, 470, 903, 361, 212, 810, 143, 766, 652, 898, 790,
                413, 722, 720, 19, 287, 894, 407, 782, 861, 412, 975, 322,
                386, 254, 68, 80, 135, 626, 535, 98, 462, 710, 602, 499,
                860, 46, 876, 482, 308, 110, 663, 946, 139, 486, 144, 982,
                180, 996, 50, 996, 196, 200, 549, 83, 229, 21, 408, 762,
                730, 343, 449, 480, 705, 272, 938, 739, 318, 673, 445, 722,
                885, 984, 263, 522, 417, 27, 419, 771, 71, 957, 714, 603,
                412, 186, 99, 10, 718, 351, 346, 660, 872, 639, 316, 787,
                512, 509, 914, 734, 961, 179, 210, 493, 255, 677, 57, 912,
                548, 187, 633, 717, 12, 720, 292, 967, 310, 290, 442, 78,
                326, 182, 716, 959, 661, 568, 708, 302, 478, 945, 723, 41,
                91, 357, 470, 688, 79, 759, 233, 585, 974, 699, 366, 402,
                358, 469, 266, 661, 807, 175, 596, 192, 138, 75, 148, 794,
                242, 455, 259, 504, 533, 363, 557, 346, 506, 413, 622, 539,
                663, 641, 164, 766, 589, 904, 22, 87, 744, 275, 646, 431,
                949, 924, 524, 275, 807, 423, 901, 824, 312, 926, 159, 288,
                68, 10, 600, 587, 351, 540, 955, 432, 900, 488, 780, 744,
                56, 426, 857, 266, 220, 30, 898, 149, 30, 668, 511, 613,
                821, 267, 807, 719, 362, 47, 66, 677, 550, 300, 380, 194,
                216, 109, 401, 630, 565, 745, 15, 288, 70, 463, 622, 865,
                643, 45, 928, 320, 828, 361, 236, 315, 770, 677, 668, 802,
                10, 800, 359, 496, 449, 731, 31, 663, 114, 144, 125, 567,
                779, 469, 257, 15, 945, 341, 482, 760, 393, 816, 642, 923,
                989, 284, 468, 801, 415, 106, 140, 633, 723, 543, 52, 853,
                680, 380, 289, 12, 769, 173, 707, 931, 687, 848, 817, 761,
                948, 99, 15, 662, 240, 898, 187, 618, 955, 865, 349, 32,
                978, 437, 475, 570, 786, 621, 7, 456, 427, 615, 660, 404,
                724, 86, 54, 35, 7, 522, 471, 660, 589, 287, 208, 351, 821,
                644, 262, 473, 658, 319, 785, 807, 682, 579, 940, 596, 836,
                663, 998, 147, 21, 92, 481, 429, 396, 52, 83, 704, 170, 47,
                235, 948, 593, 211, 596, 283, 867, 570, 297, 388, 375, 990,
                154, 615, 600, 612, 525, 195, 912, 773, 498, 510, 180, 982,
                640, 473, 840, 411, 736, 650, 844, 460, 100, 276, 402, 815,
                346, 363, 572, 560, 655, 607, 673, 493, 782, 942, 363, 147,
                360, 91, 831, 781, 806, 533, 504, 251, 722, 861, 804, 227,
                527, 586, 427, 548, 263, 472, 633, 558, 705, 627, 477, 16,
                913, 150, 634, 276, 866, 305, 955, 678, 321, 625, 356, 765,
                272, 793, 131, 214, 879, 1, 616, 667, 168, 575, 317, 490,
                438, 125, 654, 818, 542, 1, 742, 768, 778, 337, 791, 696,
                209, 430, 323, 163, 871, 919, 441, 61, 925, 177, 699, 643,
                755, 346, 913, 190, 77, 917, 55, 517, 118, 803, 339, 253,
                442, 544, 236, 202, 752, 611, 536, 188, 912, 656, 724, 480,
                298, 153, 856, 455, 321, 515, 597, 726, 465, 1, 939, 779,
                984, 912, 699, 570, 517, 501, 393, 350, 367, 602, 684, 228,
                515, 663, 982, 977, 492, 537, 184, 351, 641, 871, 219, 505,
                655, 651, 400, 31, 878, 892, 378, 833, 728, 819, 518, 242,
                811, 549, 770, 862, 322, 785, 420, 379, 657, 637, 376, 253,
                777, 664, 905, 607, 455, 318, 680, 800, 243, 790, 955, 245,
                730, 658, 366, 190, 273, 302, 847, 969, 772, 23, 6, 144,
                910, 640, 369, 613, 62, 735, 909, 802, 57, 301, 808, 24,
                246, 318, 620, 28, 53, 459, 289, 992, 695, 615, 528, 201,
                45, 648, 244, 547, 727, 39, 998, 477, 851, 900, 453, 71,
                951, 4, 21, 796, 917, 365, 84, 136, 634, 719, 21, 908, 42,
                292, 437, 690, 699, 254, 524, 143, 675, 847, 620, 103, 511,
                961, 396, 236, 448, 689, 816, 593, 935, 770, 176, 175, 643,
                464, 198, 144, 113, 900, 925, 158, 375, 627, 104, 79, 348,
                288, 577, 559, 311, 342, 822, 889, 807, 184, 547, 383, 969,
                594, 902, 121, 436, 927, 965, 66, 508, 247, 845, 766, 962,
                824, 746, 707, 769, 491, 749, 218, 609, 630, 739, 30, 195,
                742, 497, 905, 493, 396, 754, 582, 96, 806, 523, 520, 304,
                190, 996, 536, 49, 906, 948, 42, 307, 272, 349, 928, 172,
                348, 619, 99, 473, 281, 835, 774, 72, 196, 494, 906, 866,
                198, 926, 883, 705, 94, 719, 777, 111, 467, 911, 77, 958,
                305, 300, 188, 406, 906, 947, 449, 141, 397, 998, 921, 457,
                724, 110, 274, 897, 549, 358, 951, 542, 963, 478, 470, 781,
                394, 975, 485, 106, 710, 561, 467, 722, 958, 101, 774, 214,
                649, 483, 114, 155, 478, 745, 324, 302, 306, 484, 186, 712,
                934, 813, 222, 770, 204, 428, 723, 924, 877, 68, 595, 253,
                891, 513, 456, 718, 138, 181, 791, 452, 962, 45, 496, 365,
                390, 925, 349, 451, 254, 249, 298, 306, 274, 306, 555, 861,
                314, 656, 144, 274, 834, 375, 502, 835, 88, 836, 655, 660,
                963, 849, 918, 971, 120, 594, 601, 593, 577, 656, 263, 168,
                737, 7, 38, 303, 936, 401, 345, 42, 418, 664, 92, 158, 586,
                289, 741, 776, 163, 549, 447, 957, 747, 316, 416, 346, 821,
                70, 385, 566, 400, 337, 712, 560, 388, 724, 61, 371, 760,
                493, 267, 908, 123, 308, 617, 183, 922, 532, 320, 554, 413,
                310, 550, 717, 489, 328, 815, 999, 528, 131, 622, 52, 298,
                153, 123, 517, 409, 845, 899, 336, 266, 667, 855, 288, 1,
                105, 717, 838, 87, 887, 194, 9, 982, 790, 631, 477, 154,
                530, 697, 782, 890, 839, 407, 736, 68, 868, 436, 721, 901,
                8, 795, 130, 964, 753, 298, 31, 180, 305, 249, 542, 839,
                871, 553, 477, 990, 226, 45, 446, 48, 887, 514, 940, 507,
                437, 63, 751, 645, 136, 235, 786, 126, 218, 459, 901, 831,
                88, 431, 894, 204, 683, 552, 94, 81, 726, 145, 682, 171,
                571, 397, 167, 472, 220, 436, 307, 107, 235, 117, 57, 361,
                520, 301, 476, 495, 324, 936, 789, 604, 495, 700, 388, 199,
                856, 963, 382, 792, 807, 899, 814, 350, 734, 352, 43, 722,
                676, 822, 97, 125, 623, 233, 353, 282, 411, 196, 171, 34,
                745, 14, 955, 385, 767, 615, 575, 721, 417, 599, 185, 603,
                411, 238, 178, 944, 186, 265, 808, 939, 192, 967, 747, 550,
                123, 675, 338, 36, 887, 564, 582, 229, 901, 666, 482, 803,
                587, 741, 325, 711, 927, 557, 72, 206, 696, 360, 372, 894,
                57, 122, 868, 585, 189, 54, 500, 455, 568, 890, 130, 724,
                531, 17, 276, 941, 72, 427, 809, 49, 870, 36, 479, 468, 452,
                528, 525, 622, 371, 995, 785, 601, 93, 896, 914, 371, 253,
                770, 219, 748, 670, 310, 692, 558, 172, 289, 259, 733, 563,
                302, 789, 712, 671, 335, 277, 240, 181, 80, 896, 676, 267,
                23, 698, 476, 542, 715, 878, 905, 456, 471, 152, 638, 700,
                742, 736, 901, 116, 924, 595, 710, 978, 759, 899, 249, 859,
                242, 875, 932, 556, 344, 958, 139, 296, 421, 202, 756, 607,
                807, 608, 229, 773, 802, 612, 820, 313, 943, 634, 105, 958,
                946, 875, 739, 845, 64, 67, 169, 796, 134, 643, 253, 754,
                709, 796, 962, 890, 170, 207, 851, 306, 602, 478, 98, 908,
                264, 637, 334, 418, 677, 173, 466, 941, 513, 874, 583, 47,
                553, 308, 230, 86, 878, 302, 138, 512, 212, 663, 529, 505,
                242, 884, 81, 631, 924, 852, 550, 636, 985, 732, 61, 731,
                17, 924, 738, 221, 327, 935, 486, 523, 33, 706, 28, 38, 115,
                476, 489, 100, 23, 139, 883, 72, 486, 555, 903, 187, 180,
                506, 99, 973, 832, 251, 164, 729, 328, 589, 831, 288, 973,
                683, 478, 773, 354, 724, 866, 412, 162, 339, 971, 19, 68,
                778, 710, 563, 145, 238, 395, 749, 645, 129, 57, 265, 724,
                180, 187, 168, 960, 768, 30, 859, 551, 257, 882, 448, 25,
                390, 0, 267, 1, 803, 23, 833, 369, 353, 202, 146, 105, 820,
                91, 200, 691, 562, 436, 562, 770, 306, 718, 803, 62, 745,
                645, 379, 839, 593, 666, 487, 962, 862, 342, 413, 67, 323,
                970, 854, 738, 644, 885, 375, 676, 283, 956, 472, 807, 522,
                455, 320, 96, 550, 720, 554, 787, 760, 813, 392, 337, 463,
                408, 811, 316, 459, 766, 786, 591, 954, 879, 586, 810, 98,
                994, 144, 191, 525, 292, 534, 851, 555, 965, 10, 838, 480,
                662, 868, 497, 905, 234, 699, 380, 473, 308, 434, 86, 745,
                204, 914, 391, 48, 964, 980, 637, 810, 611, 585, 597, 693,
                729, 383, 413, 861, 170, 674, 676, 373, 934, 877, 8, 909,
                316, 314, 457, 627, 428, 587, 630, 670, 852, 831, 332, 54,
                635, 868, 639, 68, 925, 38, 960, 771, 447, 996, 434, 750,
                328, 653, 405, 485, 68, 204, 100, 548, 594, 52, 108, 995,
                716, 589, 251, 692, 419, 44, 359, 745, 230, 244, 104, 871,
                710, 498, 340, 988, 280, 678, 441, 99, 403, 266, 726, 682,
                693, 23, 275, 541, 329, 93, 448, 440, 330, 878, 235, 28,
                601, 689, 55, 657, 228, 997, 28, 593, 723, 145, 472, 275,
                102, 75, 968, 104, 998, 705, 883, 543, 196, 3, 714, 853,
                644, 22, 590, 31, 21, 44, 703, 339, 386, 395, 150, 408, 632,
                260, 869, 496, 16, 697, 81, 653, 365, 156, 13, 368, 101, 9,
                594, 825, 75, 496, 735, 332, 748, 719, 62, 776, 787, 988,
                591, 179, 687, 203, 568, 386, 698, 540, 880, 940, 775, 188,
                553, 653, 102, 822, 792, 629, 756, 218, 486, 213, 149, 44,
                876, 542, 329, 607, 301, 288, 394, 721, 637, 233, 562, 2,
                93, 149, 862, 232, 915, 275, 47, 780, 623, 610, 299, 780,
                857, 531, 0, 85, 925, 618, 763, 120, 247, 33, 663, 709, 4,
                980, 140, 40, 765, 591, 235, 702, 47, 433, 203, 130, 821,
                731, 193, 532, 571, 398, 948, 285, 22, 844, 405, 888, 551,
                450, 673, 218, 627, 245, 887, 150, 329, 708, 151, 763, 834,
                928, 451, 17, 860, 185, 637, 591, 921, 852, 53, 978, 591,
                82, 791, 934, 961, 310, 612, 998, 538, 449, 93, 266, 1, 958,
                48, 269, 266, 406, 980, 377, 582, 361, 738, 56, 171, 766,
                40, 944, 723, 851, 186, 691, 327, 137, 775, 152, 153, 767,
                663, 435, 159, 386, 807, 501, 712, 95, 270, 844, 46, 597,
                250, 138, 422, 485, 880, 655, 839, 143, 185, 269, 206, 139,
                640, 368, 125, 6, 107, 716, 49, 83, 797, 352, 415, 954, 669,
                880, 467, 19, 512, 1, 741, 78, 181, 142, 331, 910, 657, 837,
                432, 389, 620, 491, 974, 289, 36, 984, 809, 559, 354, 17,
                925, 921, 831, 369, 891, 645, 897, 931, 50, 876, 607, 616,
                677, 627, 15, 382, 37, 684, 558, 466, 734, 303, 447, 716,
                198, 19, 866, 660, 187, 186, 62, 191, 888, 518, 512, 681,
                841, 415, 580, 609, 480, 651, 504, 633, 430, 59, 342, 565,
                42, 915, 35, 153, 528, 603, 845, 671, 126, 980, 617, 425,
                83, 319, 789, 136, 486, 68, 467, 98, 779, 157, 764, 285,
                655, 604, 384, 630, 720, 304, 711, 931, 94, 474, 110, 337,
                761, 487, 428, 863, 261, 247, 280, 933, 800, 792, 516, 879,
                880, 603, 846, 970, 555, 681, 770, 845, 332, 874, 882, 946,
                363, 167, 106, 467, 545, 970, 130, 86, 397, 316, 193, 833,
                985, 386, 795, 754, 189, 852, 2, 270, 520, 533, 400, 886,
                876, 887, 531, 205, 542, 761, 255, 567, 509, 159, 745, 201,
                887, 867, 96, 596, 475, 644, 324, 352, 960, 917, 106, 724,
                810, 995, 881, 123, 869, 63, 898, 447, 535, 767, 723, 896,
                65, 579, 411, 727, 87, 694, 253, 426, 244, 793, 667, 993,
                246, 42, 821, 957, 783, 166, 851, 990, 959, 819, 779, 931,
                814, 997, 194, 500, 234, 171, 668, 439, 81, 562, 721, 616,
                424, 573, 100, 272, 860, 599, 325, 990, 338, 532, 745, 957,
                266, 184, 27, 243, 628, 337, 985, 625, 539, 23, 662, 867, 4,
                664, 551, 272, 999, 875, 894, 588, 270, 67, 581, 2, 664,
                911, 917, 672, 688, 901, 515, 363, 870, 347, 389, 348, 557,
                34, 508, 493, 936, 342, 887, 475, 367, 396, 689, 762, 672,
                245, 952, 651, 723, 490, 539, 27, 993, 720, 157, 123, 111,
                500, 137, 90, 446, 746, 782, 155, 331, 467, 204, 891, 31,
                297, 461, 45, 831, 996, 134, 431, 602, 478, 533, 848, 144,
                664, 964, 874, 153, 205, 508, 695, 598, 63, 607, 367, 824,
                365, 870, 780, 22, 81, 593, 637, 796, 376, 833, 196, 827,
                716, 161, 18, 548, 784, 483, 448, 778, 883, 56, 629, 35,
                106, 890, 401, 674, 131, 823, 493, 584, 477, 955, 315, 195,
                815, 812, 493, 991, 60, 592, 933, 395, 757, 130, 812, 115,
                431, 610, 593, 942, 430, 220, 569, 16, 845, 501, 861, 483,
                693, 921, 734, 835, 120, 344, 481, 276, 829, 393, 82, 909,
                215, 425, 598, 818, 907, 512, 814, 626, 537, 852, 789, 716,
                267, 495, 748, 191, 432, 111, 306, 371, 119, 377, 2, 881,
                579, 38, 213, 144, 222, 517, 852, 536, 201, 846, 216, 195,
                639, 953, 720, 195, 3, 313, 857, 485, 462, 90, 453, 438,
                958, 652, 850, 994, 371, 830, 677, 360, 705, 672, 311, 53,
                413, 594, 228, 30, 229, 518, 172, 474, 356, 550, 823, 476,
                830, 405, 345, 690, 903, 184, 38, 347, 131, 105, 775, 474,
                18, 399, 633, 629, 787, 651, 26, 62, 511, 722, 660, 506,
                569, 822, 2, 162, 19, 922, 162, 306, 230, 130, 98, 586, 91,
                966, 630, 149, 792, 978, 276, 415, 305, 415, 3, 625, 886,
                183, 88, 845, 566, 756, 71, 161, 604, 149, 236, 225, 31,
                368, 962, 539, 266, 461, 445, 658, 753, 837, 143, 832, 541,
                657, 814, 818, 105, 538, 506, 366, 376, 868, 587, 272, 153,
                109, 261, 665, 983, 486, 409, 418, 370, 858, 781, 521, 282,
                102, 671, 467, 346, 102, 968, 0, 436, 560, 291, 218, 787,
                304, 213, 612, 213, 737, 258, 194, 462, 332, 682, 769, 984,
                869, 59, 952, 596, 982, 366, 377, 927, 416, 417, 567, 35,
                487, 440, 14, 286, 961, 949, 772, 304, 24, 234, 196, 119,
                767, 690, 724, 935, 98, 156, 515, 425, 442, 957, 501, 765,
                132, 495, 298, 897, 840, 46, 585, 870, 480, 293, 747, 405,
                730, 364, 14, 731, 107, 110, 959, 219, 230, 224, 24, 173,
                443, 229, 912, 699, 555, 398, 535, 852, 134, 724, 646, 799,
                868, 633, 595, 23, 183, 244, 955, 288, 320, 994, 754, 541,
                343, 12, 442, 380, 976, 846, 834, 358, 531, 364, 621, 39,
                420, 188, 219, 659, 30, 793, 294, 8, 237, 158, 621, 639,
                677, 494, 781, 799, 415, 909, 931, 534, 623, 584, 270, 26,
                585, 698, 793, 623, 826, 694, 23, 896, 492, 303, 599, 658,
                682, 48, 659, 547, 689, 985, 583, 722, 95, 926, 640, 513,
                381, 132, 930, 399, 262, 76, 914, 697, 151, 158, 933, 917,
                631, 150, 925, 387, 871, 778, 959, 355, 646, 591, 684, 122,
                622, 561, 949, 305, 211, 870, 369, 304, 348, 876, 243, 972,
                306, 641, 150, 623, 468, 440, 57, 582, 246, 455, 861, 542,
                483, 17, 176, 17, 344, 948, 451, 514, 359, 378, 689, 910,
                588, 715, 96, 736, 482, 643, 258, 437, 337, 965, 384, 185,
                96, 896, 548, 71, 590, 610, 370, 333, 598, 829, 346, 131,
                970, 26, 541, 958, 126, 37, 321, 641, 506, 919, 760, 636,
                244, 604, 683, 231, 384, 461, 31, 795, 664, 319, 85, 287,
                525, 181, 910, 150, 902, 500, 0, 831, 450, 138, 570, 233,
                147, 163, 714, 635, 846, 291, 142, 433, 25, 382, 600, 961,
                316, 361, 796, 722, 583, 98, 869, 882, 388, 829, 875, 975,
                237, 846, 452, 875, 388, 989, 894, 671, 366, 200, 97, 361,
                400, 931, 407, 828, 102, 613, 178, 92, 553, 886, 674, 224,
                522, 307, 727, 330, 282, 147, 798, 405, 102, 827, 571, 235,
                352, 283, 641, 319, 726, 610, 406, 930, 619, 663, 27, 741,
                617, 244, 470, 822, 629, 308, 734, 747, 184, 682, 402, 1,
                764, 168, 267, 951, 311, 346, 858, 526, 302, 583, 241, 996,
                256, 103, 600, 61, 737, 746, 178, 780, 700, 482, 762, 975,
                64, 393, 293, 892, 833, 777, 981, 723, 33, 771, 466, 503,
                893, 487, 508, 177, 774, 9, 783, 786, 27, 741, 271, 511,
                155, 889, 470, 747, 318, 303, 748, 354, 672, 789, 437, 478,
                643, 687, 80, 863, 831, 131, 291, 411, 215, 560, 624, 306,
                85, 675, 812, 139, 768, 610, 393, 566, 463, 740, 279, 150,
                985, 228, 307, 993, 525, 97, 461, 836, 756, 508, 219, 361,
                51, 423, 593, 538, 560, 935, 276, 518, 542, 628, 232, 125,
                698, 890, 292, 826, 49, 473, 273, 401, 913, 851, 85, 136,
                217, 645, 805, 710, 441, 116, 768, 923, 552, 549, 777, 472,
                903, 371, 380, 566, 904, 174, 878, 156, 510, 702, 718, 20,
                758, 424, 539, 243, 305, 529, 676, 331, 813, 918, 103, 928,
                564, 301, 543, 681, 738, 183, 625, 729, 265, 752, 43, 109,
                12, 725, 272, 318, 253, 944, 490, 758, 820, 158, 53, 820,
                807, 165, 932, 442, 978, 904, 762, 163, 111, 924, 213, 745,
                504, 622, 627, 980, 289, 927, 486, 728, 748, 835, 527, 120,
                631, 899, 180, 795, 71, 155, 598, 3, 977, 8, 331, 936, 261,
                957, 376, 10, 809, 164, 199, 660, 103, 567, 143, 324, 571,
                687, 920, 205, 987, 455, 151, 304, 818, 375, 683, 668, 248,
                432, 430, 758, 788, 731, 495, 143, 512, 171, 64, 677, 864,
                269, 678, 755, 844, 539, 674, 700, 990, 307, 556, 165, 66,
                413, 891, 305, 870, 698, 316, 629, 676, 103, 555, 721, 564,
                284, 152, 184, 279, 701, 210, 487, 573, 707, 252, 742, 742,
                661, 704, 253, 130, 814, 735, 736, 308, 114, 467, 526, 810,
                484, 428, 909, 474, 348, 533, 533, 568, 66, 979, 106, 856,
                353, 804, 611, 247, 626, 622, 739, 275, 107, 480, 794, 417,
                766, 687, 419, 996, 576, 658, 973, 562, 368, 831, 74, 912,
                166, 679, 400, 890, 631, 49, 423, 877, 972, 170, 249, 936,
                231, 552, 830, 647, 751, 289, 221, 381, 663, 549, 861, 84,
                823, 109, 708, 833, 812, 421, 841, 793, 913, 539, 295, 17,
                755, 820, 343, 738, 505, 343, 165, 988, 208, 946, 797, 227,
                938, 274, 828, 855, 356, 488, 668, 28, 155, 653, 466, 157,
                145, 865, 313, 592, 867, 738, 853, 16, 525, 391, 83, 499,
                467, 678, 756, 797, 339, 805, 314, 862, 662, 551, 525, 594,
                694, 113, 425, 968, 839, 763, 610, 70, 783, 918, 350, 437,
                400, 508, 681, 485, 154, 454, 884, 931, 518, 468, 404, 855,
                846, 712, 901, 803, 669, 49, 640, 465, 699, 837, 22, 803,
                911, 736, 356, 171, 210, 291, 505, 192, 815, 446, 475, 377,
                965, 105, 496, 282, 69, 372, 673, 289, 292, 463, 917, 558,
                938, 239, 136, 245, 320, 537, 773, 892, 87, 401, 19, 931,
                801, 508, 96, 861, 103, 797, 321, 664, 116, 31, 537, 76,
                251, 769, 58, 754, 326, 819, 667, 874, 711, 760, 158, 808,
                683, 229, 371, 318, 999, 307, 238, 446, 986, 27, 296, 85,
                892, 706, 129, 590, 450, 760, 483, 177, 377, 621, 595, 324,
                804, 1, 747, 781, 359, 123, 424, 605, 570, 205, 422, 221,
                873, 818, 938, 779, 16, 861, 277, 486, 352, 432, 564, 808,
                215, 689, 231, 343, 493, 398, 354, 594, 445, 62, 261, 883,
                484, 230, 53, 126, 729, 852, 422, 213, 829, 876, 736, 388,
                337, 946, 27, 124, 15, 254, 67, 910, 407, 886, 502, 952,
                855, 232, 756, 165, 677, 330, 201, 476, 94, 924, 292, 654,
                142, 747, 162, 925, 225, 874, 173, 605, 213, 29, 198, 201,
                41, 278, 374, 236, 978, 691, 502, 857, 508, 564, 835, 399,
                465, 254, 775, 374, 363, 724, 152, 784, 896, 597, 997, 875,
                23, 590, 267, 198, 660, 489, 960, 403, 594, 172, 87, 985,
                576, 631, 867, 268, 623, 330, 978, 872, 995, 907, 690, 592,
                836, 804, 28, 440, 434, 546, 476, 480, 681, 292, 863, 277,
                691, 48, 968, 63, 968, 938, 561, 91, 481, 122, 744, 853,
                922, 987, 934, 364, 992, 279, 663, 353, 943, 248, 548, 800,
                828, 12, 878, 133, 157, 802, 405, 968, 408, 928, 300, 65,
                758, 159, 339, 187, 498, 984, 884, 426, 274, 680, 475, 279,
                87, 638, 478, 823, 517, 739, 590, 951, 537, 642, 15, 259,
                564, 830, 429, 72, 381, 132, 131, 470, 31, 956, 617, 928,
                607, 112, 974, 743, 639, 247, 441, 932, 666, 683, 94, 786,
                144, 941, 855, 983, 56, 195, 497, 54, 871, 181, 861, 343,
                233, 463, 532, 370, 367, 22, 686, 885, 53, 183, 330, 293,
                750, 688, 152, 782, 133, 830, 751, 643, 39, 845, 780, 848,
                418, 27, 390, 16, 691, 491, 29, 675, 215, 126, 918, 944,
                882, 198, 334, 969, 75, 839, 698, 718, 148, 340, 442, 617,
                739, 560, 646, 799, 29, 301, 206, 296, 579, 815, 495, 656,
                625, 939, 51, 909, 30, 278, 350, 786, 129, 81, 24, 43, 443,
                196, 886, 481, 207, 592, 819, 248, 355, 67, 355, 136, 39,
                771, 432, 683, 20, 61, 954, 914, 367, 942, 702, 165, 6, 18,
                265, 571, 270, 897, 495, 676, 117, 689, 965, 501, 303, 885,
                188, 491, 131, 584, 504, 914, 939, 375, 134, 796, 935, 472,
                357, 832, 985, 322, 945, 309, 802, 295, 781, 793, 406, 572,
                740, 369, 279, 725, 808, 57, 218, 105, 686, 823, 386, 163,
                218, 869, 198, 912, 819, 373, 496, 747, 124, 484, 386, 983,
                80, 499, 194, 257, 554, 578, 670, 881, 727, 575, 465, 285,
                610, 123, 593, 571, 403, 561, 599, 168, 80, 540, 541, 630,
                19, 171, 871, 711, 508, 137, 694, 395, 406, 268, 517, 851,
                996, 320, 103, 132, 410, 674, 852, 348, 711, 350, 750, 772,
                199, 517, 437, 657, 843, 688, 572, 978, 381, 55, 875, 346,
                839, 430, 326, 176, 554, 542, 253, 143, 52, 368, 424, 711,
                915, 481, 830, 685, 241, 161, 424, 750, 192, 885, 636, 893,
                312, 746, 586, 76, 933, 855, 42, 153, 396, 864, 381, 844, 9,
                275, 21, 960, 228, 760, 67, 147, 228, 294, 710, 121, 957,
                60, 521, 217, 90, 263, 126, 747, 751, 744, 549, 531, 783,
                252, 311, 474, 246, 29, 938, 80, 721, 916, 227, 918, 95,
                894, 466, 57, 581, 578, 655, 973, 260, 67, 805, 706, 954,
                921, 884, 722, 980, 714, 805, 718, 611, 355, 372, 459, 53,
                887, 131, 873, 970, 218, 314, 943, 333, 557, 45, 260, 491,
                349, 938, 338, 551, 714, 998, 337, 271, 262, 40, 947, 186,
                291, 631, 580, 99, 262, 848, 817, 109, 78, 368, 587, 768,
                204, 177, 168, 86, 536, 902, 741, 499, 25, 175, 503, 8, 980,
                210, 456, 276, 600, 734, 817, 601, 364, 749, 331, 799, 282,
                69, 814, 320, 95, 733, 591, 623, 805, 18, 999, 230, 257,
                454, 720, 795, 816, 20, 356, 719, 494, 167, 965, 337, 299,
                174, 271, 913, 161, 569, 164, 776, 598, 532, 865, 251, 566,
                307, 904, 671, 501, 542, 333, 810, 539, 964, 88, 362, 305,
                949, 75, 780, 529, 14, 549, 298, 235, 140, 599, 821, 663,
                943, 371, 340, 106, 350, 335, 733, 283, 537, 952, 121, 787,
                942, 833, 694, 666, 871, 394, 392, 661, 12, 332, 182, 315,
                889, 362, 265, 812, 494, 819, 532, 820, 468, 506, 399, 929,
                106, 908, 822, 348, 63, 433, 644, 329, 793, 755, 588, 858,
                380, 110, 163, 14, 232, 489, 352, 655, 91, 349, 662, 445,
                414, 266, 413, 871, 904, 556, 615, 733, 84, 47, 220, 550,
                391, 902, 631, 866, 890, 207, 522, 613, 77, 499, 501, 450,
                143, 730, 103, 710, 995, 19, 475, 16, 19, 753, 53, 778, 375,
                796, 673, 975, 247, 379, 122, 806, 255, 66, 503, 849, 998,
                299, 612, 694, 994, 756, 751, 134, 351, 436, 853, 758, 674,
                88, 707, 405, 949, 635, 886, 214, 433, 836, 574, 994, 990,
                697, 644, 504, 738, 582, 712, 306, 431, 665, 128, 361, 95,
                67, 503, 303, 633, 713, 426, 274, 455, 417, 998, 186, 923,
                584, 483, 816, 782, 807, 807, 869, 535, 862, 59, 533, 79,
                181, 650, 639, 112, 517, 312, 181, 77, 959, 184, 401, 441,
                895, 848, 535, 604, 494, 19, 612, 624, 504, 819, 191, 559,
                947, 311, 201, 573, 670, 797, 769, 803, 822, 757, 894, 952,
                564, 362, 954, 515, 249, 353, 799, 180, 35, 591, 240, 374,
                946, 946, 781, 47, 541, 442, 357, 132, 188, 193, 457, 938,
                118, 383, 39, 956, 900, 644, 238, 522, 459, 573, 994, 950,
                929, 103, 405, 282, 117, 105, 458, 548, 788, 120, 334, 952,
                252, 512, 246, 858, 673, 655, 6, 619, 49, 144, 416, 700,
                658, 825, 19, 710, 648, 188, 996, 496, 513, 787, 655, 329,
                770, 864, 198, 686, 342, 420, 840, 879, 907, 417, 860, 172,
                798, 459, 465, 440, 922, 603, 969, 646, 471, 663, 309, 514,
                438, 434, 153, 194, 201, 252, 566, 747, 315, 177, 555, 301,
                92, 392, 88, 576, 447, 848, 836, 900, 428, 813, 950, 499,
                414, 700, 339, 847, 398, 278, 325, 904, 499, 66, 850, 192,
                822, 28, 243, 787, 961, 662, 406, 377, 670, 252, 624, 172,
                941, 428, 78, 666, 826, 433, 908, 813, 810, 412, 122, 296,
                115, 470, 152, 294, 330, 620, 84, 650, 946, 402, 98, 867,
                170, 862, 271, 897, 235, 620, 408, 696, 306, 678, 767, 314,
                421, 908, 405, 567, 816, 816, 182, 43, 398, 231, 489, 10,
                90, 126, 41, 530, 772, 490, 826, 658, 282, 910, 878, 932,
                59, 758, 752, 309, 574, 662, 459, 512, 110, 914, 636, 580,
                287, 102, 525, 938, 945, 573, 54, 521, 488, 163, 673, 926,
                283, 182, 881, 758, 308, 536, 593, 487, 562, 158, 152, 309,
                178, 895, 881, 308, 485, 222, 175, 124, 517, 237, 904, 478,
                895, 435, 871, 86, 899, 483, 385, 53, 874, 930, 200, 757,
                633, 581, 363, 512, 261, 791, 849, 343, 612, 661, 719, 585,
                350, 251, 773, 976, 20, 183, 194, 575, 7, 59, 631, 983, 330,
                902, 795, 9, 881, 133, 773, 515, 138, 640, 697, 558, 812,
                503, 42, 159, 368, 320, 419, 174, 688, 125, 796, 957, 168,
                577, 443, 626, 919, 504, 758, 968, 267, 398, 474, 368, 122,
                622, 76, 913, 113, 130, 916, 533, 878, 260, 813, 813, 849,
                542, 790, 875, 647, 312, 403, 163, 294, 441, 407, 909, 621,
                834, 365, 158, 95, 429, 771, 184, 113, 607, 155, 576, 149,
                74, 414, 907, 682, 528, 456, 315, 275, 303, 44, 191, 829,
                992, 301, 18, 499, 387, 617, 552, 528, 613, 559, 147, 657,
                71, 6, 775, 740, 758, 685, 48, 147, 307, 274, 426, 211, 909,
                294, 262, 408, 968, 173, 879, 62, 616, 302, 983, 477, 163,
                895, 832, 51, 189, 890, 626, 838, 181, 987, 997, 490, 825,
                549, 712, 997, 115, 646, 288, 915, 858, 990, 987, 279, 301,
                638, 455, 69, 66, 191, 762, 979, 893, 706, 916, 37, 763,
                992, 784, 322, 168, 177, 646, 841, 169, 502, 375, 973, 975,
                22, 206, 613, 163, 154, 132, 474, 310, 238, 171, 355, 113,
                889, 53, 553, 666, 230, 970, 563, 887, 287, 584, 528, 540,
                56, 412, 435, 544, 443, 139, 760, 555, 214, 507, 276, 541,
                320, 800, 924, 563, 300, 95, 768, 535, 842, 627, 289, 199,
                851, 272, 26, 442, 320, 437, 348, 584, 241, 795, 93, 480,
                734, 831, 146, 71, 991, 684, 88, 321, 397, 889, 396, 938,
                697, 471, 389, 190, 49, 145, 237, 119, 297, 615, 199, 486,
                677, 943, 291, 695, 913, 995, 791, 435, 998, 327, 982, 171,
                67, 999, 445, 612, 461, 214, 786, 97, 675, 314, 46, 269,
                707, 250, 374, 96, 232, 168, 42, 408, 50, 569, 432, 522,
                252, 61, 479, 685, 755, 87, 512, 938, 42, 45, 227, 137, 247,
                458, 800, 993, 955, 905, 370, 936, 232, 936, 930, 957, 789,
                492, 677, 103, 534, 653, 640, 246, 314, 229, 102, 677, 101,
                313, 718, 613, 738, 837, 153, 351, 639, 34, 954, 201, 21,
                462, 437, 493, 904, 192, 599, 708, 980, 248, 106, 561, 468,
                568, 187, 687, 357, 743, 182, 881, 192, 990, 860, 188, 87,
                624, 160, 491, 673, 510, 158, 923, 641, 604, 101, 827, 796,
                644, 349, 287, 675, 564, 512, 819, 145, 950, 903, 766, 263,
                731, 547, 459, 671, 904, 742, 568, 985, 586, 438, 532, 215,
                350, 537, 276, 296, 451, 67, 930, 530, 732, 777, 990, 653,
                433, 342, 380, 12, 578, 50, 578, 700, 447, 530, 442, 885,
                978, 560, 644, 793, 494, 770, 839, 772, 945, 989, 809, 606,
                74, 734, 15, 122, 356, 891, 150, 327, 0, 598, 927, 986, 831,
                906, 721, 33, 317, 112, 985, 430, 918, 720, 145, 260, 7,
                165, 351, 338, 463, 93, 774, 209, 278, 543, 257, 544, 450,
                44, 562, 758, 216, 992, 525, 940, 381, 863, 732, 388, 417,
                190, 781, 629, 499, 582, 973, 992, 625, 151, 0, 326, 238,
                382, 409, 46, 793, 189, 900, 626, 957, 789, 145, 546, 244,
                126, 377, 641, 642, 943, 702, 415, 533, 796, 345, 6, 617,
                153, 253, 818, 675, 506, 991, 198, 331, 847, 147, 311, 15,
                657, 723, 485, 478, 171, 485, 526, 663, 472, 357, 931, 819,
                961, 580, 568, 933, 607, 674, 505, 741, 683, 512, 428, 449,
                830, 768, 23, 745, 645, 759, 735, 716, 915, 267, 402, 748,
                183, 356, 718, 46, 604, 55, 515, 87, 538, 367, 350, 976,
                961, 303, 4, 285, 770, 877, 521, 424, 435, 424, 179, 353,
                700, 699, 689, 715, 189, 842, 105, 460, 857, 264, 394, 405,
                913, 207, 745, 650, 861, 126, 971, 482, 416, 206, 796, 234,
                463, 513, 271, 620, 47, 40, 641, 17, 576, 76, 874, 269, 668,
                400, 564, 169, 936, 529, 617, 197, 100, 902, 872, 78, 60,
                884, 332, 739, 113, 654, 116, 458, 399, 4, 843, 793, 908,
                289, 684, 451, 70, 419, 116, 313, 71, 621, 337, 444, 210,
                424, 856, 872, 662, 967, 50, 602, 771, 45, 825, 671, 731,
                153, 669, 480, 775, 288, 690, 389, 783, 127, 880, 678, 271,
                52, 976, 966, 335, 574, 253, 165, 405, 21, 647, 45, 389, 11,
                390, 150, 733, 555, 662, 115, 988, 47, 434, 928, 133, 824,
                555, 462, 24, 529, 747, 728, 921, 260, 969, 272, 760, 388,
                575, 81, 776, 975, 179, 35, 310, 344, 350, 309, 419, 621,
                569, 236, 200, 262, 666, 158, 748, 105, 196, 27, 678, 243,
                91, 682, 971, 540, 555, 491, 300, 534, 54, 462, 534, 534,
                566, 947, 53, 506, 134, 771, 586, 425, 277, 338, 626, 825,
                375, 82, 485, 123, 819, 719, 535, 815, 395, 877, 502, 667,
                282, 459, 822, 463, 114, 832, 555, 221, 701, 521, 25, 894,
                423, 636, 590, 974, 10, 102, 908, 626, 551, 369, 280, 886,
                989, 30, 329, 807, 124, 735, 691, 541, 340, 675, 131, 599,
                126, 815, 113, 193, 73, 160, 137, 247, 585, 619, 779, 677,
                442, 366, 174, 65, 808, 65, 502, 936, 537, 552, 142, 856,
                606, 554, 755, 514, 360, 492, 722, 897, 781, 585, 632, 307,
                532, 806, 380, 732, 463, 842, 23, 938, 866, 214, 588, 304,
                455, 105, 429, 186, 597, 502, 120, 765, 269, 326, 279, 55,
                667, 153, 28, 586, 805, 185, 366, 921, 267, 281, 360, 577,
                479, 540, 352, 793, 535, 825, 874, 322, 607, 540, 591, 447,
                910, 191, 736, 538, 390, 627, 177, 201, 56, 445, 968, 738,
                364, 9, 743, 64, 257, 664, 624, 262, 655, 999, 677, 869,
                839, 777, 548, 712, 76, 50, 824, 498, 500, 147, 364, 399, 9,
                685, 212, 93, 177, 96, 369, 861, 139, 548, 975, 898, 274,
                559, 605, 573, 255, 290, 305, 234, 964, 65, 125, 528, 596,
                171, 868, 29, 812, 561, 298, 590, 353, 129, 799, 63, 288,
                371, 584, 766, 521, 670, 658, 586, 465, 607, 831, 93, 128,
                600, 705, 346, 603, 486, 861, 430, 249, 600, 550, 501, 712,
                562, 305, 960, 213, 596, 907, 46, 355, 400, 407, 934, 590,
                512, 701, 191, 12, 205, 536, 127, 476, 853, 444, 467, 322,
                907, 826, 519, 321, 789, 632, 366, 957, 645, 172, 403, 363,
                656, 581, 104, 282, 695, 837, 522, 833, 596, 425, 100, 568,
                594, 287, 694, 18, 869, 929, 164, 446, 404, 414, 872, 542,
                885, 349, 69, 915, 842, 683, 48, 77, 101, 657, 520, 215,
                235, 475, 549, 430, 422, 939, 370, 568, 207, 885, 820, 220,
                30, 584, 617, 748, 101, 283, 373, 20, 380, 19, 854, 515,
                650, 276, 705, 407, 243, 864, 364, 330, 272, 426, 725, 826,
                855, 310, 916, 202, 654, 489, 558, 731, 935, 338, 714, 91,
                541, 871, 392, 311, 825, 839, 382, 247, 680, 445, 857, 664,
                49, 349, 626, 852, 212, 901, 931, 939, 725, 918, 776, 492,
                249, 609, 302, 482, 834, 436, 619, 105, 822, 626, 25, 281,
                196, 913, 166, 412, 154, 677, 882, 795, 113, 127, 651, 72,
                469, 63, 120, 337, 64, 375, 19, 719, 931, 453, 297, 777, 24,
                915, 609, 988, 445, 562, 991, 979, 551, 248, 969, 419, 561,
                894, 327, 858, 127, 492, 451, 694, 636, 860, 137, 252, 199,
                739, 357, 724, 566, 753, 550, 693, 104, 355, 408, 290, 605,
                76, 421, 236, 478, 461, 491, 900, 53, 874, 920, 855, 853,
                18, 770, 31, 629, 469, 698, 994, 836, 740, 291, 641, 716,
                117, 127, 792, 894, 185, 207, 668, 970, 302, 235, 660, 7,
                560, 340, 475, 278, 267, 349, 402, 668, 708, 256, 923, 13,
                66, 400, 913, 998, 588, 367, 937, 423, 874, 106, 209, 36,
                297, 808, 135, 949, 202, 515, 157, 947, 82, 316, 221, 159,
                310, 818, 831, 958, 473, 818, 312, 608, 619, 683, 160, 918,
                512, 699, 717, 231, 376, 699, 694, 986, 731, 907, 810, 357,
                340, 815, 629, 563, 34, 572, 351, 284, 172, 318, 399, 683,
                36, 465, 412, 460, 888, 520, 72, 815, 860, 456, 902, 207,
                106, 936, 308, 445, 649, 323, 70, 182, 847, 101, 163, 387,
                125, 658, 294, 779, 637, 460, 438, 344, 201, 567, 362, 667,
                110, 914, 551, 896, 322, 711, 228, 935, 185, 513, 406, 845,
                312, 255, 683, 819, 242, 224, 857, 224, 86, 843, 910, 781,
                681, 754, 695, 739, 607, 131, 751, 218, 482, 172, 907, 806,
                583, 403, 181, 900, 95, 484, 542, 384, 3, 703, 845, 112,
                853, 239, 345, 247, 162, 593, 43, 505, 489, 46, 551, 31, 63,
                361, 589, 534, 606, 378, 298, 358, 536, 471, 852, 69, 313,
                4, 31, 950, 994, 806, 559, 346, 416, 634, 314, 397, 832,
                790, 396, 724, 591, 881, 45, 918, 692, 490, 459, 748, 971,
                410, 717, 889, 454, 165, 530, 527, 595, 748, 510, 133, 742,
                547, 213, 856, 119, 148, 173, 943, 211, 223, 610, 770, 52,
                460, 984, 358, 280, 773, 521, 424, 895, 781, 693, 329, 151,
                677, 293, 963, 148, 428, 36, 7, 892, 204, 811, 291, 311,
                341, 648, 970, 853, 822, 548, 351, 128, 126, 230, 863, 633,
                432, 714, 458, 429, 24, 778, 770, 493, 667, 720, 527, 288,
                254, 857, 272, 482, 308, 300, 621, 496, 544, 187, 507, 485,
                926, 27, 551, 857, 448, 662, 975, 904, 213, 503, 691, 452,
                630, 817, 393, 128, 519, 846, 700, 94, 577, 678, 711, 417,
                350, 593, 941, 343, 313, 667, 895, 478, 635, 663, 131, 511 >>,
            z |-> << 12873, -3907, -3865, 949, -10233, 949, -10233, -1395, 11742,
                758, 15790, 758, 15790, -1785, 9196, -2599, -12068, 5998,
                -3530, 4068, 6943, 7454, 1425, -4042, 16032, 9631, 5822,
                -2083, 5822, -2083, 13731, 4653, -2556, 3583, -14250, -9986,
                -14250, -1468, 3337, 6198, 3337, 6198, -9244, -867, 18156,
                7631, -177, 11440, -481, -19476, -481, -19476, -6770, 3186,
                4205, -11650, -443, -11650, -5613, 2307, -5613, 2307, -5613,
                2307, -5613, 2307, -8321, -887, 14500, -615, 14500, 7922,
                -8609, -6500, -10511, 18749, -10395, 1985, 310, -8605,
                11477, -6065, 17167, 5896, 1627, -25671, 1627, -25671,
                -4036, -693, 14450, -14762, 7451, -14762, 7451, -14762,
                -12642, -13230, -8983, -13230, -8983, -13230, 13023, 8420,
                3361, -14009, 10422, 659, 22400, 8643, 2159, -5125, -326,
                -5125, -326, -16924, 8357, -4071, -13370, 1009, -13370,
                4878, 13976, -9717, -11219, -9717, -11219, -4830, -11219,
                -4830, -7976, -2320, -9998, 5797, 7989, 1061, 7989, 17246,
                -10252, -2128, 6774, 541, -2502, -4453, -2502, -4453, 19415,
                -5239, 1164, -7785, 4624, 3768, -12369, -9525, -12369,
                -17054, -4737, -17183, 8533, 10703, -4858, 3564, -12646,
                -3483, 3753, -6502, 3753, -6502, -2717, -16643, 336, 32579,
                -21922, 8572, -19796, 948, -26373, 17910, 7201, 20253,
                11953, -10392, 4910, 4830, 8449, 2074, -8664, 2074, -8664,
                8644, -8960, 6067, -17721, 456, -17721, 8427, -3264, 8828,
                4866, -5384, 4866, -3546, -4956, -3546, 15046, 127, 15046,
                -17825, 5773, 5917, -837, 8997, -263, 15180, 7141, 11012,
                -1066, 11012, -4358, -8617, 293, 1423, 293, 1423, 293, 1423,
                24217, 11680, -5636, 8144, 6135, -8615, -4481, 5450, 1928,
                5450, -18277, -8998, -12095, -5817, -3050, -2270, 16885,
                10002, 15879, -3746, -647, -3746, -647, 22409, 9686, 3598,
                -4155, 9436, -2089, 9436, -4522, -12762, -7620, 10763, 7239,
                11671, 10578, -5437, -544, -5437, -544, -30218, 16891,
                -7741, 582, -7741, 1857, 14449, 1857, 14449, -1626, -16783,
                -1570, -2385, -1570, -2385, 16106, -5743, 12064, 4962, 6347,
                -2644, 14070, -2644, 14070, -3690, -9128, 13883, 3585,
                13883, 3378, -6471, -10077, 4381, -10077, -14832, -6301,
                5445, -6301, 5445, 3713, 1953, 8495, 3256, 5614, -11878,
                3775, -11878, 3775, -11878, 3775, 4774, 4499, 4774, -2523,
                -3689, -2523, -10186, -481, -10186, 26101, 14087, 5370,
                -22826, -184, -22826, 19335, 15624, -10143, 15582, -4368,
                -25264, 106, -25264, 106, -25264, 20865, 9783, -16201,
                -9221, -5900, 10658, 4837, -13085, -1883, 21025, -12867,
                10601, 6136, 5923, 7652, 6541, 1372, 11491, 4714, -410,
                -26841, -410, -26841, -410, -26841, -19448, -5671, -8580,
                2406, -8580, -13448, 1196, -13448, 1196, -13448, 4457,
                -15797, 6873, 2023, -17395, -8494, -15586, 3552, 14316,
                3552, 14316, 16356, 5337, -13977, -82, 1083, -82, 38830,
                -13380, -4162, 12330, -4162, 12330, -2993, 15463, 8157,
                9790, -1371, -9339, -2911, -6804, 12315, -5223, -12505,
                10171, 16570, 19534, 11204, 16114, -742, 15090, -9870,
                -1625, -9870, -3885, -7242, 6320, 4843, 6320, 1487, 4574,
                -16742, 8509, 6902, 3078, -6005, 1541, 24947, -15678, 14701,
                -16727, -2008, 22300, 8915, 17724, 8998, -3983, -3592, 3881,
                -13800, 3881, -13800, 6664, -4059, 1684, 1063, -11710,
                10492, -14760, 12498, -7784, 8631, -3812, -3257, 3646,
                15567, -9755, 15567, -9755, 2753, -17816, -1013, -28525,
                -10360, 3496, 10591, 1773, 8438, 7306, 8438, 7306, -6675,
                11104, 6649, -9846, -3310, -18354, -9294, -1136, -6935,
                -1136, -6935, 5546, 9840, 5546, 9840, 12734, -7409, 6623,
                264, -10369, 264, -10369, 264, -10369, 1980, -5729, -12218,
                -3765, 16896, -15610, -7182, 6463, 6226, 7549, -13545,
                12712, 2518, 12712, -1573, -18924, -8121, 1081, -1441,
                -19408, 1704, 25165, 15446, -2640, -399, 2567, 6175, 2567,
                6175, 2567, 6175, 6746, 4046, -24889, -16330, -12681, 12807,
                16260, -10717, 884, 21008, -68, 31397, -68, 31397, -13389,
                -5119, 13036, 8954, -3224, 286, 21622, 12769, -11102, -4036,
                -2620, 11012, -2620, 11012, 5213, 7964, 778, -16202, 7104,
                2140, 15191, 5066, -4079, 10683, -3892, -18573, 15257,
                12282, -13329, -13805, 8159, 6741, 6755, 2138, -9267,
                -19279, 11548, 10223, -6303, 7559, 8223, 8658, 8223, 8658,
                -12085, -11537, -6095, -9377, 8241, 2445, -13307, 2445,
                -13307, 2445, -13307, 2445, -13307, 13484, -6165, 796, 4150,
                -1424, 9346, -1424, 9346, -7980, 10111, -7980, 10111, -3219,
                -18080, -592, -18080, 9070, 5815, 9070, 5815, -14221,
                -12538, 1323, -12538, 2972, 17145, -37, 11828, -37, 11828,
                -7650, -1073, -7650, -6972, -2213, -6972, -2213, -6972,
                -2213, -6972, 13894, 3499, 13894, -5268, 18177, -5268,
                18177, -5268, 18177, 11176, -10503, 1644, -11562, 4229,
                8941, 3631, -8296, 270, 5633, -1026, -14044, -3039, 18632,
                9453, 3661, 6619, -4197, -6316, -4197, 4758, -5227, -14056,
                -4065, -3869, 14535, -3869, 14535, -3869, 14535, -8216,
                -13147, -2270, -13147, 6176, 15557, -18353, -10821, 10349,
                -5074, 1055, -5074, 2007, -21709, 3542, 822, 8507, 7532,
                -1699, 7532, 146, -16510, 146, -16510, 6378, 4524, 5483,
                8543, 5483, 8543, 9850, -485, 16666, -7993, 5136, 15946,
                13661, 6238, -180, 6238, -180, 9128, -146, -25003, 14327,
                4887, -8623, 21548, 1080, 21548, -19218, -9426, -6362, 85,
                -6362, -10960, -622, -10960, -622, -10960, -8601, 5811,
                12039, -4811, 12039, -8101, -627, -18000, 7918, 4784, -260,
                9116, -260, 9116, 3527, -2930, 3527, -5476, 3527, -5476,
                2693, 9211, -3445, -838, 8734, -468, -10964, -468, -10964,
                -9250, -3766, 8305, -11257, -727, -11257, -2969, -818,
                17408, -818, 17408, -5646, -3237, 5189, 1166, -20719, 4458,
                588, 5304, -255, -26010, 15003, -5011, 3123, -136, -9757,
                3175, 5084, -13191, 17680, 2028, -6952, 2028, -6952, 6143,
                -2423, -10185, 16769, -768, 16769, -8278, -11941, -10777,
                -1519, -13613, 5902, 3271, 7045, -5582, 7045, -6953, -3306,
                16577, 3617, 1525, -14881, 1525, -14881, 4697, 347, -29501,
                17636, -7027, -2558, 5178, -2321, 5327, -22930, -49, -22930,
                -13030, 6955, -2132, -6620, -16298, -8486, -8309, -10573,
                -10928, -9400, 5271, 11044, -4152, 10972, -9220, -4461,
                7702, -4053, 491, 12632, 4605, 12880, 4605, 12880, 2654,
                2399, 16588, 2399, 16588, 2399, 16588, 15391, 15163, 18421,
                -12578, -7378, 5265, -1479, 3841, -1479, 3841, -1479,
                -16861, -3522, -946, 17951, -6670, -16429, 2894, -16429,
                10049, 8354, -5720, 1810, -20268, 5673, -7873, -8305, -7873,
                -18009, 10507, 11614, -1771, 11614, -19874, -16753, 12548,
                4925, -20640, 14898, -2119, -1684, 13210, -398, -17503,
                4355, 9329, -3739, 9329, -11750, -19779, 615, -19779, 5716,
                -21385, -17031, 5018, 17467, -868, -20619, 10100, -10958,
                3162, -10958, 3162, -5251, -1097, -8140, -25529, 502,
                -25529, 11238, -12305, -2904, -12305, 8697, 8881, -4467,
                3128, 7839, 3128, 7839, -1433, -3865, -1433, -3865, 5527,
                -3865, 5527, -3865, -12116, 1053, 18916, 9990, 3130, 15313,
                -3121, 15313, -2193, 16917, -1825, 16917, 5131, -3697,
                -8188, -3697, -8188, -5600, -8188, -5600, -10679, -5600,
                -10679, 2766, 12216, -11355, 1523, -11355, 2628, -693,
                -6139, -693, -6139, 7123, 372, 7123, 122, -28543, -6989,
                -9177, 7390, -9177, -3834, 7322, -3873, -3102, -2146, 9219,
                -1404, 9267, -1404, 9267, -1395, 6346, 5442, -8909, -7008,
                2098, -7008, 4363, -9374, 2687, -19323, -11518, -1065,
                -15100, -3320, -18039, -6600, -2635, -4436, 3223, -1648,
                3223, -19055, -2271, -6997, -20441, 4588, -1187, 4738,
                -1187, 19121, -8590, -12499, 4015, 12607, -1036, 12607,
                5856, -5156, 12918, -5156, 12918, -8214, -3883, 9722, 9363,
                9722, 3047, -13212, 3047, -13212, -6778, -13321, -6508,
                -13028, -4914, -1214, 13542, -1214, 13542, -1214, 13542,
                5822, 12510, 16493, -6042, 17942, -12297, 4010, -14865,
                -14600, -6747, -5929, 8026, -5929, 8026, 3302, -10404, 3302,
                -10404, 3302, -10404, 3644, -11683, -2481, 19754, 1603,
                19754, -14448, 2987, 2866, -2243, 14095, 3746, 15376, -8442,
                11969, 3863, 1015, -7634, -9866, 6548, -9866, -13329, 8220,
                -12793, 2381, -12793, 2381, -12793, -31046, 13, -31046,
                22490, 9469, 2454, 3947, 2454, -3688, 13092, 1752, 13092,
                -1262, 13092, -26811, -245, -26811, -245, -26811, -24553,
                15248, 21450, 23034, -14705, 4741, -8168, 4741, -8168,
                -2238, -13604, -2238, -13604, 8271, -7178, 7107, 8063,
                -12215, 11207, 5567, -12557, -5404, -10079, 8799, 4457,
                -17865, 9835, 6799, 9743, -11946, -12353, -9347, -6887,
                3064, -11689, 3064, -11689, -2269, 26676, -2269, 26676,
                17776, 6451, -16582, -968, -16582, -11966, 3990, 13944,
                10480, 8733, 4601, 1644, 15970, 1644, 15970, 3648, -2553,
                3648, -2553, 5954, -4068, 5059, -19736, 960, -19736, 3439,
                -6549, -4259, -6549, -13492, 6424, 5913, 12367, 4363,
                -13630, 7277, 6699, 4618, 11730, -5497, 3647, 1602, -8063,
                6856, 3644, 6856, 3644, 6856, -3847, 4592, -3847, 4592,
                -3847, 3601, -12970, 8440, 8197, 9249, 4591, -4706, 4591,
                -4706, 4591, -4540, 8460, -5191, -9341, 7850, -2424, 7850,
                -14140, -8801, 17651, -9574, -1317, 6931, 220, 10736, 2236,
                -5651, 714, -18490, -10487, -1960, -7732, -3678, -7732, 385,
                -14861, 6371, 3755, 5826, -16279, 4597, 6546, 2173, 6546,
                20798, 1662, 20798, -1583, 884, -1583, 884, 1568, -8461,
                1568, -8461, -6853, 4768, -231, 29533, -5208, -626, -13664,
                -626, -13664, -626, -13664, -9451, -255, 28577, -255, 28577,
                -255, 28577, 8951, 260, -4780, 260, -9425, -5176, -6819,
                -5176, -6819, 5138, -8926, 9025, 11817, -5256, -2338, 15442,
                -2338, 15442, -6506, 13253, 6647, -2475, -11641, -4645,
                1253, 5265, 7209, 5265, 7209, 5265, -11289, -4236, -5619,
                14463, 7479, -8885, 9094, -8131, 9094, -8131, -4666, -4409,
                1593, -16390, 1593, -16390, 1593, -16390, 5298, -1358,
                -4245, -718, -4206, -14441, -4206, -14441, -4206, -14441,
                -4206, -14441, -11496, -4289, 6306, 5894, 6306, 5894, 6306,
                5894, -18785, 18368, 14970, -7450, 10982, 8746, 7635,
                -12573, 7635, -12573, 10774, 3135, 17117, -1610, 5571,
                -9742, -3855, -9742, -6978, -1984, 4431, 7929, 4431, 7929,
                8259, -2829, 14945, -11819, 13825, -364, 13825, 1007,
                -27144, -19387, -6457, 1140, 17358, 4297, 14372, 6758, 6930,
                -4153, -16185, -4570, -23713, 12617, -5784, -4289, 15527,
                7239, 4319, 5375, 12793, 2218, 12793, 1132, -3226, 1132,
                -3226, 1132, -18519, 3068, 11720, 1808, 5080, -709, 21009,
                -709, 21009, 8509, -82, 9141, -1920, 7683, -9009, -5071,
                -19325, -6157, -8299, 1994, -7893, -5258, -1983, -5258, 76,
                11368, 76, 11368, 4351, 13674, 17497, 16330, 10915, -7401,
                -13286, 10583, -1980, 5063, 11888, -10650, 6095, -11488,
                -2702, -11488, -2702, -11488, -4349, 21758, -10786, 18918,
                17894, 14582, 8876, 2461, -4925, -4123, 1542, 9258, 3459,
                -5962, -2922, 863, -2922, 863, -2922, 863, -7991, 15716,
                -7991, 11755, -10574, -3969, -7687, 1127, -1242, 1127,
                22133, -5847, -15012, 6670, -15012, 6670, -15012, 8338,
                -7184, -5489, -1286, 13106, -8315, -7518, -4133, -170, 3903,
                -170, -21356, 9524, -6180, 9524, -6180, -9073, -2053,
                -15259, 9111, 9241, 11552, 3229, -19879, 3229, -19879,
                -6566, -1126, -20550, -19099, 7904, -3243, 16200, 802,
                16200, -3363, 1607, -11811, 773, 15704, 773, 15704, -7113,
                -918, -17688, -5279, 1140, 6566, 1140, 6566, 1140, 6566,
                1140, -13857, 7473, 3940, 7473, 3940, -692, 618, -4239, 413,
                -10024, 413, -10024, -11132, -14713, -10769, -2892, 17516,
                -13600, 6001, -118, -3692, 2333, -5031, 2333, -12489,
                -10282, -7963, 11989, -7963, 11989, 167, 11989, 17359, -64,
                17359, -8595, 11851, 8478, -2558, -12255, 6854, -12255, 274,
                -12255, 5504, -10071, 3179, -19701, 15369, 3825, 10295,
                -6448, 2308, -6448, 2308, 20004, -7471, 5427, 5023, 5427,
                13295, -7732, -710, -14910, -4906, 1183, -19852, 1183,
                -19852, 10189, -15689, -10784, -7727, 15269, 8534, -12710,
                3562, -3823, 1727, -3823, 1727, -3823, 1727, -2257, 5648,
                13976, 5648, 13976, -15481, 9931, 4839, 999, 13530, 1884,
                13530, 1884, 13530, -4610, -3353, 12524, 730, 12524, -14410,
                4947, -14410, 4947, -14410, 4947, -14410, 7769, -1706, -868,
                -13777, -3607, 1859, 5635, -8210, 1463, 24790, -19332, 5645,
                -688, -3057, 9203, -3057, 9203, 1308, -19237, 19440, -10966,
                5709, -13451, 4631, 12154, -4396, 12154, -7836, 4444, 6282,
                -3502, -860, -3502, 4911, -2771, 4911, 11644, 7487, -7748,
                617, -7748, 617, -7748, 9232, -306, 9232, -306, 9232,
                -22807, 32, -22807, -8876, -2538, -9235, -6156, -9235,
                -6156, -9235, -6156, 2875, -461, 12401, -18251, 13332, 5146,
                598, 5146, 598, 7219, 598, 7219, -3281, 5797, -10893, -8470,
                3713, -5434, -1979, 4458, 7110, -7465, -11896, -3644, 12188,
                73, 18513, -5302, -2642, 7227, -14703, 1162, -14703, -5908,
                -2308, -5046, 10417, 3340, 9830, -1801, -2981, -5907, -8500,
                -4166, 3675, -13320, -9088, 3207, -357, 3207, -357, -5680,
                -10333, -5680, -10333, 5523, 1228, 7816, -877, -3878, 100,
                -952, -4136, -2950, -4136, -3116, -4136, 6414, 2581, 9827,
                -2411, -19787, 15583, -1664, 4540, 2551, -19921, 2551,
                -19921, 2551, -19921, -4267, 8328, -4267, 8328, -4267, 8328,
                2965, 7657, 15739, 2722, 15739, 2722, 15739, 15486, 10610,
                -4193, -262, -4193, 467, 5883, -13970, 17124, -9008, -4882,
                17464, -8854, 3794, -10571, 3794, -10571, -4938, 1372, 467,
                1372, 467, 20092, 20064, 8960, -2854, 16664, 18343, -4265,
                21578, 619, 22938, -10087, -6654, -1724, 7966, -5570, 23880,
                1002, 23880, 1002, 23880, 10946, 4526, -8050, -12051, 481,
                -12051, -8068, -2484, 10500, -4242, -428, -7661, -569,
                -9244, 1666, -5442, 4645, -7820, 9342, 11055, -16043, 15366,
                14079, -9644, 10921, 3578, -9918, -563, -9918, -3161, 11830,
                -768, -27403, 10745, -4099, -8792, -8330, 2992, 827, 5843,
                827, 10489, 10893, 2571, 10893, 18824, 541, 18824, 10857,
                5675, -4478, 8095, -1526, -10648, -1526, -10648, 23970,
                -813, 23970, 4718, -1936, -16235, -1936, -16235, -9954,
                4620, 12624, -254, 12624, 6519, -7248, 3712, 1529, 27350,
                1529, 27350, -23714, 9189, 809, -14369, 809, -14369, 2048,
                15744, -7904, 4399, 4048, -12364, 4873, -7815, 2340, 2006,
                -6266, 2006, -6266, 21846, -13712, -11365, 3470, 3131, 8376,
                3131, 8376, -1224, 16030, -1224, 16030, -1224, 16030, -1224,
                16030, 15569, 7697, 5354, -17817, 1266, -17817, 15801,
                -4315, 2603, -10731, -4688, -15251, 7538, 6204, -5563, 2574,
                -5563, 2574, -5563, 2574, -5563, 2574, 40, 5324, 40, 5324,
                40, -15909, 40, -15909, 40, -15909, -6381, 5022, -6839,
                -8126, 1206, 16972, 7743, -12365, 17343, -8945, -2851, 6775,
                2871, -16600, 4143, 16597, 4143, 16597, -7924, 6677, -7924,
                6677, -14741, 6677, -14741, 7005, -4225, 7005, -4225, 6126,
                8529, 6126, -17044, 6126, -17044, -15721, 2007, -15721,
                2007, -15721, -2577, 1331, 6452, 12071, 6452, 12071, 2435,
                12071, 6295, 360, -22578, 9094, -3567, -11615, -16002, 7572,
                -5000, 99, -23662, 7396, -1867, 7854, -648, -22482, -12849,
                16054, 10686, 7492, -11559, 12983, 1369, 12983, -757, 30842,
                -4560, -7621, 13, -7621, 13, -11324, 13, -11324, 16164,
                -1134, 16164, 8092, -5269, -4526, -3935, -14321, 2221,
                -3507, -6027, -3507, -6027, 19727, -1998, 19727, -1998,
                19727, -5115, 26901, 11870, -868, 4139, 2230, -3998, 405,
                -3998, 405, 19355, 8198, -6502, 1561, -16114, 11038, -4551,
                9163, 3266, 1719, 17333, 1719, 17333, 11809, -5104, 10955,
                -4338, 4952, 5437, -7895, 14629, 363, 14629, -859, -28468,
                14823, 3738, -3704, 1577, -3704, -2275, 16661, -2275, 16661,
                -8162, 1876, -281, 26534, -6708, 6024, -962, -9963, 5192,
                4836, -275, 2681, 6781, 1348, 6781, -1586, 14198, -5303,
                2318, -1408, -1740, 19727, 14385, 6165, -1024, -14405, 3583,
                -3055, 11371, 69, 11371, -528, 19381, 5005, 1858, 7339,
                -2517, -3364, -2517, -17848, 7895, -3725, -7453, -3672,
                -669, -3672, 18929, 12135, 13602, 271, 13602, 4654, 6548,
                11668, 3846, 6817, -9837, -336, 16718, -7515, -2914, -9579,
                -3343, -9723, -8869, -2911, 2042, -5069, 2042, -5069, -3979,
                -4732, -3979, 978, 11776, 1212, -14147, 4512, -4194, -6264,
                5289, 4404, 8252, -8638, 8252, -462, 8252, -462, -29709,
                -8786, -985, -21859, 5522, 1164, 9513, 10912, 5069, 10912,
                5069, -11042, 13820, 10143, -12080, -3260, -1173, 17222,
                -14050, 1081, -12954, 1081, -12954, -1013, -21883, 7302,
                12845, -950, 12798, -3358, -17212, 13097, 6099, -1061,
                -8786, -1061, -8786, -1440, 2209, -1440, -3823, -529, 16730,
                13848, 12398, 6131, -1426, 17957, 188, 17957, 9062, 878,
                27902, 12620, -10393, -4983, -10393, -4983, -10393, -4983,
                -10393, -4815, -8330, 1877, -8330, -10111, 966, -10111,
                3885, -6081, -16966, -6081, -16966, -7362, 8637, 15419,
                8637, 15419, 2241, 15419, 2241, 15419, -726, -10697, 3471,
                -10697, -4334, -7534, 3766, -878, 3766, 460, -17039, -2790,
                -23277, 19760, 12174, 6591, -2012, 2185, 1578, 20486, 10609,
                4708, 5547, 932, 5547, -22923, -13647, 9525, 2450, -15812,
                -7231, 8390, -3100, 8390, -25779, -101, -25779, -15911,
                -18394, 9808, 3761, 1164, -18106, -5526, 3017, -3820,
                -21086, -7457, -17570, 18096, -17570, 18096, -17570, -9593,
                6649, -6765, -9974, 5074, -12984, 6949, -8886, -7825, -1684,
                -20172, 12327, 10852, 1154, 2462, 1154, 2462, 1154, 2462,
                6600, -13590, 6600, -1425, -16932, 15818, -4970, -143,
                -28407, -2919, -7378, -6977, -7378, -6977, -7378, -6977,
                -2564, -6977, -2564, 3073, 7521, 11098, 2604, 540, -26901,
                540, -26901, -15790, 5649, 17, 15914, -5087, -146, -19033,
                6039, 1038, 10203, 1038, 10203, -569, -18659, 10159, -5713,
                15414, -7987, -5257, -7297, -5257, -7297, -6930, -7297,
                -6930, -7297, -2195, -15075, -2195, -15075, 1942, 2568,
                5021, -21225, 8152, 11664, 8619, 4082, 8619, 11441, 3523,
                3375, 12228, -3362, -9936, -5721, -9936, 2629, -9936, 2629,
                -20508, 2629, -20508, -20741, -327, -20741, 2515, -4415,
                2716, -4415, 4833, -22014, 13390, -4251, -887, -12883,
                -5633, 6544, -1747, -6129, -6612, -6129, 3819, -6129, 3819,
                15020, 14033, -632, 15134, 6443, -3739, 8294, 22448, 613,
                22448, 12381, -15890, 16835, 689, 16835, 9715, 5206, 11191,
                5341, -182, -19295, -182, -19295, 8156, 16813, 12900, -2999,
                1377, 6018, 18795, 16163, 415, 16163, -4956, 2182, 2042,
                2182, -23756, -9645, -15018, -1586, -15018, -3016, -8173,
                2502, -8173, -2193, 2199, -10130, 2199, -10130, 9650, -1830,
                9650, 3280, 13399, -1161, 13399, 10875, 16895, -7507, 2977,
                10210, 6159, -1122, -9982, 3982, -3266, -14465, -10309,
                8483, -3450, 10127, -9858, 10127, -9858, 3661, -5708,
                -25095, -6658, 1189, -15076, -2845, 11152, 1303, -11252,
                -3759, -690, 4339, -690, 4339, -690, 8592, -22378, -13013,
                15059, 5757, 1762, 16148, -5231, 2597, -1265, 22135, -13063,
                -4158, -19190, 2161, -970, -11892, 1154, -7637, 1154, -7637,
                1508, 17286, -15780, -14675, 9887, 11745, -4783, -8769, 391,
                5712, 391, 5712, -646, 11006, -646, 11006, 1008, 8387, 1216,
                6783, -13030, 5841, 16135, -10853, -5804, -7519, -4940,
                -12531, 6079, -12531, -5829, -2431, 2205, -13348, -694, 14,
                -694, 14, -694, -11119, -1870, -11119, 2114, -14907, -5579,
                -2215, 5123, 8781, 10153, -4765, -7511, -2065, -4113, -731,
                14061, 4664, -612, -10636, 11795, 6555, 6051, -8698, -2671,
                11400, -2671, 11400, 134, 5968, -1640, 5968, -1640, 10442,
                -2808, 3090, -11225, 3090, -11225, -11845, -12106, -2604,
                -12106, 6767, -1471, 11886, -11672, 2385, -11672, 9853,
                1146, 9853, 3332, -11048, 1238, -19345, 10980, -8967,
                -12184, -7411, 3659, -4122, -8765, -14990, 2690, -14990,
                -6918, -13275, 8898, -13903, 11543, 7279, -14397, 6935,
                1792, 15337, -274, -13774, 6906, -13774, -1878, 13113, 4490,
                -14544, 10976, 8987, -7382, 5639, -8869, -6335, -5262,
                -6335, -5262, -10713, -1154, -10713, 9165, 860, -19020,
                7179, -14883, -4548, 2199, -4548, 2199, -6343, 533, 8877,
                -7296, 5251, 7092, -1681, 15995, -1569, -15564, -1569,
                -15564, 6119, -1925, 4826, -1925, 2921, -1925, 2921, -1925,
                2921, 9807, -316, 21546, -13219, 5270, 6589, -8784, 6589,
                -8784, 891, -8784, 891, -12168, 16578, -756, 16578, -8266,
                -11642, 10600, -7498, 13648, 10774, -3061, -9089, 21999,
                13746, -5285, -1310, 1716, -1310, -4007, -6961, -13743,
                3079, 20362, -14828, -5422, 2537, 10046, -3267, 3910, 5593,
                -15121, 12477, -13076, 16781, -8825, -7380, -7392, -9279,
                -7392, -9279, 113, -9279, -887, 12416, 4965, 544, -15173,
                -6043, -4773, -1026, 18462, 9516, 23609, 7097, -1330, 1479,
                28280, 21669, -13023, -4690, 3802, 6492, -3296, 8547,
                -17602, -372, -17602, -6719, 7841, 6156, -3529, 6156, -3529,
                6156, 11292, 6200, -4852, -9963, 2940, 19049, 979, 19049,
                14924, -1526, 9173, -2465, -13958, 11016, 8820, 18959, 375,
                18959, 360, 18959, 10539, -4423, 12322, -4423, 12322,
                -16005, -8015, 2908, 20010, -11717, 10275, -17807, 1124,
                -17807, 1124, -17807, 4050, 19328, 11396, -7706, 4571,
                14142, -9277, 8955, -9483, -9184, -9483, -9184, -9483,
                -9184, -11270, 16217, -142, 16217, 6847, -3710, 4772, -4552,
                4772, -4552, 3764, -975, 3764, -6287, 2077, -6287, 325,
                6920, 325, 6920, 325, 23689, 14685, 1401, -252, 3911, -252,
                17668, 9245, 6827, 1023, -10403, 3048, 7897, 3182, 5072,
                3182, 4854, 3182, 4854, -759, 4854, -759, 4854, -759, -4425,
                -1209, -4425, -4297, -4425, -4297, 5833, -7314, 1558,
                -11140, -4235, 7477, 17847, 5227, -268, -11775, -268,
                -11775, -4627, 9218, -4493, 14932, 11263, -11768, -4197,
                -18273, 15287, 7531, 6865, -353, -11634, 403, -12959, 8225,
                1861, 8225, -4107, 8993, 11256, 6285, 1364, 19784, 11985,
                5335, -12278, 5335, -12278, 9156, -1381, 9156, -3249, 7468,
                3924, -10646, 10293, 14672, -6867, 1295, 17170, 4916,
                -17099, -7613, -3394, -5866, 9704, -9717, -640, 27166,
                17064, -10133, 8457, 8686, 8132, 12682, -10268, -5724, 2229,
                5893, 8999, -8851, -6918, -838, 19989, 13703, -686, -27101,
                8467, -558, -21419, 4651, 21801, 24623, -7114, 11268, -3891,
                11268, -3891, 11268, 4506, -14097, 6764, 14201, 13989,
                -8853, -5474, -494, 14489, -3779, 14594, 7523, -7508, 18432,
                622, 18432, 622, 559, -20030, 10802, -9196, 4976, -9196,
                4976, -9196, 8977, 2800, -4851, -1005, 10029, -5280, 2959,
                -5280, 2959, 12523, 2959, 12523, 4631, 12682, -8340, -9571,
                -5549, 15424, 5972, 11100, 8315, 3276, 8315, 3276, 8315,
                4106, -3243, 11605, 4201, -18355, 826, -18355, 6989, -5111,
                6989, -5111, 12526, 402, -21552, -9988, -6264, 7842, -6264,
                7842, -6264, 7842, -1102, 7842, 2638, -3865, -1788, 20780,
                4327, -4572, 4327, -4572, -12158, -1700, 8306, -4033, 8306,
                10220, 3969, 6608, -23886, 184, -23886, -7508, -2, -33042,
                19787, 11231, 7429, -5938, 10782, -6004, 8049, 3905, 6339,
                12898, 24687, 16492, -6813, -1847, 4547, 5788, 4768, 5788,
                -6711, -2306, -8202, -2306, -8202, -20366, 2259, 20075,
                -1562, -12136, -1564, 10041, -27874, 330, -27874, -24063,
                10699, 1146, 4748, 5443, -3695, 5863, -3695, 1444, -5288,
                18737, 8476, -7966, 2249, -7966, 2249, -7966, -10553, -4797,
                -6786, 483, -13954, 5105, -2219, -12298, -23065, 3746,
                -18261, -84, -18261, -3405, -1867, 14765, -12032, -10187,
                -3245, 8350, 1142, 6915, -3976, -5444, -3976, -7910, 4129,
                15257, 3446, -2722, -1882, -2722, 411, -9268, 411, -9268,
                1165, -6244, 1165, -6244, 11485, -7850, -8008, 397, -8008,
                -1346, 8194, -7853, 9921, -7853, 9921, 5298, 8115, 3822,
                9802, -6210, 3876, 5896, -10803, -6153, -14677, -10567,
                -3185, -10567, -3185, 2869, -5103, -7077, -5103, -7077,
                3241, -7077, 2474, -12067, 15624, -1035, -13225, -4335,
                14522, 13447, -16810, 10284, 8052, -6086, 8052, -6086,
                -8773, -2025, 18891, 12986, -13767, -3594, -14265, 4288,
                1774, -4238, -1079, -4238, -1079, -4238, -1079, -21973,
                -8854, 17876, 13314, -5692, 6843, -10583, -6957, -854,
                -25175, -16678, 11212, -12370, -7031, -517, 5419, -419,
                -15680, 3787, 6958, 3787, 6958, -2447, -13942, 5556, -6833,
                3640, -6833, -15942, 4215, -1191, 9341, -1191, 9341, -1191,
                9341, -1822, 9341, 66, 6319, 7591, -4106, 7591, -6552, 4949,
                -11671, -10650, -1132, -9117, 9695, -2081, 9695, -9176,
                4258, -6804, 4388, -1066, 4388, -1066, 3765, -13210, -5681,
                -8098, -5681, -8098, -13264, -8098, -13264, 293, 11604, 293,
                11604, 264, 28321, 12137, -3431, -8068, -16585, 8225, -5866,
                -14682, 13717, -7300, 4140, 2565, 2147, -15533, 647, -15533,
                647, -15533, -8258, 5814, -1404, 5758, -1016, 16051, -11908,
                409, 18878, 409, 18878, 9373, -3997, 7564, -15081, 2750,
                8115, 2750, 8115, 2750, 8115, 11534, 4161, -19356, -564,
                -19356, 15697, -13446, -21571, 19937, -11592, 7328, -4166,
                9532, -2581, 971, -8662, 971, -8662, 971, -8662, -412,
                -10584, 3551, 6398, 9215, -1823, 9215, -1823, 9215, -12148,
                9215, -12148, 4971, 13921, 3104, 13921, 5050, 3957, -4029,
                3957, -4029, 3957, -4029, 4189, -832, 7094, -1997, -3817,
                -4532, -6289, -4532, -10575, -55, 3590, -16407, -1852,
                -16407, 9246, -2670, -17945, -4600, 2380, -3477, 13112, 698,
                17085, 5765, 5616, 524, 21358, 4326, 12353, 4326, 12353,
                -2620, -7485, -1853, -9669, -4986, -875, -4986, 6604, 1214,
                6604, 1710, -8977, 7587, -12961, 7587, -12961, -3667, 7284,
                1969, 12431, -6256, 1026, -4691, -6801, -117, -6801, -117,
                -6801, -117, -6801, 2946, -1972, 2946, -3899, -11945, -2136,
                20357, -22266, -14226, -1823, -5427, 7064, -5427, -12248,
                -5427, -12248, 10142, 8227, -8499, 4183, -4446, 1577, 5224,
                7335, -3667, 5182, 4303, 5182, -2619, -4086, -800, -1805,
                -4931, -877, -4931, -3980, -10813, -3980, -5886, -2002,
                -5886, -2002, -5886, 1357, 4955, 10768, 4955, 10768, -7399,
                -4207, -7068, 20803, 14232, 4121, 19829, 11455, -9732,
                -6601, -9732, -6601, 6606, 12731, -188, 21529, 11928, 5768,
                -8841, 11721, -8841, 11721, -8841, 11721, -4065, -13655,
                -702, -13655, -702, -13655, 2083, -497, -14576, 4201, 12285,
                -5639, -7343, -5775, -1929, -9193, -3666, 18177, -3666,
                18177, -2262, 5365, -2262, 5365, -2262, 5365, 1356, -8482,
                -16356, 4928, -16356, 4928, -16356, 5055, -116, 20413,
                -7533, 3534, -19331, 20, -19331, 6786, -1168, -385, -11028,
                2360, 1546, 8638, -9641, -1628, -9641, 3110, -21846, -472,
                -21846, 10472, 3780, -1379, 3780, -1379, 9792, -6279, 9724,
                6551, -4209, 14711, 15883, -7376, -14096, 9721, 8390, -2934,
                3168, -2934, 3168, 9343, -4070, -11073, -4644, 4323, -2749,
                -4508, -655, -4508, -655, 16759, -5421, -441, -24073, 1683,
                -14047, -6, -14047, -6206, 3700, 21057, 17987, 7710, 3514,
                5401, -11149, -18009, 7783, -9469, 2435, 14627, -19169,
                13080, 20445, -11633, 21050, 799, 21050, 21655, -1110, 3909,
                1328, 3909, 751, -11342, 4180, -8559, -15115, -15427, 1333,
                11855, -6796, 17239, -6796, 17239, -2493, 17239, 8800,
                -4069, 13152, -9343, 12618, 8089, -6769, 828, -27506, 19317,
                9624, 4763, 6828, 3540, -558, -5546, 9894, -3447, 9894,
                -2437, -18414, -9825, 2161, 17211, -16407, -6213, -10871,
                -1479, -10871, 16828, 4687, -378, 12843, 5163, -10943,
                -6376, -2637, 15390, -7441, 1841, 2999, 8054, -3172, 11026,
                5343, -7490, -3267, 10128, -3267, 10128, -3267, 10128,
                -3184, 10642, -4153, 7371, -4153, 7371, -4153, 7371, -4153,
                -7483, -4153, -7483, 10435, -6650, 355, -15016, 355, -15016,
                -1138, -2358, -5932, 3673, 8414, 8283, 3300, 15682, 14894,
                -7012, -8352, -2620, -16342, 4251, 2145, 4251, 2145, 4251,
                -771, 491, -815, -6891, -815, -6891, 1175, 16965, 18305,
                1016, 753, -1917, 753, 6188, 753, 3454, 8848, 3454, 8848,
                6222, 8848, 6222, 7663, -15928, -12920, -7003, -6605, 3684,
                -6910, 3684, -6910, 3684, -6910, 3684, -1642, 6736, -5872,
                -21837, -604, -21837, 5166, -1789, 6327, 17573, -12376,
                -9295, -12376, -9295, 8931, -5907, 8931, -5907, 8931, 11380,
                -8824, -2730, 6803, 3267, -2094, 11903, -2094, 11903, 14378,
                -7019, -5370, -3993, 9182, 754, 9182, 2574, -36, -4620,
                -2650, 151, -2650, -2149, -17437, -2149, -17437, 6961,
                15057, 7806, 3864, -16673, 13204, -7967, 10687, -6450,
                -3445, -6362, -5620, -6362, 2605, 6075, 17449, 11981, -3114,
                -7586, -3114, -7586, -3114, 17506, 8865, 5554, 13471, -461,
                13471, -461, -12766, -12629, -755, -12629, -8825, -5500,
                4180, -12043, 2463, -12043, 4771, 4903, 7915, 11061, -3939,
                4231, -17919, 6006, 2812, 169, 31425, -20051, 10435, 1718,
                5312, -14077, -2392, -14077, 2592, 1563, -3343, 1563, -3343,
                317, -18242, -10178, -5420, 2868, 12043, 5189, 4439, -1566,
                -14726, -7486, -2952, -13299, 12243, -9148, 3099, 6171,
                5115, 2732, 5115, 10651, 5115, 10651, 8253, -2776, -15619,
                16170, -10161, -5564, -10161, -5564, 6999, -2925, -13461,
                7948, -250, 13385, 1357, 13182, -1284, 6348, -25294, 6913,
                -5318, -4947, -5318, -4947, -5318, -1062, 19461, -13679,
                10756, 6584, 5118, 10678, -3328, -8665, -22000, -616,
                -22000, -616, -22000, 13328, -6858, -2570, 13256, -6527,
                -21348, -15706, -5801, 10149, 20979, 1240, 20979, 14488,
                -3821, 2662, -21721, 2662, -21721, 8244, 2530, 9436, 1116,
                -1858, 1116, 23738, -7049, -15, 43509, -30378, -11361, 4395,
                -5062, 3071, -200, -3548, -200, -3548, -5717, 12256, -5717,
                12256, -5717, 12256, 6193, -6562, -9181, -6562, -9181, 2072,
                -6142, -1104, 67, 11969, 8664, 15457, 8664, 15457, 8050,
                -5723, 8050, -5723, -3671, -8342, 11344, 4310, 7680, -6154,
                2571, -7324, 5715, 1450, 8441, -2373, -3328, 12026, 2628,
                723, 9993, 723, 9993, 723, 17205, 5408, 16524, -10017,
                -6336, 18698, -8282, -3359, -7479, -19336, 61, -19336, 9720,
                14027, -5798, -16408, -3413, -22756, -5094, 1489, -5094,
                1489, -5094, 13505, 5408, 6236, 5284, 3070, 1044, 11218,
                -8192, 541, -8192, 12813, 5064, 12813, -8292, 463, -19667,
                -9462, -12368, -3823, -12368, -3823, -12368, 9359, 23288,
                1212, 23288, -1423, -3962, 513, 15519, 886, 13396, -4787,
                2587, 6337, -1335, -9999, 3340, 18285, 10647, 6277, 6847,
                5081, 5454, 4105, -19792, 843, -19792, 4323, 214, -16551,
                -7439, 11425, -5306, -14560, 903, -14560, -6476, 5249,
                -22654, 564, -22654, 564, -22654, -20174, -9082, -2486,
                -5159, -1902, 7097, -4430, -2789, -4430, 2719, -12547, 2719,
                -12547, 1358, -27072, 23369, -2089, -15864, -2089, -15864,
                -2089, -15864, -6220, 21926, -998, 21926, 14422, -3433,
                -3462, 3595, -16440, 870, -16440, 5874, 4145, 11687, -5100,
                16874, -5100, 16874, -2544, 16874, 10148, 10198, 9389,
                -11020, 9389, -11020, 36403, -12, 36403, 14849, 6212,
                -12971, 11322, 5018, -3024, 6165, -10946, -9207, 11665,
                -1696, 10726, -1696, 10726, -2187, 4665, -1905, -19528,
                -24294, 7865, 1774, 3857, 762, -4245, 20696, -12617, 1495,
                -27960, -19041, -11609, -3711, -5546, -6455, 4269, 15765,
                -8279, -9474, 2204, -18149, -5618, -2105, -7761, 1542,
                -14600, 11720, 2488, 12961, -1588, 12961, -26607, -8,
                -26607, 16777, -10207, 9369, -3191, -15405, -9380, 6543,
                -14, -7530, 4912, -3481, 4912, 7632, -9907, 7632, -9907,
                997, -9907, -17211, 15135, -11751, 6916, -11129, -7808,
                -1061, -7808, 2305, 9922, -2528, 8587, -3598, 4993, -3598,
                -9828, -3711, -6605, -782, -11966, -4713, -10079, 10854,
                -7336, 2403, 4638, -1281, -8508, 2071, -1530, 2071, -4179,
                5102, -2387, 6107, -13209, 16580, -10809, 10867, 11041,
                -7459, -7439, 8406, -1892, 14047, 12910, 4714, -4669,
                -13937, -1130, -13937, -639, -2863, 15395, 380, 15395, 380,
                15395, -521, 13058, 4957, -12709, 4779, 7970, -8158, 7970,
                -8158, 7970, -8158, 6918, 18429, -5118, 9343, -9985, 10878,
                2301, 10878, -16600, -5694, 616, 7162, -6322, 1034, -6322,
                325, -16935, -12558, 4828, 5288, -1890, -8496, 1320, 3198,
                -7913, 3663, 23587, -3356, 28194, -11900, -2338, -4646,
                -9286, -3574, -1500, -3574, -1500, -15328, -6047, -1202,
                502, -15987, 3222, -496, 9638, -1514, 10485, -394, -23968,
                -394, -23968, -5521, 6793, 6322, 6793, 6322, 6793, 11210,
                -18408, 2058, -17192, 8259, 4713, -4225, 11359, 15866,
                12573, 6309, -17919, -12658, 8153, 3252, -4993, 3252, -4993,
                3252, -1118, 6775, 1662, 6775, 456, 6775, 456, 896, 3565,
                896, 3565, 896, -11356, 3655, 13843, 5358, 13204, 146,
                -5967, -14524, -4038, -14524, -7896, -12295, 5360, -7467,
                2642, 2824, -15233, 2824, -15233, 20657, 6944, 89, 16258,
                -6600, -6052, -6600, -6052, -22517, -8948, 2970, -6802, 685,
                10458, 685, 10458, 685, 10458, -3562, 7732, 4918, 3732,
                1415, 14461, 3637, 3399, -13508, -8549, -11481, -5091,
                -5023, -20871, 8139, 2254, 10962, -4265, -10337, 14716,
                -1525, 14716, -6484, -634, 2512, -10911, 2579, -11240, 8403,
                -1475, 8403, 2766, 3030, -25267, -19161, -11368, -9491,
                -1608, -24462, 4643, -24462, -7, -24462, -7, -24462, 15342,
                9606, 13839, 23367, 10787, -11432, 4147, -5659, 7348, 8634,
                7348, 8634, 7832, -2918, -11011, -4475, -11011, -5360,
                -13944, -10313, -2640, -10313, -5905, 4194, -15221, 1621,
                -15221, 1621, -15221, -12511, -169, -12511, 798, 2739, 798,
                2739, 798, 2739, 10665, -3682, -28, 13093, -28, 13093, 1934,
                17751, 3134, -13413, 3134, -13413, 4708, -9652, 9729, -9652,
                9729, -9652, 9729, -6800, -7548, 5929, 3206, 5929, 3206,
                4855, 3206, 4855, -6709, -9393, -6709, -9393, -6709, -9393,
                -3865, 4846, 10010, -3135, 114, -23587, 2840, -11076, 4893,
                -11076, 4893, -11076, -2683, -19410, -768, -19410, -10691,
                -6526, -4619, -8217, 779, 19504, 779, 19504, -11489, 9689,
                610, 9689, -3365, 6519, 8456, 24790, -6757, -1222, -14721,
                15334, -21962, -11101, 4009, 3280, -14449, 408, -17921,
                3212, -19497, 10271, -17808, 1149, -17808, -5761, 1877,
                2057, 12164, 3923, -14390, -9134, 4275, -4592, -18809, -520,
                -18809, -6489, -19502, 10025, -14823, 7379, 17317, -428,
                17317, 7469, -2607, -2630, -5876, -2630, -5876, -2630,
                -9422, 8980, -2386, 6279, 1621, -2738, -23552, -12210,
                -4203, -4636, -4203, -4636, -3630, 8655, -12398, -620,
                20289, 3969, -1193, 10218, 5361, -3085, -7798, -3085, -7798,
                21174, -7798, 21174, -7798, 21174, -7798, 21174, -7798,
                -14703, 6518, -1775, 2874, -11925, -2613, -10097, 9264,
                -10097, -6856, -7840, -1993, -6227, -5726, -1030, -5726,
                931, -17910, 8943, -16652, 19730, -344, 19730, 10982, -2930,
                266, 7231, -4011, -4979, -4011, -4979, -4011, -2640, 14029,
                5852, -2435, 5852, -2435, 5852, 20313, -374, 20313, -374,
                20313, -374, 20313, -6836, 825, 20972, 12622, -12908, -8040,
                -10682, -3285, 3049, -6766, -3040, 11318, 7776, 14434, 7145,
                -2622, -4178, 12983, -3218, -23846, -316, -23846, -316,
                -23846, -3087, 9197, 15842, 4091, 15842, -4416, 1486, -4416,
                1486, -12777, 24975, -13048, 5781, -10478, 13074, -7504,
                1316, -1781, -2867, -10675, -2867, -10675, 2231, -10675,
                -305, 20543, 1282, -12354, 12145, 2129, 12145, -8532, 5668,
                4737, 5668, -13471, -13195, 9834, 6838, 5267, 13367, -3190,
                2037, -7731, 2037, -7731, 8977, 3488, -18609, 19892, 6627,
                2481, 4468, 2848, 427, -14497, 13030, -14835, -6177, 5240,
                -17551, -9549, -4332, -7425, 17262, 544, 17262, 8715, -8295,
                -19110, -8295, -19110, -11652, -5993, 343, -5993, 1044,
                17122, -4789, 14475, -25257, 9855, 19892, 474, 19892, 11680,
                -263, 15656, 5880, 4675, -7055, 4210, -7055, 4210, -7055,
                1665, -3286, 7997, -3286, 7997, 7048, -4419, 7048, -7109,
                7048, -7109, 2649, -7109, 2649, -7109, 8000, -7109, 8000,
                -396, 8000, 2200, -7223, -4428, -4522, -13359, -4522,
                -13359, -4682, -8996, 1563, -6855, -6776, 3474, -16537,
                3016, -21224, -5906, 797, 15455, -7624, 7034, 123, 7034,
                -1566, 9843, 4134, -7032, -13541, -12900, 5695, 5787, -119,
                26843, 3890, -10315, -11362, -10315, -11362, -6122, -11362,
                -6122, -13476, -5452, 4428, -5760, 4428, 2524, 4428, 1495,
                -4597, 1495, -15924, -5209, -3055, 15013, 13531, 5048, 1306,
                -7017, 9685, 14282, -5860, -10594, -4669, -10594, -4669,
                7354, 5431, 713, 2586, 9139, -5929, 9139, -1408, -4463,
                12691, -1184, 12691, -1184, -28360, -12920, -568, 29465,
                20764, -3529, -21835, 5876, 882, 16146, 882, 16146, 7144,
                1623, 16073, 668, 17049, 8554, 1356, -27386, -15294, 12524,
                5041, 7635, 12575, 7635, 12575, 8027, 9053, 4553, -2177,
                -6391, 14772, -7339, -4975, 13459, -5839, 1198, -5839, 235,
                -8738, 808, -21800, -14368, 447, 9539, 4439, 9539, 4439,
                9539, 4439, 595, -26197, -16482, -19333, -12584, -4908,
                13528, 10640, 10632, 11188, -8697, 4155, 11414, -966, 11414,
                -4337, -6631, -14988, 7897, 7782, 6681, 7782, 9099, -175,
                -26077, -175, -26077, -13512, 6039, -6370, -2155, 11339,
                -17655, 7599, -4919, -7639, 1179, -7639, 467, -7639, 8833,
                -3754, 8833, -9835, 13008, -12333, 23048, 501, 23048,
                -12229, -3355, 11990, -3355, 11990, -3355, 11990, -3355,
                11990, -5247, 3191, -8058, -1097, -22825, 4139, 10033, 4139,
                10033, -2673, 10033, -4970, -7580, -1354, -9683, -3504,
                -4792, 1860, -15236, -6632, -14291, -3604, 11019, 1853,
                3633, 1853, 13820, 1256, 13820, 5160, 11941, 5160, 11941,
                -7086, 4464, -2379, 15374, -7353, 10070, -9075, 13139,
                -4078, -11640, 3553, -11640, 8295, -677, 8295, -677, 8295,
                -15599, -6905, -3264, -3133, -1224, -4065, -1224, -10653,
                4642, -10653, 4642, 3959, 19586, -7836, -864, 7454, -864,
                7454, 2172, 1934, 2172, -15871, -4352, 270, 16561, 8513,
                3564, -1715, 9135, -5899, 9135, -5899, 12863, -7920, -12734,
                -10734, -12734, -10734, -12734, -10734, -12734, -13377,
                -7304, 18543, 11214, -15057, -7130, -6436, 8502, -9402,
                4823, -4467, -814, -11240, -3209, -11240, -3209, 2726,
                22893, 395, 22893, -4585, -19123, 3200, -6696, -567, 20340,
                21680, 24384, 6265, -11209, 101, -11209, 3665, 4570, -15828,
                -16492, -9085, 11655, 11159, -4293, -7118, -301, -10629,
                1425, 5704, 2856, 13404, -4034, 9505, 75, 20908, -12268,
                -3309, 13023, -1497, -10070, -14763, 2069, -14763, 7186,
                2010, -4520, 18838, -1770, 18838, 11719, 3661, 8565, 2329,
                8565, 2329, 8565, -21010, -14091, 5978, -84, 10381, -84,
                10381, -2686, 3696, 8908, 4157, -20356, 12768, -8146, 2709,
                -9819, 1959, -852, -1454, -1203, -4011, -1203, -4011, 5086,
                18028, 12958, 6864, -6139, -20412, -10976, 7395, 39, 7395,
                39, 7395, 627, 23248, -11263, 10803, 3125, 10803, 15784,
                952, -22418, -1245, 17965, 5307, 1855, 4210, 18096, -14363,
                3265, 13819, -4695, 14312, -2717, 12159, 4234, -3340, 4234,
                -3340, 4234, -16773, -4245, -9532, -1646, -12974, 3843, 743,
                -10502, 3171, -7778, -8937, -11959, -1611, 1605, -9187,
                12977, 746, 12977, -5218, -4834, 6692, -1892, -9178, -8723,
                10340, -7044, 27514, -20988, 11596, 1753, 12954, 1411,
                -3722, 9726, 8465, 23230, -12339, 8657, 2766, 6120, 2766,
                -22792, 15847, -11261, -4896, 4841, -820, 4841, -846, -7668,
                -846, -542, -846, -542, 8210, 11378, -13960, 8218, 8018,
                2611, 8018, 2611, 4563, 2611, 17777, -4131, -57, 23054, -57,
                23054, -11816, -3801, -12427, -10354, -1065, -10354, -1065,
                -2505, 9640, -2505, 9640, 4239, 1517, 4239, 4453, -2908,
                4453, 20730, 13315, -15711, -8653, -10190, -10410, 24256,
                819, 24256, 819, 24256, -11815, 1710, 2584, -17799, 2584,
                -17799, 7409, -17578, -8865, 2751, -8709, -1508, -8709,
                11932, 14527, 1294, 20514, 11922, 9687, -9569, 23240, 11422,
                2672, 15903, 2672, 15903, -9778, 11129, -3125, 11379, -2079,
                -15597, 5847, 11000, 893, 18493, 5079, -18003, 404, 8183,
                4512, 8183, -11576, -1352, -11576, -15563, 6761, 1418, 3436,
                19024, -9264, 1771, -10722, 1771, -10722, -693, 11718,
                -1783, -14569, -19860, 6276, -20146, 769, -20146, 10589,
                5591, -14073, 4202, 1225, -10549, -3490, -17076, 14164,
                9380, -9074, -3094, 9793, 8643, 852, 12667, 3359, -14518,
                -8975, 1554, 19528, -16008, 10043, -1942, -21551, -1942,
                -21551, -1942, -21551, -15615, 10119, 1220, 10020, -3164,
                -5723, 4760, -2949, 4760, -2949, 2889, 2787, 2889, 2787,
                -14963, -6856, -1480, 26534, -21742, -18614, 6651, -1679,
                10277, -13891, 2867, 18052, -5284, 18052, 769, 18052, 13993,
                -4241, -2975, -8389, -1824, -541, -1946, 21731, 500, 21731,
                -13014, 9540, -7341, -14653, 5562, -3490, -14283, -12048,
                -5245, 16430, 7903, 2752, -4368, 5406, -1435, 5843, -1435,
                28769, 16684, 2077, -1886, 12621, -4988, 903, 10695, -2813,
                -15858, 9227, 3559, -3748, -13871, 8012, -5699, 11235, 4074,
                -3870, -1443, 12415, 10140, -3890, 1724, 1034, 3984, 1034,
                3984, -16628, -430, -16628, 6247, -15580, -1710, 12634,
                -2297, 20232, -8421, -2622, 4424, -2622, -3079, -8740,
                -3079, -11306, -3079, -11306, 4608, 7489, 2251, -2627,
                -5899, 3505, -5899, -559, -7279, -5066, -3438, -5066, -1728,
                -1576, -804, 3175, -804, -18288, 9924, 1984, 20265, 1984,
                20265, -297, 20265, 1922, -16007, 405, -16007, 15357, -735,
                15357, 9358, -3090, 8616, -30110, -216, -30110, 18549, 9897,
                9529, -7731, -4085, -7731, 6408, -7817, 13419, 4908, 15570,
                3155, 18529, -6406, -2848, -11066, -16245, 7859, -7148,
                -1413, -14801, -1286, -27263, -6674, 9428, 888, -5258, 888,
                -5258, 888, -5258, 888, -5258, 888, -5258, 18887, 5067,
                -8794, 5067, -8794, 9307, 13584, -6249, 2175, 2873, 2175,
                6279, -5301, 6279, 492, 7196, -10333, 7196, -19349, 202,
                -19349, -3224, -17879, -9645, -8350, -11035, 16804, 12266,
                -10123, 2635, -1533, 7824, -1533, 7824, -17830, 5710,
                -17830, 5710, -1189, 10150, 9199, -1764, 9199, -3255, 9199,
                -3255, 757, -12275, 757, -12275, -2427, -10649, -2427,
                -10649, -5550, -4845, 9414, 4193, 13349, -336, 13349, -5593,
                9150, 15717, 15215, -8955, 19086, 256, 19086, 10678, -9445,
                -6053, 14812, 10690, 4378, -13721, 4378, -13721, -5166,
                -13721, 10483, 4695, 9766, -4965, 753, -18924, -13259,
                -8232, -5208, -9130, 16358, -1180, -407, -24030, -10638,
                9899, 534, -7897, -1345, 3113, -1345, 9146, -800, -2183,
                -5245, -1768, -5245, 20123, -13419, -5046, -3705, 3621,
                -3705, -9512, -3705, -9512, 3553, -12829, 9739, 6061, -6236,
                -23265, -19474, -11155, 3093, -19516, 14161, -7446, 9375,
                1054, 9375, -3064, 11815, -9631, 565, -25607, 565, -25607,
                11180, -4687, -11035, 8425, 9585, -5597, -7769, 5077, -3918,
                -1236, 779, 6878, 779, 6878, 11155, 8138, 10725, 6597,
                -9874, 3818, -7907, -955, -12950, 3513, -17735, 3513,
                -17735, -12193, -342, 29242, -342, 29242, -22240, 8104,
                -4282, 8104, -4282, -7237, -4282, -7237, -12368, -6628,
                3199, -5200, 67, -35014, -6233, 678, -4793, 11451, -1801,
                11451, 9293, 23278, -16029, -14877, -9690, 5588, -18790,
                11711, -19689, -1997, -19689, 2601, -19689, 2601, -19689,
                2601, -19689, -9790, 18243, -14320, -8990, 11524, 4652,
                -4654, 15240, 6404, 9598, 2386, -997, 2386, -997, -30588,
                16365, 16058, -759, 16058, 5893, -1155, -12425, 1149, 21014,
                24474, 14819, 699, -11124, 3953, 3228, -14537, 4636, -2766,
                -6548, -2766, -6548, 5331, -6548, 5331, 13570, 3347, -577,
                3347, 9283, -13551, 9283, 1207, -26163, 9115, 1956, 6984,
                -10740, -9033, 4496, -11803, -2305, -5010, -2305, -5010,
                -1586, 5664, -1586, 5664, -5979, -10169, -10834, 12496,
                2111, 1949, 2795, 1949, -20487, -8783, 5066, -3363, 5066,
                3480, -9895, 17045, -3426, -23243, -3934, -377, 6987, -377,
                20901, 12246, 2204, -18295, -9962, 6215, -4379, -1336,
                -19482, -11113, 9067, -593, 31080, -13449, 348, -32369,
                7972, 11298, 486, 11298, -1630, 19758, -1004, 166, -1004,
                166, 19564, -4653, 21264, 11350, -4020, -9749, 559, 12057,
                4714, -5698, 1653, 17789, 11734, -6487, -18119, 10874, 6264,
                -1710, -12972, 11105, 7157, -524, 22435, 14222, -8462, 332,
                -22344 >>,
            zc |-> << -1196, 11474, -923, -5937, 1971, -5937, 1971, -10510, -1676,
                8489, 2235, 8489, 2235, 15893, -671, 7542, -5838, -5541,
                3074, -5450, 12120, 2857, 1954, 13568, -6234, 9726, -3134,
                8926, -3134, 8926, -4481, 3636, 10599, -656, -6589, -15672,
                -6589, -834, -9619, 22284, -9619, 22284, 809, -9226, -3261,
                15681, 25193, -23, 10633, -1732, 10633, -1732, -3332, -7604,
                1534, -458, -11425, -458, -5678, -13927, -5678, -13927,
                -5678, -13927, -5678, -13927, 992, -1366, -5040, -3229,
                -5040, 9016, 12645, -20043, -27880, -1752, 9368, -1032, 566,
                11378, -12008, 19182, -4235, 3394, -17159, 7028, -17159,
                7028, -701, -4063, -4286, 17486, 15518, 17486, 15518, 17486,
                -3515, -12839, 13191, -12839, 13191, -12839, -12472, 3623,
                8968, 10642, -6659, 14852, 29579, 201, 3810, -5682, -14788,
                -5682, -14788, -442, -11485, 1636, 2074, 8572, 2074, -11424,
                8572, 10304, -10149, 10304, -10149, -17624, -10149, -17624,
                -1086, -5637, -5469, -8489, 18829, 3017, 18829, 5682, 10825,
                -19107, -334, 1077, -7189, -21796, -7189, -21796, -2994,
                2348, -1884, 7572, -14504, 676, -17029, 14227, -17029,
                -11720, -21768, -2258, -12377, 5620, 4594, -11946, 3990,
                -2958, -4476, 7439, -4476, 7439, -15869, -3056, -17111,
                4659, 5313, -20349, 7411, -21720, 2035, -12664, 22142, 4925,
                13845, 4392, -6182, 14410, 1861, -3504, 9431, -3504, 9431,
                -13200, 19239, -923, 1907, 8020, 1907, -6159, 13109, -1684,
                -2143, 9296, -2143, -1740, -7970, -1740, 17409, -617, 17409,
                10479, -20951, 529, 5642, -1521, 9417, -604, 8201, -2264,
                -6440, -2264, 6653, -7198, -814, 20766, -814, 20766, -814,
                20766, 2478, 4107, 7811, -6135, 8606, 13737, -1362, 19232,
                -4720, 19232, 4599, -15001, -4742, -6270, -2211, -9012,
                -12754, 19815, 4247, -1846, -7688, -1846, -7688, -6604,
                3251, 9175, 1308, -5175, 4974, -5175, 10737, -6698, -10893,
                -7336, 11054, 12229, 5912, 11615, -22524, 11615, -22524,
                -2036, -3674, 3274, -1669, 3274, -10271, 3500, -10271, 3500,
                15083, -2084, 4429, -21273, 4429, -21273, -1097, 14060,
                -4053, 11045, 2127, -18051, -1472, -18051, -1472, 13175,
                -1961, 8295, -9663, 8295, 17431, 625, 15286, 8568, 15286,
                -8378, 5204, -8546, 5204, -8546, 1787, 4486, 4580, 3575,
                6809, 7451, -2455, 7451, -2455, 7451, -2455, 1245, -11850,
                1245, -812, 8965, -812, -26444, 3680, -26444, -8923, 3467,
                12662, -13802, -2074, -13802, -12078, 11228, 17024, -6663,
                2370, 20207, -2295, 20207, -2295, 20207, -3716, 17467, 6832,
                -6722, -11604, -4914, 10779, 7941, -17059, -3485, 11328,
                -6679, 5707, 9964, 17600, 1179, 6272, 3294, 9698, -9012,
                -7054, -9012, -7054, -9012, -7054, -13248, -1311, 5315,
                -4912, 5315, 4334, 5766, 4334, 5766, 4334, -13357, 7047,
                -4040, 10565, 6058, -15391, -13984, -10673, 16416, -10673,
                16416, 14528, 23589, 1173, 15515, 1631, 15515, -5278, 447,
                22018, -960, 22018, -960, 11493, -5779, 12805, 4296, 12044,
                -916, -5210, -15537, -3817, 10704, -14122, -19161, 19825,
                7594, 16251, 9946, 20551, -334, -3828, 5267, -3828, -9784,
                -2479, 5789, 5712, 5789, 13812, 32589, 313, -9483, 4252,
                3653, 6716, -15462, 7833, 18721, -21989, 3421, -17115,
                -4618, 20305, 5069, 14462, 22881, -165, -10046, 8309,
                -10046, 8309, -4074, 7625, -720, 2719, 11693, -14879, 12934,
                -6759, 9097, -6676, 3039, -4209, -2738, 10822, 4924, 10822,
                4924, -12131, 7321, -20017, -4275, -1709, -8490, 5130,
                13188, 7639, 7029, 7639, 7029, 11426, -6208, 9840, 6658,
                -13952, -7187, -4871, 8076, -933, 8076, -933, -8949, 13672,
                -8949, 13672, 7156, 12310, -2464, -6843, 467, -6843, 467,
                -6843, 467, -2489, 10852, -7935, -16054, -22014, 2630,
                -6371, -7613, 14126, 22888, 1592, 8869, 6615, 8869, 17763,
                -1870, -4719, -1052, 11415, -4902, -20217, 3863, 6678,
                17493, -27, 5321, 17516, 5321, 17516, 5321, 17516, 26978,
                36346, 458, -11587, -14368, -16576, 8988, 7277, -15564,
                1983, 4238, -6438, 4238, -6438, 1596, -10883, -13679, 3405,
                4272, -15207, 735, 13101, 16822, -859, 8485, -4001, 8485,
                -4001, 7593, 5697, 13314, 1174, -5884, 13415, 2784, 3788,
                8306, -6654, 13920, -12282, -11699, 14071, 14859, -6907,
                -7238, 11379, 2740, 8097, 22330, -4726, -11606, 6141, 7370,
                -6692, -9101, 12555, -9101, 12555, 14344, -4989, -8321,
                -10778, -4671, 7121, 14317, 7121, 14317, 7121, 14317, 7121,
                14317, -15554, 1601, -1480, 2383, -3176, -6005, -3176,
                -6005, -11174, -15158, -11174, -15158, 827, -3466, -6560,
                -3466, 15296, 23228, 15296, 23228, 1379, 7268, -4051, 7268,
                -15883, 3615, 838, -750, 838, -750, -831, 9225, -831, -2261,
                6858, -2261, 6858, -2261, 6858, -2261, 8544, -9450, 8544,
                -17492, -5987, -17492, -5987, -17492, -5987, 10657, 8513,
                -16708, 785, -8605, 4510, 10476, 2519, -9622, 136, 4590,
                -5497, -15465, -5084, 5672, 12361, 1423, -4189, 5290, -4189,
                -10714, 21430, -1639, -3443, -10616, -14212, -10616, -14212,
                -10616, -14212, 2646, -9417, -6304, -9417, -16754, 20210,
                5842, -12915, -5074, 4946, 1334, 4946, -13237, 8891, -882,
                4099, 1991, -1120, -10124, -1120, -7522, 549, -7522, 549,
                -4668, 5864, 7217, 10164, 7217, 10164, 7560, 15697, -557,
                7085, -13254, 13284, 7471, -7845, 17033, -7845, 17033, -57,
                9124, -1559, -5856, 15051, 1764, 25417, 13922, 25417, 1979,
                -5949, 511, 1166, 511, -9297, -1476, -9297, -1476, -9297,
                -12963, -2045, -15356, -10364, -15356, 2406, -9329, -2224,
                -5147, 5842, -14143, -125, -14143, -125, 6574, 3563, 6574,
                2775, 6574, 2775, -4978, 7277, 2463, -9917, -698, 1106,
                -10680, 1106, -10680, -5921, -12567, -1907, -1588, 6431,
                -1588, -10430, 8128, -3290, 8128, -3290, 3246, -5592, -2943,
                9321, 7316, -1391, 6184, 491, 5438, -19214, -1569, 13351,
                -694, 4434, -362, -5939, 17436, 24806, -2591, -2947, 6678,
                -2947, 6678, -11723, 21767, -441, -1492, -12134, -1492,
                11566, -10612, -10973, -19373, -660, -8698, 1604, -7239,
                6303, -7239, 6353, -13706, -5292, 1904, -6883, 5761, -6883,
                5761, -2958, 9862, 9351, -3509, 4247, -2906, -5644, 14307,
                -545, -618, -6209, -618, -15945, -1791, 6021, -20392, -3243,
                -8313, -10352, -10982, -9404, -10954, -18338, 1698, 8103,
                -13001, 4062, -7038, -5182, 10884, -23572, 98, 9945, 12504,
                9945, 12504, 918, -9642, 15448, -9642, 15448, -9642, 15448,
                16697, 18369, 9095, 8299, -5267, -7359, 6518, -1731, 6518,
                -1731, 6518, -10787, -1191, -5326, -8865, 2695, 6707,
                -11488, 6707, -8755, 7294, 4706, -12274, 19006, -656,
                -17341, 11167, -17341, -9767, -5036, -19930, -6654, -19930,
                13303, -10230, -9629, 17410, 11156, -7365, 1085, -5733,
                -6538, 16148, -483, -2478, -15256, -7331, -15256, 4352,
                3542, 8094, 3542, -18974, 13375, -7766, -18683, 4081, 18198,
                -1247, -5498, 836, -9547, 836, -9547, 1431, -2442, -4730,
                5033, -10622, 5033, -2939, -8603, 7112, -8603, -12076, 4201,
                7495, -5673, 5029, -5673, 5029, 1821, 22643, 1821, 22643,
                12198, 22643, 12198, 22643, -790, -12068, 2878, 7011, 2261,
                -5998, 11428, -5998, 1203, -4819, 10635, -4819, 2834, 2957,
                10329, 2957, 10329, -9220, 10329, -9220, -8274, -9220,
                -8274, -16223, 1536, 27098, 10611, 27098, -120, -5881, -729,
                -5881, -729, 232, 10059, 232, 7137, 3425, -1006, 3673,
                12759, 3673, -5270, -6752, 2973, -4117, -14866, -934, -8400,
                -1613, -8400, -1613, 1863, -10240, 18866, 1162, 4487, -3875,
                4487, -8489, 5202, -12334, 13444, -3562, -12691, -1504,
                -14527, -6001, -3234, -3912, -3063, -22326, -5255, -22326,
                1918, -18994, -34074, -568, -1848, 24963, 13092, 24963,
                -476, 15434, -4633, -3382, -5039, 4105, -5039, 5579, 10849,
                -8259, 10849, -8259, 12998, -1259, 5317, 11786, 5317, -9228,
                6129, -9228, 6129, -12349, -8954, -16113, -3783, -4530,
                4833, -5802, 4833, -5802, 4833, -5802, 13522, 18945, 5667,
                16250, -14831, 3887, -12197, 17278, -4975, -5486, -7909,
                -6114, -7909, -6114, 16175, 1399, 16175, 1399, 16175, 1399,
                -7829, 12633, -866, 15367, 9687, 15367, 4406, -2011, 6918,
                20807, -833, 13046, 5552, 11679, -9866, 1908, 7594, 1022,
                13942, -9777, 13942, -14550, -2657, 3504, 10307, 3504,
                10307, 3504, 569, -6775, 569, -14809, 1651, 17609, -6497,
                17609, 239, -3048, -886, -3048, -7468, -3048, -17731, -5445,
                -17731, -5445, -17731, -16322, -25469, 23854, 4791, 14080,
                13359, 2033, 13359, 2033, 7220, -7093, 7220, -7093, -7523,
                6914, -8046, 11750, 11001, -10999, 18240, 2253, -8423,
                -8798, -9086, 16466, 5704, -6710, 9250, 12103, 12434, -9127,
                -8038, -5610, 6880, 8886, 6880, 8886, 19008, -14747, 19008,
                -14747, 3533, 3677, -25044, 8981, -25044, -996, -10007,
                9620, 8695, 8938, 2713, 7280, 7255, 7280, 7255, 2369, 4079,
                2369, 4079, -4143, 5684, -3473, 7220, 7299, 7220, -1169,
                -17010, -7559, -17010, -3554, -7431, 14107, 4336, 12343,
                5468, -7202, 6056, 12397, 4125, 9464, -1531, 5293, 2740,
                4752, 5723, 4752, 5723, 4752, 3124, -5124, 3124, -5124,
                3124, -9181, 7539, -8162, 9975, 6526, -3830, -5296, -3830,
                -5296, -3830, 8221, -16078, 24496, -503, -13460, 4206,
                -13460, 11739, -17946, -8073, 5196, -12903, -523, 7014, 398,
                10051, 1040, -6032, 5170, -7464, -1277, -4234, 7040, -4234,
                -11392, 631, -11164, 20624, 32973, 333, -3077, 2026, -6913,
                2026, 7760, 11507, 7760, 841, -1671, 841, -1671, 2792, 7254,
                2792, 7254, -11071, -1886, 7425, -17218, 260, -10199,
                -31633, -10199, -31633, -10199, -31633, -241, -7928, -7066,
                -7928, -7066, -7928, -7066, 1233, -13388, -4683, -13388,
                146, 6915, -5053, 6915, -5053, -7506, 11958, -17277, 3187,
                8251, 19803, -1225, 19803, -1225, 12199, -8613, 4075, 10362,
                -3020, -9759, -427, 17365, 9572, 17365, 9572, 17365, 2030,
                -5734, -14067, -6062, 12788, 3498, -9496, 5708, -9496, 5708,
                -4768, -4156, 11178, 3468, 11178, 3468, 11178, 3468, -3356,
                10067, -462, -3119, 10749, -12859, 10749, -12859, 10749,
                -12859, 10749, -12859, -5668, -3604, -9847, 18135, -9847,
                18135, -9847, 18135, 18362, -18774, 3455, 10391, -9740,
                6281, 12861, 15163, 12861, 15163, -3838, 11416, 9565, 20858,
                -155, -17769, 8901, -17769, -1391, -4845, 6589, 13069, 6589,
                13069, 3099, 8727, -10567, 9651, -1258, 5942, -1258, 13867,
                13686, -4797, -2866, -9023, 4015, 17243, 2744, 7450, 5758,
                12112, -10731, -20478, -9404, -3701, 9815, -19311, -2372,
                6735, 13586, 1077, 3551, 9774, 3551, -13825, -3726, -13825,
                -3726, -13825, 2246, -18330, 1160, 11512, 604, 12433, -2504,
                12433, -2504, 3741, 11033, -62, 2935, -10248, 15030, -23198,
                -2632, -18000, -1313, -3363, 6548, -1260, 7594, -1260, 265,
                5017, 265, 5017, 12116, 17911, 15306, 8216, 9230, 14537,
                -17811, -2547, 2170, -9557, 11784, 14857, -1774, -11330,
                6036, -11330, 6036, -11330, -19164, -7171, 19367, -15437,
                11938, 11166, 4296, 2621, 9734, -1550, -5091, 3396, 9156,
                1922, 15125, -91, 15125, -91, 15125, -91, 11661, -4090,
                11661, -13107, 17192, -25405, -264, -9257, -920, -9257,
                11384, 1235, 5423, 16077, 5423, 16077, 5423, -10752, 17245,
                -968, -4172, -7494, 7586, -7911, -2676, 18587, 6887, 18587,
                -257, -11731, 18823, -11731, 18823, -1323, -8533, -6291,
                -9413, 11457, 10902, -17416, 4850, -17416, 4850, -2757,
                -8873, -17814, -6703, -3539, 4641, 8653, -3728, 8653, 1435,
                -4540, 6858, -3897, 6573, -3897, 6573, 4485, -11644, -2204,
                -2979, 10123, 3528, 10123, 3528, 10123, 3528, 10123, 1972,
                4535, 9623, 4535, 9623, 209, -3245, 823, -922, 12717, -922,
                12717, -15793, -15945, -3223, -11039, -12121, 7516, -3890,
                11011, -30, -6368, 2375, -6368, 14236, -4030, -2632, 3463,
                -2632, 3463, -868, 3463, -246, -8105, -246, 12058, -7994,
                9587, 1285, 3483, 6586, 3483, 1469, 3483, -9429, 6351,
                -13717, 11965, -8759, 18608, 1106, 5708, -13368, 5708,
                -13368, 6994, 2888, 12231, 5538, 12231, 6728, 7038, -15136,
                -688, -4009, 10454, 4973, 10454, 4973, -16124, 8521, -10119,
                -15524, -7259, 13725, 6552, -15103, 5174, -1112, 5174,
                -1112, 5174, -1112, 4188, 12784, 15661, 12784, 15661, 8559,
                -7081, 3794, 11451, 6074, 6786, 6074, 6786, 6074, 3193,
                -5046, 9761, -2080, 9761, 5002, 14346, 5002, 14346, 5002,
                14346, 5002, -10120, 765, -5924, -3079, -2892, -2137, 7842,
                6191, -13835, 11270, 13517, -1284, 1441, 11187, -2232,
                11187, -2232, 9790, 20173, -5558, 6737, -12650, 6728, -3038,
                -9959, -8992, -9959, 4695, -5871, 4942, -351, 7633, -351,
                -11209, 3167, -11209, 17495, 1630, 1705, 3212, 1705, 3212,
                1705, -15598, 748, -15598, 748, -15598, 17435, 418, 17435,
                -1106, -4410, -9109, -15381, -9109, -15381, -9109, -15381,
                -560, 1811, -18283, 10913, -7737, -6340, 1188, -6340, 1188,
                4600, 1188, 4600, 3677, -9478, 12087, -4039, -4876, 4318,
                -1983, -5763, 11650, 19047, -2238, -10910, -4512, 13949,
                140, 2779, -4665, -4805, 5763, -5382, 5763, -4074, -10720,
                -26667, -403, 8188, 4497, 1715, -3383, -8047, -6677, -3390,
                -9410, 14282, -3193, -5811, 171, -5811, 171, 11440, -17985,
                11440, -17985, -1033, 3284, 3491, 10366, -260, -3983, 23,
                -8775, 1691, -8775, -2775, -8775, -2635, 6710, 4592, 11975,
                -12185, -14329, 23811, -80, 13328, 8108, 13328, 8108, 13328,
                8108, 10845, -2775, 10845, -2775, 10845, -2775, 7958, 2808,
                14558, 9518, 14558, 9518, 14558, 10150, 14787, -1066, -1078,
                -1066, -1167, 18549, 24622, -2432, 10759, -18349, -4201,
                6377, 8654, 5435, 8654, 5435, -4913, -1087, 9989, -1087,
                9989, 29046, 1391, 4764, 11520, -17411, 13564, 24152, -2744,
                21813, 739, 19428, -1049, -4832, -19159, 797, 6664, -12010,
                6664, -12010, 6664, 3281, 9129, 3693, 19124, 1960, 19124,
                -1441, -5725, -6558, 3372, -11263, -245, -7583, -745, -2397,
                4436, -6024, 9625, -12914, 16466, 14471, -13624, 8322,
                10894, -10094, 1751, -640, -9089, -640, -7592, -7332, 16052,
                -4829, -2100, 6258, -8303, -9570, -1514, 14590, 6001, 14590,
                459, 3264, 9411, 3264, 5719, 4608, 5719, 7293, 4441, 9226,
                -3624, 4997, -4374, 4997, -4374, -17273, -9694, -17273, 459,
                -7773, -9124, -7773, -9124, -5943, -4252, -4866, 1082,
                -4866, 7572, 5925, -3271, -17516, 16602, -17516, 16602,
                7871, -2369, 9985, 1530, 9985, 1530, -14240, 2556, 8442,
                -15869, 27903, 357, -6757, 6427, -1806, -8395, 24624, -8395,
                24624, -3714, 11281, -13506, -1113, -5487, 6056, -5487,
                6056, 9290, -23886, 9290, -23886, 9290, -23886, 9290,
                -23886, 2048, 9217, 3020, 16044, -6918, 16044, -6139, 2379,
                -5527, 8451, -15615, -4411, -6564, 10849, 4717, -2448, 4717,
                -2448, 4717, -2448, 4717, -2448, -14021, 6083, -14021, 6083,
                -14021, 52, -14021, 52, -14021, 52, -5156, -9792, 19077,
                -1175, -8107, 4769, 14741, 18968, -17944, 1638, -5015,
                -4279, 10414, 9427, -20637, 2194, -20637, 2194, -5851,
                -13341, -5851, -13341, 11611, -13341, 11611, 22006, 355,
                22006, 355, 19689, 3774, 19689, 3846, 19689, 3846, 6047,
                8977, 6047, 8977, 6047, -1369, -7028, 2581, 11081, 2581,
                11081, 5882, 11081, 2955, 9367, 2548, -3351, 8691, -16003,
                -11706, -19857, 618, -5324, 31202, -111, 5178, -3190, 10058,
                -4222, -16418, -8798, 7727, 11410, 7829, 8801, 4085, 8801,
                17908, -7425, 379, 4908, -10045, 4908, -10045, 16, -10045,
                16, -3513, -8669, -3513, 7073, 4312, -9243, -20289, -1585,
                -1679, -18499, -509, -18499, -509, -13142, -10723, -13142,
                -10723, -13142, 24508, -16917, 1154, 851, -8969, 787, -4698,
                -14534, -4698, -14534, 812, 16213, 1473, -6346, 13073,
                -4500, 10972, -3329, 4317, -7668, 11788, -7668, 11788, 5483,
                12271, -4058, 4766, -4592, 8225, 5046, 2498, -3598, 2498,
                14987, -9066, -2720, 2718, 1035, -5392, 1035, 9032, -9364,
                9032, -9364, 3876, -2138, 13204, -2151, 25527, -294, 2381,
                -6021, -5016, 4882, 13697, -34, 1451, -6391, 1451, 6573,
                -5770, 3695, -2739, 1144, -9771, -12209, 16965, 1307, 6527,
                -3578, -14402, 440, 62, 12167, 62, 11340, -1688, 2298, 3338,
                5133, -21428, -8237, -21428, -1454, -5355, 11532, -1899,
                -14105, 962, -14105, -14164, 3766, 528, 9043, 528, 11574,
                22144, 1238, 4679, 9103, 9159, -17473, -302, 6054, -13237,
                -1673, -6729, -14567, -3007, -9006, 9800, 873, 9800, 873,
                -5100, -3812, -5100, -15311, 591, 11658, 1737, -3887, 5122,
                -5845, -11505, 1360, -4304, 6273, -4304, 11585, -4304,
                11585, -11397, -796, -8715, -16431, -742, 3495, 4151, -4258,
                9448, -4258, 9448, 13998, -9403, 12077, 11052, -1379, -6057,
                -15755, 4889, -15625, 738, -15625, 738, -12913, -3933,
                -20583, 2013, 13113, -908, 11778, -10482, -10648, 2875,
                -3217, -3626, -3217, -3626, 15297, -3162, 15297, -206,
                -2535, -12604, 14307, 5567, 11602, 458, 908, -7290, 908,
                12567, 21295, 2644, 2737, -7467, -8682, -7467, -8682, -7467,
                -8682, -7467, -3513, 1768, -8692, 1768, 3775, 3447, 3775,
                -4651, -16047, -7396, -16047, -7396, -16992, 2812, 4007,
                2812, 4007, 11622, 4007, 11622, 4007, 435, 3185, -11233,
                3185, -5769, -7235, -1073, -3120, -1073, 5413, 2866, -17061,
                -16212, -6852, 7607, 4948, 1907, -2337, 12535, 5469, 5290,
                4650, 31455, -9576, 31455, 1161, -14742, -3204, 10265, 6109,
                -4741, -12104, -5066, -12104, -3791, 3673, -3791, -17632,
                -11600, -3551, 4777, 15051, 1817, -3025, -6986, 20157,
                -4478, -2869, 5062, -19223, 5062, -19223, 5062, -7094,
                -6504, 9951, -6804, -12958, 5097, -8364, 8737, -6187,
                -13814, -4482, -11355, 7324, 5436, 490, 5436, 490, 5436,
                490, -1889, -14870, -1889, 7307, -17143, -19175, 726, -5412,
                -5819, -360, 10288, -6122, 10288, -6122, 10288, -6122,
                -2039, -6122, -2039, -4375, 10560, 9430, 1342, -12227, 5483,
                -12227, 5483, -20474, -709, 5961, 80, 3678, -11110, -453,
                -3069, -5543, 2341, -5543, 2341, 10907, -1743, -8498, 14878,
                -6340, 13652, 3103, -7125, 3103, -7125, -7227, -7125, -7227,
                -7125, -12632, -3165, -12632, -3165, -1273, 5300, 18073,
                11570, -23388, 1174, 13245, -6655, 13245, 5573, 2868, 9282,
                17198, 672, -11709, -7069, -11709, 16046, -11709, 16046,
                5463, 16046, 5463, -10037, -2760, -10037, -629, 10436, 2816,
                10436, -21735, 5088, -14968, 1122, -5107, -3311, -6249,
                -11505, 594, -4722, 9442, -4722, -10701, -4722, -10701,
                13119, 11045, 20366, -295, 6072, 13276, -1707, 6326, 7593,
                6326, 18154, 5839, 7226, -3833, 7226, 6567, 12371, 4231,
                8999, 9627, -736, 9627, -736, -16164, 10559, 11186, 1210,
                -3894, 20075, 4751, 6081, 2414, 6081, 2719, 22401, 6215,
                22401, 2729, -3117, -6335, 6828, -6335, -1689, 4641, 5242,
                4641, -2240, 6985, 3809, 6985, 3809, -2926, 6919, -2926,
                4367, -13220, 3683, -13220, 17516, 8342, 3674, -9156, 20320,
                844, 2591, -6749, -3099, 9280, -9663, -13244, -3426, 5057,
                -13836, 3998, -13836, 3998, -10321, 22657, -13130, -897,
                -6360, 4923, -16047, -1385, 11177, 28881, -128, 6415, -1509,
                6415, -1509, 6415, -29073, 2269, -15075, -9641, 2654, 8155,
                6638, 2796, -4432, 17219, -2687, 7740, -16144, -7354, -753,
                3911, -4375, 9391, 869, 9391, 869, -7113, 14196, 13491,
                -11392, -16799, 3500, 10241, -3662, -4438, 520, -4438, 520,
                -1671, -13875, -1671, -13875, 22417, 128, 1961, 12914, 6966,
                -14264, 9224, 7405, -13465, -22540, -407, 11416, 10940,
                11416, -2534, -4748, -18303, 1072, 1, 9305, 1, 9305, 1,
                -1528, 12491, -1528, -10854, 3932, -4219, -2326, -8020,
                13944, 3964, 7904, -4384, -11100, -577, -2947, -16498, 1012,
                1542, -14086, -5495, 8732, 16137, 1808, 9169, -3847, 9169,
                -3847, 117, -4521, 11843, -4521, 11843, -1332, 9445, 7110,
                14384, 7110, 14384, -5288, -16833, -7570, -16833, -1562,
                6896, -3328, 4119, -8365, 4119, 1356, -8772, 1356, 7381,
                7009, -15362, 2230, -9270, 12079, -9496, -4572, -4316,
                13054, -2080, 4047, 12354, 4047, -12361, -9081, -13604,
                10867, -9232, 14883, 16961, -1511, 6447, 11241, 95, 6334,
                14177, 6334, -16187, -1205, 11181, 9848, -8967, 8496, 5804,
                -9733, 16539, 5048, -7519, 5048, -7519, -13156, 2757,
                -13156, -3932, 11463, 2592, -16960, 4815, -2791, -8665,
                -2791, -8665, 1457, -986, 8550, 5597, -6011, 9902, 18981,
                -1085, -6412, -8043, -6412, -8043, -3212, 15416, 5790,
                15416, -32656, 15416, -32656, 15416, -32656, 76, 9792,
                -30392, 369, -6197, 6541, 9262, 6541, 9262, -17639, 9262,
                -17639, 408, -1984, 9933, -1984, 11288, -10733, -8375,
                12826, -11478, 6425, 14130, -26943, -3241, 10544, 2357,
                1179, 1878, 1179, -7088, -16378, -4282, -14398, 9960, 9526,
                -2533, -5986, 5634, 2840, -5238, 13635, 15614, -19888,
                24115, -2533, 9627, -4657, -10424, 580, -10424, 580, 2216,
                580, -9196, -1433, 6495, 16304, 463, -12276, -1470, -6025,
                -15065, 23426, 14870, 984, 2595, -17860, 12171, 7233, 6271,
                -3345, -7173, 3304, 6190, -5447, -2044, -6379, -2044,
                -15382, -1877, -11975, -4537, -11975, -4537, -11975, 5371,
                9012, 17564, -1508, -4198, 20262, 7877, 20262, 2668, 15225,
                -631, 7755, -14962, -19925, 1445, 947, -323, 947, -12228,
                947, 9789, 15112, -23573, 15112, -23573, 2465, -10587,
                -19111, 3356, 12241, -5533, 5764, 7505, 5764, 7505, 5764,
                -18562, 4610, 8656, 5817, -11550, 7707, 9096, -8294, 9400,
                -11488, 9400, -11488, 9400, -11488, -8317, -577, 6849, -577,
                5523, 3481, 4963, 4192, 4963, 4192, -454, 7296, -454, 4912,
                3199, 4912, 16872, -8072, 16872, -8072, 16872, 914, 14168,
                370, 7889, -1928, 7889, -1060, 8480, 5062, 12549, 748,
                -8833, 2590, -11093, -5477, -11093, -1871, -11093, -1871,
                1389, -1871, 1389, -1871, 1389, 4080, 4467, 4080, -4797,
                4080, -4797, -10910, 2966, -9201, 2098, -8619, -18241, 6837,
                2327, 2914, -1516, 2914, -1516, -8264, -5656, 11500, -10090,
                12306, 7864, -15574, -17963, -4088, 6738, 8568, 17554, -152,
                -11619, 488, 4009, -4563, 4009, 6493, -11598, 7874, 4662,
                12022, 4428, 10424, -18338, 2059, -18338, 2059, -2023,
                -6908, -2023, 6556, -3911, 7329, 11506, -14633, 10741, 3056,
                -9336, 4256, 16863, 5124, -4733, -3739, -8405, -10611, 6765,
                -14780, -4599, 6081, 8474, -8651, 8675, 12240, 9990, 8543,
                -3807, -2624, 7857, 8953, 10939, -3439, -10088, -24438,
                1156, 13768, -5862, -1478, 8876, -3639, -21134, 21627,
                12139, 1117, -5412, 9457, -5412, 9457, -5412, 12348, 6202,
                -13490, 14648, 7168, 9448, -3132, -9781, -977, 13507, -4509,
                10715, 17392, 8893, 208, 8893, 208, 4210, 9578, -4285,
                16490, -9278, 16490, -9278, 16490, -2294, 8320, 1417, -5938,
                -2026, -6945, -15246, -6945, -15246, 1975, -15246, 1975,
                10391, 7429, 9967, -7231, -13044, -11150, 19831, 1513, 5203,
                -6140, 5203, -6140, 5203, 4376, 12842, -2681, 4885, 3586,
                8549, 3586, 5575, 10465, 5575, 10465, -8194, 17176, 771,
                -4668, 6845, -5389, 6845, -5389, 6845, -5389, 2138, -5389,
                2439, 9546, -22217, -1427, -9725, 21053, -9725, 21053,
                -1180, -1644, -16756, 7896, -16756, 2578, 6118, 4448, 5559,
                -3527, 5559, -1953, -8560, -119, -3608, 7824, 6415, 11025,
                -5648, 9897, -4113, 8746, 19770, 26389, 6660, 7991, 3429,
                -9627, -719, 13812, 6152, 13812, 1723, 6459, -19580, 6459,
                -19580, -12830, -25289, 980, 20020, -498, -11917, -1184,
                16368, 7653, 16368, -8012, -2860, 1175, 7737, 2882, 1391,
                10518, 1391, -4636, 21661, -3211, 5011, 13142, 3911, 13142,
                3911, 13142, -4607, -5449, -9434, -18705, 245, -4969, 13174,
                -26579, -4615, -989, -286, -9715, -286, -1718, -6282,
                -10910, 9906, -10343, -18323, -733, 8161, 922, -5661, -3909,
                -5661, -11238, -19598, 2108, 2404, -559, -7873, -559, 14192,
                201, 14192, 201, -1554, 10362, -1554, 10362, -12533, 3362,
                716, -4920, 716, -2294, -7569, 11526, -5368, 11526, -5368,
                10093, 3640, 6759, 7970, 4735, -4294, 9916, 7318, -12926,
                -10407, -7774, -15499, -7774, -15499, -317, -2504, 3937,
                -2504, 3937, 6158, 3937, -10085, 21984, -2991, 16074, -689,
                -11408, -14684, 17014, 9149, -5941, 7092, 12181, 7092,
                12181, -3278, -10092, -13528, 19512, 3276, -13597, -3997,
                -3195, 2079, 6886, -17941, 6886, -17941, 6886, -17941,
                -1995, -19282, -18726, 2793, 6165, -10257, 7491, -11936,
                -21546, -1532, -11662, -17250, 21333, -881, -948, -3378,
                10291, -909, -6159, 4537, -6159, 4537, 11157, -3759, -4837,
                14572, 5785, 14572, -10924, -1529, -675, -2236, -675, -2236,
                -675, -2236, 8097, -2236, 10168, 35, -7890, 5470, -7890,
                5036, -9333, 12189, -6047, -14260, -534, -13008, 4257,
                -13008, 3973, -6141, 5000, -3218, 1223, -3218, 1223, -11690,
                4855, -5737, -14305, -5737, -14305, -6318, -14305, -6318,
                19567, 93, 19567, 93, 11597, 3554, 2344, 11453, -23560,
                -2321, -7335, 12903, -13487, -8332, 4709, -5068, 1840, 8756,
                6027, -3411, 6027, -3411, 6027, -6383, -10894, 21235, -133,
                4870, -16357, 3428, 2600, 10978, 2600, 10978, 3345, 6355,
                -14185, 10995, 5880, 16648, 5880, 16648, 5880, 16648, 3181,
                4607, -17824, -4437, -17824, -22064, 26946, -25632, -2132,
                10184, -4173, 6816, -11053, 1097, 6882, 1314, 6882, 1314,
                6882, 1314, -8985, -525, -5476, 4428, -12464, 5853, -12464,
                5853, -12464, 13487, -12464, 13487, -1647, 2251, -16069,
                2251, 4621, -4488, 12897, -4488, 12897, -4488, 12897, -845,
                4241, -1521, 4289, -1752, -9640, 4775, -9640, -5418, -13704,
                -9, -5342, 9695, -5342, -11544, 19899, -1980, -2456, -7100,
                22309, -871, 13135, 1229, 15321, 1120, 6239, 5692, -16152,
                2405, -16152, 2405, 12248, -1238, -6688, -3112, -313,
                -10944, -313, 1813, 4706, 1813, 6802, 2495, 13180, 7176,
                13180, 7176, -15780, -988, 5131, 11283, 2827, -1451, 3778,
                -39, -14064, -39, -14064, -39, -14064, -39, -2595, 2301,
                -2595, 8970, -7032, -15600, -22680, 5624, -13967, -504,
                -10149, 3413, -10149, -10041, -10149, -10041, -8368, 10907,
                4614, -5158, 3426, -1747, 6873, 12856, 1142, 4174, 5294,
                4174, 11264, -702, -3437, -410, -90, 19541, -90, -3034,
                6647, -3034, -10735, 2541, -10735, 2541, -10735, -478, 8486,
                9767, 8486, 9767, 4600, -9285, -19582, -10151, 7007, 16299,
                8207, 5590, -6563, -9530, -6563, -9530, -16965, 3200, 13583,
                -599, 14934, 1643, -13108, -6133, -13108, -6133, -13108,
                -6133, 3138, -2523, -5718, -2523, -5718, -2523, -1637,
                10125, -943, -13326, 3553, 7155, -12811, -1925, -5758,
                -3660, 14769, -6676, 14769, -6676, 7077, -1606, 7077, -1606,
                7077, -1606, 2970, 5122, 5085, -16176, 5085, -16176, 5085,
                -2914, 9559, -560, 3471, -7146, 175, 5339, 175, -3459, 1443,
                -13730, -262, -10295, 26606, 102, -3288, 5753, -3288, -3826,
                -4289, 7370, -4289, -4477, -1503, 3222, -1503, 3222, -6172,
                9272, -7075, 6281, 13260, -19014, 4756, 13654, -8331, -9503,
                6134, -2093, -6684, -2093, -6684, 5390, 11572, -3747, -5559,
                -3287, 3374, 11368, -23413, 11368, -23413, -240, 3574,
                -10669, -3300, -394, -15, -8354, -15, -7823, -16318, 14782,
                8230, 3453, 5892, 16266, 24358, -2900, -15187, 2771, -9790,
                19078, 14207, -20421, 12720, 3501, 20395, -8247, 20395,
                6949, 302, 6866, -1174, 6866, 18520, 269, -7805, 15964,
                -16742, -6250, -17450, 598, -3076, -8825, -3076, -8825,
                -10271, -8825, 4354, 9476, -9389, 13245, -7539, 7422, 6136,
                -14215, 7683, -7672, 4426, 8666, 17773, 536, 2247, -1483,
                -4461, 8462, -4461, 11857, -7424, -5264, -12824, 22303,
                2795, -4297, -18912, -5020, -18912, -6025, 2388, 8561, -714,
                9203, 7849, -4863, -11802, -4640, 6067, -1471, 8462, 2791,
                6673, -8378, 15201, 1533, -10909, -2882, -10909, -2882,
                -10909, -2882, 9812, -3653, -5400, -7696, -5400, -7696,
                -5400, -7696, -5400, -9896, -5400, -9896, -10186, 3699,
                -7146, 1161, -7146, 1161, -786, -4076, -3765, -5538, 8264,
                8544, 16360, 24769, 1639, 8039, -10983, -19513, -1627, 2266,
                -4052, 2266, -4052, 2266, 1179, -319, 9618, -521, 9618,
                -521, -6392, 17491, 9285, 334, 341, -1060, 341, 9165, 341,
                5972, 6213, 5972, 6213, 8709, 6213, 8709, 15058, 12257,
                -14668, -21890, -602, -1541, -10490, -1541, -10490, -1541,
                -10490, -1541, 4383, -19298, 749, -1216, -17163, -1216,
                -1778, 4865, -19824, 4210, -8809, -8965, -8809, -8965,
                -14244, -8857, -14244, -8857, -14244, 18491, 1778, -4598,
                -4635, 3595, -6718, -17869, -6718, -17869, 4692, 6363,
                -4926, -3885, 825, -8617, 825, 4286, 17046, -5, 20, -13154,
                20, -14464, -3364, -14464, -3364, -15396, 6473, 5763, 12119,
                12434, -7192, 11814, -6008, 8895, -1739, -2829, 9836, -2829,
                -4523, 15479, 12963, 4830, -16503, -8421, -16503, -8421,
                -16503, -3643, 6606, 5186, -8803, 18159, -8803, 18159, -214,
                -10245, 2163, -10245, -5436, -7828, -2313, 2514, -11906,
                2514, -5793, 13768, 23809, 988, 5809, -15764, 6205, -2857,
                6647, 20713, 1037, 5090, -5586, 13578, 450, -9936, -7167,
                -9936, -1120, 15072, 200, 15072, 200, -3129, 4454, -7747,
                -3980, -10423, 3713, 10197, 1636, 5414, -11821, -3042,
                -7748, -12125, -8633, 9872, -17891, 510, 8783, -3587, 8783,
                12420, 8783, 12420, 3699, 9754, -15315, -10823, -5361,
                -9607, -5361, -9607, -3313, 8260, -7912, -5958, 13701, -239,
                13242, 1345, 13196, -32584, 1535, -1614, -1853, 10511,
                -1853, 10511, -1853, -6996, -8901, 11587, -6265, 7563,
                14837, 2620, 10031, -2650, -1549, -15812, -1549, -15812,
                -1549, -12695, 2605, -6985, -12237, 19625, -13580, -5724,
                -15652, -2367, 10235, 8926, 10235, 7136, 2150, -14824,
                10037, -14824, 10037, -2223, 7771, 3375, -14542, 2477,
                -14542, 4704, 1892, -8196, -17937, 1115, -1581, -6789, 2944,
                -5782, -3876, -182, -3876, -182, 12826, -5140, 12826, -5140,
                12826, -5140, 10565, -13779, -2918, -13779, -2918, -2553,
                7706, -622, -7532, 132, -15357, 8968, -15357, 8968, 8228,
                3934, 8228, 3934, -9031, -19562, -2034, 5881, 11368, 2615,
                -5099, 16151, -1196, 4819, 2955, 3211, -14224, -2386, 11900,
                22249, 13628, 22249, 13628, 22249, 340, 15631, 6414, 11025,
                -17793, -7751, 3695, -9015, -2560, 342, -7636, 342, -14255,
                8790, 16861, -5333, -17276, -12350, 26069, 7501, 26069,
                7501, 26069, -702, 6043, 5735, 5288, 2555, 10876, 1097, 659,
                -7035, 659, 13868, -10702, 13868, 2977, -10061, 1869, -5568,
                -20906, -12268, -20906, -12268, -20906, -1378, 7944, 11880,
                7944, 24996, -49, -2197, 14001, 23556, 197, 4947, -13367,
                847, 3176, -6307, -13558, 7881, 6090, 6947, 6083, 4769,
                6842, 2680, 9263, 5939, 9263, -1304, 6126, 1049, -12713,
                -5599, 4971, 5160, -4562, 5160, -13344, -1480, 16423, -6162,
                16423, -6162, 16423, -8104, -3513, -2940, -5233, -13714,
                -689, -1123, -9110, -1123, 7525, 6945, 7525, 6945, -15994,
                14776, -12866, -8802, -6867, -8802, -6867, -8802, -6867,
                -3535, -18561, -9588, -18561, 2421, 2611, -7944, -1315, 833,
                -16740, 833, -4154, 8592, 13026, 1354, -6977, 1354, -6977,
                -10907, -6977, 12845, 4962, 13337, 5241, 13337, 5241,
                -10015, 1574, -10015, 706, 11459, 11869, -7131, 3728, 3651,
                -9984, 12933, -18209, -2734, 8419, -2445, 8419, -2445, 2404,
                -5113, 14089, -22668, -14263, -1103, 7217, 854, 2437, 21554,
                -3667, 10797, -19552, 6590, -17969, -2195, -4206, -5690,
                -7783, -15794, 4248, 11139, -5417, -12845, 5063, -2731,
                -7969, -2031, -8270, 21452, -1760, 2572, -2944, 8935, -2944,
                -176, 6429, -176, -7126, 12723, -4336, 10897, -7085, -11867,
                -2834, 9232, -11, -4680, 3970, -4680, -6798, 17144, -6798,
                17144, 2829, 17144, -13196, -10870, 8091, -13710, 4240,
                -1322, 6571, -1322, -5829, 5064, 12489, -1389, 12764, 5046,
                12764, -2274, -6894, -3494, -10168, -1019, -7957, -12258,
                -15300, 2121, -6621, 1567, 5890, -2057, -1883, 1702, -1883,
                6627, -2937, 3586, -13406, 17438, -7688, 10997, -11765,
                7367, 10752, -17541, -1620, 8156, -19620, 2772, 4705, 4658,
                -5275, -5072, -5275, -15751, -64, 1694, -5802, 1694, -5802,
                1694, 15549, -366, 10184, 9287, -2528, 8163, 10817, 8163,
                10817, 8163, 10817, -17604, 8499, 20296, -29927, 327, 18433,
                6969, 18433, 6320, -3043, -9524, 419, 1044, 6272, 1044,
                -6773, 30324, -446, -9367, 2149, 3733, -5790, -1097, 4724,
                10670, -19053, 9342, 25653, -5500, 2175, -2297, -8462,
                -5511, 7110, -19494, 7110, -19494, -816, -5156, -1039,
                -10650, 1078, -2093, 9186, -531, 9286, -1822, 9461, -3489,
                9461, -3489, -1411, 13101, -7358, 13101, -7358, 13101,
                18426, 10990, -22688, 892, -6746, 3929, 9416, -15875, 11055,
                9235, 16172, 10256, -7629, -7384, -13229, -5169, -13229,
                -5169, -13229, 170, -2857, -5557, -2857, 621, -2857, 621,
                15471, -4772, 15471, -4772, 15471, 498, -9379, 9866, 18042,
                2477, 13687, 44, -10662, -10465, -10662, -17665, -3026,
                -9232, 3760, -3347, -12093, 20687, -12093, 20687, -9317,
                2088, 8358, 281, -15078, -24243, -15078, -24243, -4342,
                -3130, -9176, 1958, 8429, 936, 8429, 936, 8429, 936, 5618,
                -5915, 4920, 3340, 11742, 2101, 2812, 8631, 10664, -16507,
                -3310, -8322, -17739, -13109, -1842, 7593, 3988, 10623,
                -4058, -3808, -8766, -3808, 5582, -517, -9026, 3413, -11531,
                2467, -1761, -7364, -1761, 6152, 19704, 16428, -4485, -9382,
                -10794, -696, -185, -4349, -185, -3929, -185, -3929, -185,
                -14674, 21239, 25597, 5895, 20706, 1918, -9298, 2075, 8423,
                8027, 8423, 8027, 10916, 1201, -9391, -8214, -9391, -16425,
                -3552, -8931, 5264, -8931, -15348, -817, 8930, -6106, 8930,
                -6106, 8930, -850, 3568, -850, -634, 8456, -634, 8456, -634,
                8456, 3980, 3913, 1439, -389, 1439, -389, 12787, 4113,
                -8241, 9290, -8241, 9290, -2393, -10720, -13965, -10720,
                -13965, -10720, -13965, 21154, -781, -6968, 6095, -6968,
                6095, 2412, 6095, 2412, 10724, -5032, 10724, -5032, 10724,
                -5032, -3970, -10668, 4301, 3237, -12863, 555, -746, 3719,
                -12699, 3719, -12699, 3719, -2615, -2625, -11003, -2625,
                -7762, -5189, -10536, -3066, -6487, 6268, -6487, 6268, 7109,
                1575, 4549, 1575, 6129, -16421, 24851, 17561, 618, -6216,
                -19854, -22513, 17208, -1732, -5537, 15514, 2789, -14951,
                625, -17459, 4477, -6130, 5655, 7719, 5655, -2834, -2826,
                15512, 1267, 10497, 8759, -6391, -3656, 7078, -5992, -4297,
                -5992, -18542, -8110, -17984, 4829, -6459, -1422, -9045,
                -1422, 5285, 2442, -6068, 2637, -6068, 2637, -6068, -16318,
                -2372, 8965, -1485, 3602, 18977, -6084, -4352, -5686, -3199,
                -5686, -3199, -6826, -15202, 4748, -14243, -1499, 1585,
                2535, -10892, 2537, 14014, 22641, 14014, 22641, -10262,
                22641, -10262, 22641, -10262, 22641, -10262, 22641, -1998,
                -6505, 1262, -6604, 11248, -1070, 8419, -10258, 8419,
                -13653, -2432, -3009, -5012, -1163, -5157, -1163, -6056,
                18339, -26436, 1538, -2225, -7213, -2225, 7983, 1810, -8733,
                207, -5760, -3742, -5760, -3742, -5760, -16150, -1931,
                -1731, 7642, -1731, 7642, -1731, -837, 14768, -837, 14768,
                -837, 14768, -837, 3065, -9517, 4689, 13818, 7142, -10977,
                -7335, -2241, -6825, 3013, -6485, -9690, 14953, 6866, 5053,
                2549, -9768, -13824, 962, -14296, -4062, -14296, -4062,
                -14296, -28681, -152, 7596, -12573, 7596, -2826, -9435,
                -2826, -9435, 25019, -11556, 2851, -9627, 13825, -7654,
                5744, -1096, 2209, 3311, 3917, 3311, 3917, -7381, 3917,
                -12424, -988, 20519, 393, 16423, 6367, 16423, 2246, 11601,
                5237, 11601, 12967, -9341, -11918, 18640, 28034, 505, 2872,
                3083, 8700, 3083, 8700, -9163, 16936, 22031, -4683, 2807,
                4134, 15931, 400, 2406, 20274, -24895, 1679, -11777, -21074,
                2914, -10493, -18160, -834, 2276, 7649, 2276, 7290, 19232,
                -8022, 19232, -8022, -15331, 1046, -2134, 1046, -5997, 6684,
                18161, -25152, 13320, -1471, 8273, 3769, 8273, 5756, 14591,
                -306, 4694, 5824, 1761, 12302, 1761, 12302, 1761, -3021,
                -8631, -2937, -8631, -2937, 1629, -8932, 1629, -3336, 1629,
                -3336, 4871, -3336, 4871, -3336, -1333, -3336, -1333, 2757,
                -1333, 4178, 4492, -6559, -10193, -12275, -10193, -12275,
                -20481, -819, -2309, 6478, -8908, -17498, 2992, -16529,
                18843, -648, -5769, 3762, 6946, 408, 2372, 408, 5822, -3211,
                6470, 14693, -18153, -3461, -6256, 12567, 23239, -216, 678,
                3730, -7562, 3730, -7562, -13613, -7562, -13613, -17435,
                -1091, 1225, 5459, 1225, 7985, 1225, -11487, 3757, -11487,
                2872, -3568, -9332, -12947, 13481, 1618, 2865, 16744,
                -24215, 1634, 11271, 3585, -6567, 3585, -6567, -5681, 9884,
                20463, 32, -4423, -10622, -4423, 1390, -8358, 8933, 17863,
                8933, 17863, -19304, -858, -12955, -15956, 3377, 20727,
                -4262, -1939, 5040, 18969, 5040, 18969, 1133, 6532, 9923,
                20511, 401, 11246, 19941, 4801, -21529, -1917, 6214, 12880,
                7063, 12880, 7063, 8840, 9850, 2372, 3890, -15279, -5786,
                5750, -10979, -8835, 1376, -5187, 1376, -6820, 324, -8622,
                6382, -12682, -140, -7567, 3183, -7567, 3183, -7567, 3183,
                10574, 7349, -19359, -16553, -2952, -10767, -9852, 10688,
                11202, 9858, 6023, -3775, -1266, -9603, -1266, 6570, -14834,
                -16738, -1802, 12655, -7963, 12655, 3792, 4827, -5342, 4827,
                -5342, -3833, -5983, 7104, -15628, -29826, 1078, -14372,
                1311, 1382, -3824, 1382, -2946, 1382, -12061, 6094, -12061,
                16656, -20145, 2402, 5831, 7317, 5831, 4764, 7682, -8395,
                7682, -8395, 7682, -8395, 7682, -8395, 3258, -7961, 3248,
                -10101, -9514, 4837, -11438, 4837, -11438, 5177, -11438,
                18976, -854, -7207, -2040, -7198, -2087, -6572, 11355,
                -19589, -2718, -13881, -2324, 644, 8330, 644, 5200, -5534,
                5200, 9806, 8831, 9806, 8831, 4732, -9152, 20621, -1089,
                9597, -11162, 15691, -5099, 3106, 9083, 7570, 9083, -18421,
                1924, -18421, 1924, -18421, 4678, -5088, -11594, -618,
                -5036, 1321, -5036, -3352, -6950, -3352, -6950, 16686, 6680,
                3306, -5931, -1146, -5931, -1146, 12725, -2179, 12725,
                23506, -343, -4413, 1942, 9232, 1930, 3024, -7970, 13858,
                -7970, 13858, -18995, 1423, -13191, -13069, -13191, -13069,
                -13191, -13069, -13191, -10535, -17333, -12223, 19567, 3983,
                -6272, -8136, -12074, 4592, -6620, 2821, -1056, 7821, -2018,
                7821, -2018, -6103, 16412, 4650, 16412, 29163, -841, -18729,
                513, -6672, -22316, 21415, 12725, 937, 207, -6696, 207,
                -4930, 14281, 18409, -5537, -12528, -14858, 4335, 11209,
                -2128, -8483, -417, -1677, 8294, 17755, 1504, 12132, -2638,
                10589, 332, 9462, -17765, -1634, 13060, -966, 2938, 12407,
                2938, -9910, 18884, 205, -10531, 9174, -10531, 17589, 700,
                21156, 7554, 21156, 7554, 21156, 8214, -8375, -3399, -231,
                -5756, -231, -5756, 2201, -5888, 10978, 18919, 5352, -11613,
                3887, -10057, 2608, -2320, 696, -1830, -1124, -5773, -1124,
                -5773, -15046, 12853, 5533, 10836, 18891, -8825, -4495, 38,
                -7516, 38, -7516, 38, 7267, 16711, 1646, 21322, 10416,
                21322, 3352, 16358, 2385, -22546, -622, 2973, 2619, 13945,
                11603, 9888, -19111, 1482, 12047, -7344, 17122, -1314,
                -13712, 4285, -13712, 4285, -13712, 7563, -18639, -1075,
                -9253, -2904, -12384, 25570, 78, -4531, 8979, -11866, -9392,
                -800, -4251, 4442, 3689, -4053, 3689, 5064, -11355, -2126,
                3428, -9756, -13636, -18681, 26121, -14153, 5781, -5832,
                14407, 1421, 1226, 7840, -16020, 22714, 10177, 21678, -1102,
                16927, -7973, 16927, 8049, -13612, 4451, -5291, -564, -6665,
                -564, 472, 13498, 472, -974, 472, -974, -12107, 14984, 7325,
                -12600, 3860, 14899, 3860, 14899, 5580, 14899, 4081, 2067,
                13149, -41985, 13149, -41985, 26, -9876, -16703, 6682, -753,
                6682, -753, -7736, -3480, -7736, -3480, 436, -11181, 436,
                -16872, 5136, -16872, 11672, 19091, 4753, -10091, -10939,
                -7631, 7249, -10645, 7249, -10645, 7249, 3473, -1524, 13178,
                5419, 13178, 5419, -16501, 10869, -3496, -3403, -14330,
                -3114, -14330, -18138, 4607, 15762, 2639, 12818, 17718,
                24099, -7427, 3703, -9906, 7742, -9906, 7742, 13074, -16519,
                24832, -411, 10881, -4299, -14571, 21800, 30236, 130, 17312,
                5763, -171, 1926, -13460, 1926, -16891, -4241, -16891,
                -16759, -1433, 6782, 25834, 1141, 6048, -14346, 1046,
                -14346, 1046, -10800, -793, 11440, -24709, -3632, -2732,
                2179, 13020, 2179, -6520, 12238, 13895, -1229, 3861, 4670,
                -11833, -12136, -12284, 18116, 1865, -5624, -10897, 5012,
                12495, 873, 11610, 18815, -1674, -9054, 14188, 7111, -10948,
                -12271, -12024, -12271, -12024, -12271, -12024, -17339,
                -2333, 10683, 1105, 8102, -2001, 8855, 1201, 8855, 1201,
                -7315, 21243, -7315, 21243, 1087, -7359, -15828, -13363,
                15301, -16720, -1178, 5675, -19618, 3229, -2179, 13032,
                6064, 13032, -4260, 13032, 6615, 2642, -5478, -14335, -483,
                -2165, -485, 2177, 11717, 2177, 8773, -10385, 16253, -5318,
                -3906, 9400, -11374, -8993, -16355, -5316, 5463, 2526, 8191,
                -2461, 21599, -11229, 21599, -5066, 4208, 1103, 5102, -9462,
                2620, -8807, 1205, 9712, -9056, -5345, 3411, 10868, -6424,
                -11225, 18909, -1708, 8887, 1410, -4315, -14822, 3630, 4758,
                -1235, 2012, 2150, 2012, 2150, -515, 15369, -515, -14238,
                8662, -19161, -665, 12180, -10697, 2548, 699, 11284, 699,
                -11779, -6300, -11779, -2861, -11779, -2861, -8957, 3475,
                2914, 2009, 2088, -8637, 2088, -7839, -508, -1884, -8054,
                -1884, -6032, -409, 7468, 1615, 7468, -4205, -7237, 7502,
                -17507, 7502, -17507, 2665, -17507, 246, 3311, 3744, 3311,
                -20096, 4302, -20096, 1454, 7061, -4156, -4583, -10850,
                -4583, -4637, 14142, 3593, -6373, -5977, -6373, -8034,
                13148, -8498, 16706, 4061, 15951, 4791, 3139, -7797, -17531,
                -7084, -15544, 1783, -7585, -4427, -15901, -15152, -31196,
                -194, -3223, 22432, -3223, 22432, -3223, 22432, -3223,
                22432, -3223, 22432, -2881, 7081, 10160, 7081, 10160,
                -13697, 8868, 3545, 1612, -3662, 1612, -10858, -5716,
                -10858, 177, -11848, -7716, -11848, 7376, -1635, 7376,
                -20997, -1984, -9183, -12917, -16994, -9714, 9922, 8682,
                -1513, -6653, -1892, -6653, -1892, 11817, -1732, 11817,
                -1732, 6761, -2086, -6038, -2390, -6038, 2758, -6038, 2758,
                -14372, 562, -14372, 562, -5536, -7018, -5536, -7018, -4527,
                -8718, -5602, 4028, -1102, 5855, -1102, 9466, -15803, 14296,
                9909, 4851, 1215, 8424, 1215, 9815, 7655, -13188, -9161,
                10962, 2490, -12264, 2490, -12264, 11214, -12264, -5304,
                11415, 20024, 676, -4841, 9237, -9115, -5421, -9420, -16398,
                -9001, 467, -5424, -9592, -23416, -1009, 10011, 383, 11239,
                2726, 11239, -980, 1099, -1623, -18462, 4028, -18462, -7338,
                11324, -2079, -11091, -3308, -11091, -2862, -11091, -2862,
                -8391, 9889, -7157, 12351, 21497, -15075, -7704, -5796,
                -13647, 9642, -11584, 3202, 1227, 8422, 1227, 6853, -9884,
                7524, -13590, 3602, -13590, 3602, -3013, 8623, -8471,
                -11207, 5521, 6943, -7249, -3919, 5074, -824, 1138, 10635,
                1138, 10635, 7984, 10551, 8776, 14630, 2895, -5593, 7051,
                -15085, -705, 12988, 15252, 12988, 15252, -3690, -9169,
                -10421, -9169, -10421, 8156, 4782, 5821, 4782, 5821, -12203,
                5821, -12203, -7560, -4956, -11496, 1070, -6037, 16428,
                -148, -5998, 524, -17693, -5680, -17693, 23954, 7622, 13990,
                -8986, -13787, -21470, 24450, -938, 7576, -4612, 7576,
                13494, 7576, 13494, 7576, 13494, 7576, -18032, -11315,
                10388, -16222, -3560, 5312, 13089, -7011, 15756, 2300, 5177,
                19479, 5177, 19479, -7391, -2698, -6616, 3992, -6616, 3289,
                9782, -1710, -12573, 23673, 6963, 5677, 16685, 316, -5969,
                16457, 2417, -3723, -2985, -6821, -2985, -6821, -13356,
                -6821, -13356, 5546, -274, -6509, -274, -7455, -8721, -7455,
                15447, 7364, -1748, 2747, 10151, 12196, -4423, -8814, 10146,
                -11280, -777, -11280, -777, 2107, -5378, 2107, -5378, 8919,
                -11262, -12883, -13300, 667, 12904, 3061, 12904, 6725,
                -3516, -3752, -4659, -3752, 9478, 19617, -5344, 17857,
                -13549, -585, 15655, 7199, 15655, -813, 9273, 17853, 2356,
                -8580, -4279, 6875, -17665, -1752, -10654, -14906, 23786,
                -2133, 1899, -13717, 17876, -268, 1640, -4429, 1640, 11302,
                -6247, 1418, -14911, 1418, -14911, 326, 18688, -7811, 4649,
                12001, -2791, -10851, 666, 8167, 2813, -8604, 7743, 9925,
                16536, -10072, -17281, 1333, 4811, -10910, -12346, 3035,
                9625, -3554, 11801, 3759, -11022, 1746 >>,
            k |-> << 2, 2, 2, 4, 4, 2, 2, 2, 2, 4, 4, 2, 2, 2, 2, 2, 2, 2, 2, 2,
                2, 2, 2, 2, 2, 2, 4, 4, 2, 2, 2, 2, 2, 2, 4, 2, 2, 2, 4, 4,
                2, 2, 2, 2, 2, 2, 2, 2, 4, 4, 2, 2, 2, 2, 2, 4, 2, 2, 8, 8,
                6, 6, 4, 4, 2, 2, 2, 2, 4, 2, 2, 2, 2, 2, 2, 2, 2, 2, 2, 2,
                2, 2, 2, 2, 4, 4, 2, 2, 2, 2, 2, 6, 4, 4, 2, 2, 2, 6, 4, 4,
                2, 2, 2, 2, 2, 2, 2, 2, 2, 2, 2, 4, 4, 2, 2, 2, 2, 2, 4, 2,
                2, 2, 2, 4, 6, 2, 4, 4, 2, 2, 2, 2, 2, 2, 4, 2, 2, 2, 2, 2,
                2, 2, 4, 4, 2, 2, 2, 2, 2, 2, 2, 2, 4, 2, 2, 2, 2, 2, 2, 2,
                2, 2, 2, 2, 4, 4, 2, 2, 2, 2, 2, 2, 2, 2, 2, 2, 2, 2, 2, 2,
                2, 2, 2, 2, 2, 4, 4, 2, 2, 2, 2, 2, 4, 2, 2, 2, 2, 2, 4, 2,
                2, 4, 2, 2, 4, 2, 2, 2, 2, 2, 2, 2, 2, 2, 2, 4, 2, 2, 2, 2,
                6, 6, 4, 4, 2, 2, 2, 2, 2, 2, 2, 2, 2, 4, 2, 2, 2, 2, 2, 2,
                2, 2, 2, 2, 2, 4, 4, 2, 2, 2, 2, 2, 2, 4, 2, 2, 2, 2, 2, 2,
                2, 2, 2, 4, 4, 2, 2, 2, 2, 4, 2, 2, 4, 4, 2, 2, 2, 2, 4, 4,
                2, 2, 2, 2, 2, 2, 2, 4, 4, 2, 2, 2, 2, 4, 2, 2, 2, 2, 4, 2,
                2, 2, 4, 4, 2, 2, 2, 2, 2, 2, 2, 6, 6, 4, 4, 2, 2, 4, 2, 2,
                4, 2, 2, 4, 2, 2, 2, 2, 2, 4, 2, 2, 2, 2, 2, 2, 2, 6, 4, 4,
                2, 2, 2, 2, 2, 2, 2, 2, 2, 2, 2, 2, 2, 2, 2, 2, 2, 2, 2, 2,
                2, 6, 6, 4, 4, 2, 2, 2, 2, 4, 2, 2, 6, 4, 4, 2, 2, 2, 2, 2,
                2, 2, 2, 2, 4, 4, 2, 2, 2, 2, 2, 4, 2, 2, 2, 2, 4, 4, 2, 2,
                2, 2, 2, 2, 2, 2, 2, 2, 2, 2, 2, 2, 2, 2, 2, 2, 2, 2, 4, 2,
                2, 2, 2, 4, 2, 2, 2, 2, 2, 2, 2, 2, 2, 2, 2, 2, 2, 2, 2, 2,
                2, 2, 2, 2, 2, 4, 4, 2, 2, 2, 2, 2, 2, 2, 2, 2, 2, 2, 2, 2,
                2, 2, 4, 4, 2, 2, 2, 2, 2, 2, 2, 2, 2, 2, 4, 4, 2, 2, 2, 2,
                2, 2, 2, 2, 2, 4, 4, 2, 2, 4, 4, 2, 2, 2, 2, 2, 6, 6, 4, 4,
                2, 2, 2, 2, 2, 2, 2, 2, 2, 2, 2, 2, 2, 4, 2, 2, 2, 2, 2, 2,
                2, 2, 2, 2, 2, 2, 2, 6, 6, 4, 4, 2, 2, 2, 2, 2, 2, 2, 2, 2,
                2, 2, 2, 4, 4, 2, 2, 2, 2, 2, 2, 2, 2, 2, 2, 2, 2, 4, 4, 2,
                2, 2, 2, 2, 2, 2, 2, 2, 2, 2, 2, 2, 2, 2, 2, 2, 2, 2, 2, 2,
                2, 2, 2, 2, 2, 2, 2, 4, 4, 2, 2, 2, 2, 2, 2, 2, 8, 8, 6, 6,
                4, 4, 2, 2, 2, 2, 2, 2, 4, 4, 2, 2, 4, 4, 2, 2, 2, 4, 2, 2,
                4, 4, 2, 2, 2, 4, 2, 2, 2, 2, 4, 4, 2, 2, 4, 2, 2, 8, 6, 6,
                4, 4, 2, 2, 4, 2, 2, 6, 6, 4, 4, 2, 2, 2, 2, 2, 2, 2, 2, 2,
                2, 2, 2, 2, 2, 2, 2, 2, 2, 2, 4, 2, 2, 2, 2, 2, 2, 6, 6, 4,
                4, 2, 2, 2, 4, 2, 2, 2, 2, 2, 2, 2, 4, 2, 2, 2, 2, 2, 2, 2,
                4, 2, 2, 4, 4, 2, 2, 2, 2, 4, 4, 2, 2, 2, 2, 2, 2, 2, 2, 2,
                4, 4, 2, 2, 2, 2, 2, 2, 2, 2, 4, 2, 2, 2, 2, 4, 2, 2, 6, 4,
                4, 2, 2, 2, 2, 4, 2, 2, 2, 2, 2, 2, 2, 4, 4, 2, 2, 6, 2, 4,
                4, 2, 2, 2, 2, 2, 2, 2, 4, 4, 2, 2, 2, 2, 2, 4, 2, 2, 2, 4,
                4, 2, 2, 2, 2, 2, 2, 2, 2, 2, 2, 2, 2, 2, 2, 2, 2, 2, 2, 2,
                2, 2, 4, 4, 2, 2, 2, 2, 2, 4, 2, 2, 2, 2, 2, 2, 2, 2, 2, 4,
                2, 2, 2, 2, 2, 2, 4, 4, 2, 2, 2, 2, 2, 2, 2, 2, 2, 2, 2, 4,
                2, 2, 2, 2, 2, 2, 2, 2, 2, 2, 2, 2, 2, 2, 2, 2, 2, 2, 2, 2,
                2, 2, 4, 4, 2, 2, 2, 6, 6, 4, 4, 2, 2, 2, 2, 2, 2, 2, 2, 6,
                4, 4, 2, 2, 2, 2, 2, 2, 2, 4, 2, 2, 2, 2, 2, 2, 2, 2, 4, 2,
                2, 2, 2, 4, 2, 2, 2, 2, 2, 2, 2, 2, 2, 2, 2, 2, 2, 2, 4, 2,
                2, 2, 4, 2, 2, 2, 2, 2, 2, 2, 2, 2, 2, 4, 4, 2, 2, 2, 2, 2,
                4, 2, 2, 2, 4, 2, 2, 2, 2, 2, 4, 4, 2, 2, 4, 8, 2, 6, 4, 4,
                2, 2, 2, 2, 2, 2, 2, 4, 2, 2, 2, 4, 2, 2, 2, 4, 6, 2, 4, 6,
                2, 4, 4, 2, 2, 2, 2, 4, 2, 2, 2, 4, 4, 2, 2, 4, 2, 2, 2, 2,
                2, 4, 2, 2, 2, 2, 2, 2, 2, 2, 4, 4, 2, 2, 2, 2, 2, 2, 4, 2,
                2, 2, 2, 2, 2, 2, 2, 2, 2, 2, 2, 2, 2, 4, 2, 2, 2, 2, 2, 2,
                2, 4, 2, 2, 2, 2, 2, 2, 4, 2, 2, 2, 4, 4, 2, 2, 2, 2, 4, 2,
                2, 4, 4, 2, 2, 2, 2, 2, 2, 2, 6, 6, 4, 4, 2, 2, 2, 2, 2, 2,
                2, 2, 2, 2, 2, 2, 4, 4, 2, 2, 6, 6, 4, 4, 2, 2, 2, 2, 2, 4,
                2, 2, 2, 2, 2, 2, 2, 2, 2, 2, 2, 2, 2, 2, 4, 2, 2, 2, 2, 6,
                4, 4, 2, 2, 4, 2, 2, 2, 2, 4, 2, 2, 2, 6, 2, 4, 2, 2, 6, 4,
                4, 2, 2, 2, 2, 2, 2, 2, 4, 4, 2, 2, 4, 4, 2, 2, 2, 2, 2, 2,
                2, 2, 2, 2, 2, 2, 2, 2, 2, 2, 2, 2, 2, 2, 2, 2, 4, 4, 2, 2,
                4, 4, 2, 2, 2, 2, 4, 2, 2, 2, 2, 2, 2, 2, 2, 4, 4, 2, 2, 4,
                4, 2, 2, 2, 2, 2, 4, 2, 2, 2, 4, 2, 2, 2, 2, 2, 2, 2, 2, 2,
                2, 2, 2, 2, 2, 2, 2, 6, 4, 4, 2, 2, 6, 4, 4, 2, 2, 2, 2, 2,
                2, 2, 6, 4, 4, 2, 2, 2, 2, 2, 2, 4, 2, 2, 2, 2, 2, 2, 2, 2,
                2, 2, 2, 2, 2, 2, 2, 2, 4, 2, 2, 2, 2, 2, 2, 2, 2, 2, 4, 2,
                2, 4, 2, 2, 4, 4, 2, 2, 4, 4, 2, 2, 2, 2, 2, 2, 2, 6, 6, 4,
                4, 2, 2, 2, 6, 6, 4, 4, 2, 2, 2, 4, 2, 2, 2, 4, 4, 2, 2, 2,
                2, 2, 2, 2, 4, 4, 2, 2, 2, 2, 2, 2, 2, 2, 2, 6, 4, 4, 2, 2,
                2, 2, 2, 2, 2, 2, 4, 4, 2, 2, 2, 2, 6, 6, 4, 4, 2, 2, 2, 2,
                2, 2, 8, 8, 6, 6, 4, 4, 2, 2, 2, 2, 6, 6, 4, 4, 2, 2, 2, 2,
                2, 2, 2, 2, 4, 4, 2, 2, 2, 2, 2, 2, 2, 4, 2, 2, 2, 2, 4, 4,
                2, 2, 2, 2, 2, 2, 4, 2, 2, 2, 2, 2, 2, 2, 2, 2, 2, 2, 2, 2,
                2, 2, 2, 2, 2, 2, 2, 2, 2, 2, 4, 2, 2, 6, 4, 4, 2, 2, 2, 2,
                2, 2, 2, 4, 4, 2, 2, 2, 2, 2, 2, 2, 2, 2, 2, 2, 2, 2, 2, 4,
                2, 2, 4, 4, 2, 2, 2, 2, 2, 2, 2, 2, 2, 2, 2, 2, 2, 2, 2, 6,
                4, 4, 2, 2, 2, 2, 2, 2, 2, 2, 2, 2, 2, 2, 2, 2, 2, 2, 6, 6,
                4, 4, 2, 2, 4, 2, 2, 2, 2, 2, 2, 4, 2, 2, 2, 2, 6, 4, 4, 2,
                2, 2, 2, 2, 2, 2, 2, 2, 2, 4, 2, 2, 2, 4, 4, 2, 2, 2, 2, 2,
                2, 2, 2, 4, 4, 2, 2, 2, 2, 2, 2, 2, 2, 4, 2, 2, 2, 2, 2, 4,
                4, 2, 2, 2, 2, 2, 2, 8, 6, 6, 4, 4, 2, 2, 2, 4, 4, 2, 2, 2,
                2, 2, 4, 4, 2, 2, 2, 2, 2, 2, 2, 2, 2, 2, 2, 4, 2, 2, 2, 2,
                4, 6, 2, 4, 2, 2, 4, 2, 2, 2, 2, 2, 2, 6, 2, 4, 2, 2, 2, 2,
                2, 2, 2, 2, 2, 4, 4, 2, 2, 2, 2, 4, 2, 2, 2, 2, 2, 2, 2, 4,
                4, 2, 2, 2, 2, 2, 2, 2, 2, 2, 2, 6, 6, 4, 4, 2, 2, 2, 4, 4,
                2, 2, 2, 2, 2, 2, 6, 4, 4, 2, 2, 2, 2, 4, 2, 2, 8, 6, 6, 4,
                4, 2, 2, 2, 2, 2, 2, 2, 2, 2, 2, 2, 2, 2, 2, 2, 4, 4, 2, 2,
                2, 2, 2, 2, 2, 2, 2, 4, 2, 2, 2, 2, 2, 4, 2, 2, 4, 2, 2, 2,
                2, 6, 4, 4, 2, 2, 6, 4, 4, 2, 2, 4, 2, 2, 2, 2, 6, 6, 4, 4,
                2, 2, 2, 2, 2, 2, 2, 4, 6, 2, 4, 4, 2, 2, 2, 2, 2, 2, 2, 2,
                2, 2, 2, 2, 2, 2, 2, 2, 2, 2, 2, 2, 4, 2, 2, 2, 2, 2, 2, 2,
                2, 2, 2, 2, 2, 2, 2, 2, 2, 4, 4, 2, 2, 4, 4, 2, 2, 2, 2, 2,
                2, 2, 2, 2, 6, 2, 4, 2, 2, 2, 2, 2, 2, 2, 2, 2, 2, 6, 6, 4,
                4, 2, 2, 6, 6, 4, 4, 2, 2, 2, 2, 6, 4, 4, 2, 2, 2, 2, 4, 2,
                2, 2, 2, 2, 2, 2, 2, 2, 2, 4, 4, 2, 2, 2, 4, 4, 2, 2, 2, 2,
                2, 2, 2, 2, 2, 2, 2, 2, 2, 2, 2, 2, 2, 6, 4, 4, 2, 2, 2, 2,
                2, 4, 2, 2, 2, 2, 2, 2, 2, 2, 2, 2, 2, 2, 2, 2, 2, 2, 2, 2,
                2, 2, 2, 2, 4, 2, 2, 2, 2, 2, 2, 2, 2, 2, 2, 2, 4, 2, 2, 2,
                4, 2, 2, 4, 2, 2, 2, 2, 2, 2, 4, 4, 2, 2, 4, 2, 2, 2, 4, 4,
                2, 2, 2, 2, 4, 2, 2, 2, 2, 2, 4, 4, 2, 2, 2, 2, 4, 4, 2, 2,
                2, 2, 2, 2, 2, 2, 2, 2, 2, 4, 4, 2, 2, 2, 2, 2, 2, 4, 4, 2,
                2, 8, 8, 6, 6, 4, 4, 2, 2, 2, 2, 2, 4, 2, 2, 2, 2, 2, 2, 2,
                2, 2, 2, 8, 8, 6, 6, 4, 4, 2, 2, 10, 4, 8, 2, 6, 6, 4, 4, 2,
                2, 2, 2, 2, 2, 2, 2, 2, 2, 2, 2, 2, 2, 2, 2, 4, 4, 2, 2, 4,
                6, 2, 4, 4, 2, 2, 4, 4, 2, 2, 6, 2, 4, 4, 2, 2, 6, 4, 4, 2,
                2, 2, 2, 4, 6, 2, 4, 2, 2, 2, 2, 2, 2, 2, 2, 2, 2, 2, 2, 2,
                2, 2, 2, 2, 2, 2, 2, 2, 2, 2, 4, 2, 2, 2, 2, 2, 4, 6, 2, 4,
                4, 2, 2, 4, 2, 2, 2, 2, 2, 2, 2, 2, 4, 4, 2, 2, 6, 4, 4, 2,
                2, 2, 2, 2, 2, 2, 2, 4, 4, 2, 2, 2, 2, 2, 2, 2, 2, 2, 2, 2,
                4, 4, 2, 2, 2, 2, 2, 2, 2, 2, 2, 4, 2, 2, 2, 2, 2, 2, 4, 2,
                2, 4, 4, 2, 2, 2, 2, 2, 2, 2, 2, 2, 2, 2, 2, 2, 2, 4, 2, 2,
                2, 2, 2, 2, 2, 2, 2, 2, 2, 2, 2, 2, 2, 4, 2, 2, 2, 2, 2, 2,
                2, 4, 2, 2, 2, 2, 2, 2, 4, 2, 2, 2, 2, 4, 2, 2, 2, 2, 2, 2,
                2, 2, 2, 2, 2, 2, 2, 2, 2, 2, 2, 4, 4, 2, 2, 4, 2, 2, 2, 2,
                2, 2, 2, 2, 2, 2, 2, 6, 2, 4, 4, 2, 2, 2, 2, 2, 2, 2, 2, 2,
                4, 4, 2, 2, 2, 2, 2, 2, 2, 2, 2, 2, 4, 4, 2, 2, 2, 2, 2, 2,
                2, 2, 2, 2, 2, 2, 4, 4, 2, 2, 4, 2, 2, 2, 2, 2, 2, 2, 2, 2,
                4, 2, 2, 2, 2, 2, 2, 8, 6, 6, 4, 4, 2, 2, 2, 4, 2, 2, 4, 2,
                2, 2, 4, 4, 2, 2, 2, 4, 8, 2, 6, 4, 4, 2, 2, 2, 4, 2, 2, 2,
                2, 4, 2, 2, 2, 2, 2, 2, 2, 2, 2, 2, 2, 2, 2, 2, 2, 4, 2, 2,
                2, 2, 2, 2, 2, 2, 4, 2, 2, 4, 2, 2, 2, 2, 2, 2, 2, 2, 2, 2,
                2, 2, 2, 6, 4, 4, 2, 2, 2, 2, 2, 2, 2, 2, 2, 2, 2, 2, 2, 2,
                2, 6, 6, 4, 4, 2, 2, 4, 2, 2, 2, 2, 2, 2, 2, 2, 2, 6, 8, 4,
                6, 2, 4, 4, 2, 2, 2, 2, 2, 2, 4, 4, 2, 2, 2, 2, 2, 2, 2, 2,
                2, 2, 4, 4, 2, 2, 2, 2, 2, 2, 2, 2, 4, 8, 2, 6, 4, 4, 2, 2,
                4, 4, 2, 2, 2, 2, 2, 2, 2, 2, 4, 2, 2, 2, 2, 2, 2, 2, 6, 2,
                4, 6, 2, 4, 4, 2, 2, 4, 2, 2, 2, 4, 2, 2, 2, 2, 2, 2, 2, 2,
                2, 2, 2, 6, 2, 4, 4, 2, 2, 2, 2, 2, 2, 2, 2, 2, 4, 2, 2, 2,
                2, 4, 2, 2, 2, 2, 2, 2, 4, 4, 2, 2, 2, 2, 2, 2, 2, 2, 2, 4,
                2, 2, 2, 4, 2, 2, 2, 2, 4, 2, 2, 2, 4, 2, 2, 2, 4, 4, 2, 2,
                4, 2, 2, 2, 4, 2, 2, 2, 2, 2, 2, 2, 2, 2, 2, 2, 2, 2, 2, 2,
                2, 4, 4, 2, 2, 2, 2, 2, 2, 2, 2, 2, 2, 2, 2, 2, 6, 4, 4, 2,
                2, 2, 2, 2, 2, 2, 2, 2, 2, 2, 2, 2, 2, 2, 2, 2, 2, 2, 4, 4,
                2, 2, 2, 2, 2, 2, 2, 2, 2, 2, 4, 4, 2, 2, 4, 4, 2, 2, 2, 2,
                2, 2, 2, 2, 2, 2, 2, 2, 2, 4, 2, 2, 2, 2, 2, 2, 6, 4, 4, 2,
                2, 4, 2, 2, 2, 2, 2, 2, 2, 2, 2, 2, 2, 2, 2, 2, 2, 2, 2, 2,
                2, 2, 2, 2, 4, 4, 2, 2, 2, 4, 4, 2, 2, 2, 2, 4, 4, 2, 2, 2,
                4, 2, 2, 2, 2, 2, 4, 2, 2, 4, 2, 2, 2, 2, 2, 2, 2, 2, 2, 2,
                2, 2, 2, 4, 2, 2, 2, 2, 2, 2, 2, 2, 2, 2, 2, 2, 2, 4, 2, 2,
                2, 2, 2, 2, 2, 2, 2, 2, 2, 4, 4, 2, 2, 4, 2, 2, 2, 2, 2, 2,
                2, 4, 4, 2, 2, 2, 2, 2, 2, 2, 2, 2, 2, 4, 4, 2, 2, 2, 8, 2,
                6, 6, 4, 4, 2, 2, 2, 2, 2, 2, 2, 4, 6, 2, 4, 4, 2, 2, 2, 4,
                2, 2, 2, 2, 2, 2, 2, 2, 2, 2, 2, 2, 2, 4, 2, 2, 2, 2, 2, 2,
                2, 2, 2, 2, 2, 2, 2, 2, 2, 2, 2, 2, 2, 2, 4, 6, 2, 4, 2, 2,
                2, 2, 2, 2, 2, 2, 2, 2, 2, 2, 2, 2, 2, 2, 2, 2, 2, 2, 2, 2,
                2, 2, 4, 2, 2, 2, 2, 6, 4, 4, 2, 2, 2, 2, 2, 2, 2, 4, 2, 2,
                2, 2, 2, 2, 2, 2, 2, 6, 2, 4, 2, 2, 2, 4, 4, 2, 2, 2, 2, 2,
                2, 2, 2, 6, 4, 4, 2, 2, 2, 2, 2, 2, 2, 2, 2, 2, 6, 6, 4, 4,
                2, 2, 2, 4, 2, 2, 2, 2, 4, 4, 2, 2, 4, 2, 2, 4, 2, 2, 6, 4,
                4, 2, 2, 2, 2, 2, 4, 2, 2, 2, 2, 2, 2, 2, 2, 2, 6, 2, 4, 8,
                2, 6, 6, 4, 4, 2, 2, 6, 2, 4, 4, 2, 2, 2, 2, 2, 2, 2, 2, 2,
                2, 4, 4, 2, 2, 2, 2, 2, 2, 2, 2, 2, 2, 2, 2, 2, 2, 2, 2, 2,
                4, 2, 2, 2, 2, 2, 2, 2, 2, 2, 4, 4, 2, 2, 4, 2, 2, 2, 2, 2,
                2, 2, 2, 2, 2, 2, 2, 2, 2, 2, 2, 2, 2, 2, 2, 2, 2, 2, 2, 2,
                2, 2, 2, 2, 2, 2, 2, 2, 2, 2, 2, 2, 2, 2, 2, 2, 2, 2, 2, 2,
                6, 4, 4, 2, 2, 2, 2, 2, 2, 2, 2, 2, 2, 2, 2, 2, 2, 2, 4, 4,
                2, 2, 2, 2, 2, 6, 4, 4, 2, 2, 2, 2, 2, 2, 2, 4, 6, 2, 4, 4,
                2, 2, 2, 2, 2, 2, 2, 2, 2, 2, 6, 4, 4, 2, 2, 2, 2, 2, 2, 4,
                2, 2, 4, 4, 2, 2, 2, 2, 2, 2, 6, 8, 4, 6, 2, 4, 2, 2, 2, 2,
                2, 2, 4, 4, 2, 2, 2, 2, 4, 2, 2, 2, 2, 2, 4, 2, 2, 2, 2, 2,
                2, 2, 2, 2, 2, 2, 2, 2, 2, 2, 2, 2, 2, 2, 2, 4, 2, 2, 2, 4,
                4, 2, 2, 2, 2, 2, 2, 2, 2, 2, 4, 2, 2, 2, 2, 2, 2, 2, 4, 2,
                2, 2, 2, 2, 2, 6, 4, 4, 2, 2, 2, 2, 2, 2, 2, 2, 2, 2, 2, 2,
                4, 2, 2, 2, 2, 2, 2, 2, 2, 2, 2, 2, 4, 2, 2, 2, 2, 2, 2, 4,
                2, 2, 4, 4, 2, 2, 4, 4, 2, 2, 2, 2, 4, 2, 2, 2, 2, 4, 4, 2,
                2, 2, 2, 2, 2, 2, 2, 2, 2, 2, 2, 4, 4, 2, 2, 2, 4, 6, 2, 4,
                2, 2, 2, 2, 2, 2, 2, 2, 2, 2, 2, 2, 4, 4, 2, 2, 2, 2, 2, 2,
                2, 2, 2, 2, 2, 6, 6, 4, 4, 2, 2, 2, 2, 2, 2, 2, 2, 2, 2, 2,
                2, 2, 2, 2, 2, 2, 2, 2, 2, 4, 4, 2, 2, 2, 2, 2, 4, 2, 2, 2,
                2, 6, 8, 4, 6, 2, 4, 2, 2, 2, 2, 4, 2, 2, 2, 2, 2, 2, 2, 2,
                4, 2, 2, 2, 2, 2, 4, 4, 2, 2, 2, 2, 4, 6, 2, 4, 4, 2, 2, 4,
                4, 2, 2, 2, 2, 2, 2, 2, 2, 2, 2, 2, 2, 2, 2, 2, 2, 6, 4, 4,
                2, 2, 2, 2, 2, 2, 2, 2, 2, 4, 4, 2, 2, 2, 2, 2, 2, 6, 6, 4,
                4, 2, 2, 2, 2, 4, 2, 2, 2, 2, 2, 2, 2, 2, 2, 2, 2, 6, 6, 4,
                4, 2, 2, 2, 2, 2, 2, 8, 4, 6, 2, 4, 4, 2, 2, 2, 4, 2, 2, 2,
                6, 6, 4, 4, 2, 2, 2, 2, 2, 2, 2, 4, 2, 2, 2, 2, 2, 4, 2, 2,
                2, 2, 2, 2, 2, 2, 2, 2, 2, 2, 2, 2, 2, 4, 4, 2, 2, 2, 2, 2,
                2, 4, 2, 2, 4, 2, 2, 2, 2, 4, 4, 2, 2, 2, 2, 2, 2, 2, 2, 2,
                8, 6, 6, 4, 4, 2, 2, 4, 2, 2, 2, 2, 2, 2, 2, 2, 2, 6, 2, 4,
                4, 2, 2, 2, 2, 2, 2, 2, 2, 2, 2, 2, 4, 2, 2, 2, 2, 2, 2, 4,
                2, 2, 4, 2, 2, 6, 4, 4, 2, 2, 2, 4, 4, 2, 2, 2, 2, 2, 2, 2,
                2, 2, 2, 4, 4, 2, 2, 2, 2, 2, 2, 2, 2, 6, 6, 4, 4, 2, 2, 2,
                6, 4, 4, 2, 2, 2, 2, 2, 2, 2, 2, 2, 2, 2, 2, 4, 4, 2, 2, 6,
                6, 4, 4, 2, 2, 2, 2, 6, 4, 4, 2, 2, 2, 2, 2, 2, 2, 4, 2, 2,
                2, 2, 2, 2, 2, 2, 2, 4, 2, 2, 2, 4, 2, 2, 2, 4, 4, 2, 2, 2,
                2, 2, 2, 2, 2, 2, 2, 2, 2, 2, 4, 4, 2, 2, 2, 2, 2, 2, 2, 2,
                4, 4, 2, 2, 2, 2, 2, 2, 2, 4, 2, 2, 2, 2, 2, 2, 2, 2, 2, 2,
                2, 2, 2, 2, 2, 2, 2, 2, 2, 4, 2, 2, 2, 2, 4, 2, 2, 2, 2, 2,
                2, 2, 2, 2, 2, 4, 6, 2, 4, 2, 2, 2, 2, 2, 2, 2, 2, 2, 2, 2,
                2, 2, 2, 2, 2, 2, 2, 4, 2, 2, 2, 2, 2, 2, 2, 2, 2, 4, 2, 2,
                2, 2, 2, 2, 2, 2, 2, 2, 2, 2, 2, 2, 2, 2, 2, 2, 2, 6, 6, 4,
                4, 2, 2, 2, 2, 10, 6, 8, 4, 6, 2, 4, 4, 2, 2, 2, 2, 4, 4, 2,
                2, 2, 2, 2, 2, 2, 2, 2, 2, 2, 2, 2, 2, 2, 6, 4, 4, 2, 2, 2,
                2, 4, 4, 2, 2, 2, 2, 2, 2, 6, 2, 4, 2, 2, 4, 6, 2, 4, 4, 2,
                2, 2, 2, 2, 2, 2, 8, 6, 6, 4, 4, 2, 2, 2, 2, 2, 4, 2, 2, 2,
                2, 2, 2, 4, 4, 2, 2, 6, 4, 4, 2, 2, 2, 2, 2, 2, 2, 4, 4, 2,
                2, 2, 2, 2, 2, 4, 2, 2, 2, 2, 2, 4, 2, 2, 4, 4, 2, 2, 2, 2,
                2, 2, 2, 2, 2, 2, 2, 2, 4, 2, 2, 2, 2, 2, 2, 6, 4, 4, 2, 2,
                2, 2, 2, 4, 4, 2, 2, 2, 4, 2, 2, 2, 2, 2, 4, 2, 2, 2, 2, 2,
                2, 2, 2, 2, 2, 2, 2, 2, 2, 2, 2, 2, 4, 2, 2, 2, 4, 4, 2, 2,
                2, 2, 2, 2, 2, 2, 2, 2, 2, 2, 2, 2, 2, 2, 2, 2, 2, 6, 2, 4,
                4, 2, 2, 2, 2, 2, 2, 4, 4, 2, 2, 2, 2, 2, 2, 2, 2, 2, 2, 2,
                2, 2, 2, 6, 4, 4, 2, 2, 2, 2, 2, 2, 2, 2, 2, 2, 2, 6, 4, 4,
                2, 2, 2, 2, 2, 2, 2, 2, 2, 2, 2, 4, 2, 2, 2, 2, 4, 4, 2, 2,
                2, 2, 2, 4, 2, 2, 2, 2, 2, 2, 2, 2, 2, 2, 2, 4, 4, 2, 2, 6,
                6, 4, 4, 2, 2, 2, 4, 4, 2, 2, 2, 2, 2, 2, 2, 4, 4, 2, 2, 4,
                4, 2, 2, 2, 2, 2, 2, 2, 2, 2, 2, 2, 2, 2, 2, 2, 2, 2, 6, 4,
                4, 2, 2, 2, 2, 2, 2, 2, 2, 2, 2, 2, 4, 2, 2, 2, 2, 2, 2, 2,
                2, 6, 4, 4, 2, 2, 2, 2, 2, 2, 2, 2, 2, 4, 2, 2, 4, 2, 2, 2,
                2, 2, 2, 6, 4, 4, 2, 2, 2, 4, 2, 2, 2, 2, 2, 2, 2, 2, 2, 2,
                2, 2, 2, 2, 2, 2, 2, 2, 2, 2, 2, 4, 2, 2, 2, 2, 2, 2, 2, 2,
                4, 2, 2, 2, 2, 6, 4, 4, 2, 2, 2, 2, 2, 2, 2, 2, 4, 2, 2, 4,
                4, 2, 2, 2, 2, 2, 6, 6, 4, 4, 2, 2, 2, 4, 2, 2, 2, 2, 2, 2,
                4, 2, 2, 2, 2, 2, 4, 6, 2, 4, 2, 2, 2, 2, 4, 4, 2, 2, 4, 2,
                2, 2, 2, 2, 2, 2, 2, 2, 2, 2, 2, 4, 4, 2, 2, 2, 2, 2, 2, 2,
                2, 2, 2, 2, 2, 2, 2, 2, 2, 2, 2, 2, 2, 2, 2, 2, 2, 2, 2, 2,
                2, 2, 2, 2, 2, 2, 2, 4, 2, 2, 4, 2, 2, 2, 2, 2, 2, 2, 2, 2,
                2, 2, 4, 2, 2, 4, 6, 2, 4, 2, 2, 2, 2, 2, 2, 2, 4, 2, 2, 2,
                2, 2, 2, 4, 2, 2, 2, 2, 2, 2, 2, 2, 2, 2, 2, 2, 2, 2, 2, 4,
                2, 2, 2, 2, 2, 2, 2, 2, 2, 2, 2, 2, 2, 2, 2, 2, 2, 2, 2, 4,
                2, 2, 2, 2, 6, 4, 4, 2, 2, 2, 2, 2, 2, 2, 6, 6, 4, 4, 2, 2,
                2, 2, 2, 2, 2, 4, 2, 2, 2, 2, 2, 2, 4, 2, 2, 2, 2, 2, 2, 2,
                2, 2, 2, 2, 2, 2, 2, 2, 2, 2, 2, 2, 2, 4, 4, 2, 2, 2, 2, 2,
                2, 2, 2, 2, 2, 2, 2, 4, 4, 2, 2, 2, 6, 4, 4, 2, 2, 2, 2, 2,
                2, 2, 2, 2, 2, 2, 2, 2, 2, 2, 2, 6, 4, 4, 2, 2, 2, 6, 2, 4,
                4, 2, 2, 6, 4, 4, 2, 2, 2, 2, 2, 2, 2, 2, 2, 4, 2, 2, 2, 2,
                2, 2, 2, 4, 4, 2, 2, 2, 2, 2, 2, 4, 4, 2, 2, 2, 2, 2, 2, 6,
                6, 4, 4, 2, 2, 2, 2, 2, 2, 2, 2, 2, 2, 2, 2, 2, 2, 2, 2, 2,
                2, 2, 2, 2, 4, 2, 2, 2, 2, 2, 2, 2, 2, 4, 2, 2, 2, 2, 2, 2,
                2, 2, 2, 8, 2, 6, 4, 4, 2, 2, 2, 2, 2, 2, 2, 2, 2, 2, 4, 4,
                2, 2, 2, 2, 4, 2, 2, 2, 2, 4, 2, 2, 2, 2, 6, 4, 4, 2, 2, 4,
                2, 2, 6, 6, 4, 4, 2, 2, 2, 2, 4, 4, 2, 2, 2, 2, 4, 4, 2, 2,
                2, 6, 6, 4, 4, 2, 2, 2, 2, 4, 6, 2, 4, 4, 2, 2, 6, 6, 4, 4,
                2, 2, 2, 2, 2, 2, 2, 2, 2, 6, 4, 4, 2, 2, 2, 4, 2, 2, 2, 2,
                2, 2, 4, 4, 2, 2, 2, 4, 2, 2, 2, 2, 2, 2, 2, 2, 2, 2, 2, 2,
                2, 2, 2, 2, 2, 2, 2, 2, 4, 2, 2, 2, 2, 2, 2, 2, 2, 2, 2, 2,
                4, 2, 2, 2, 2, 2, 2, 2, 4, 2, 2, 2, 2, 6, 4, 4, 2, 2, 2, 2,
                2, 2, 2, 2, 2, 2, 4, 4, 2, 2, 2, 2, 2, 2, 2, 2, 2, 2, 2, 4,
                12, 2, 10, 8, 8, 6, 6, 4, 4, 2, 2, 2, 2, 2, 2, 2, 2, 4, 2,
                2, 2, 2, 2, 2, 4, 2, 2, 2, 2, 2, 2, 4, 2, 2, 2, 2, 2, 2, 6,
                4, 4, 2, 2, 2, 2, 6, 4, 4, 2, 2, 8, 6, 6, 4, 4, 2, 2, 2, 2,
                2, 2, 2, 2, 2, 2, 2, 2, 2, 2, 2, 2, 2, 2, 2, 2, 2, 6, 4, 4,
                2, 2, 2, 2, 4, 2, 2, 4, 4, 2, 2, 2, 2, 2, 2, 2, 2, 2, 2, 2,
                4, 6, 2, 4, 2, 2, 2, 2, 2, 2, 4, 2, 2, 2, 4, 2, 2, 2, 2, 2,
                2, 2, 2, 2, 4, 4, 2, 2, 2, 2, 2, 2, 2, 2, 2, 2, 2, 2, 2, 2,
                2, 2, 2, 2, 2, 2, 4, 2, 2, 2, 4, 4, 2, 2, 2, 4, 2, 2, 2, 2,
                2, 2, 2, 2, 4, 2, 2, 2, 2, 2, 2, 2, 6, 4, 4, 2, 2, 2, 4, 4,
                2, 2, 6, 2, 4, 10, 2, 8, 4, 6, 2, 4, 6, 2, 4, 2, 2, 2, 2, 2,
                4, 4, 2, 2, 2, 2, 2, 2, 2, 2, 2, 2, 2, 2, 2, 2, 2, 4, 2, 2,
                2, 2, 2, 2, 2, 2, 2, 2, 2, 2, 2, 4, 6, 2, 4, 4, 2, 2, 2, 2,
                6, 2, 4, 2, 2, 4, 2, 2, 2, 2, 2, 2, 2, 2, 2, 2, 2, 2, 2, 4,
                4, 2, 2, 2, 2, 2, 2, 4, 2, 2, 2, 2, 4, 4, 2, 2, 2, 2, 2, 2,
                2, 2, 2, 2, 4, 4, 2, 2, 2, 2, 2, 2, 2, 2, 2, 2, 2, 2, 2, 4,
                4, 2, 2, 2, 2, 2, 2, 2, 2, 2, 2, 2, 4, 2, 2, 2, 2, 2, 2, 2,
                2, 6, 6, 4, 4, 2, 2, 2, 2, 2, 2, 2, 2, 2, 2, 2, 2, 2, 2, 4,
                2, 2, 2, 2, 2, 2, 4, 2, 2, 2, 4, 4, 2, 2, 2, 2, 2, 2, 2, 2,
                2, 2, 6, 2, 4, 2, 2, 4, 2, 2, 2, 2, 2, 4, 2, 2, 2, 8, 8, 6,
                6, 4, 4, 2, 2, 2, 2, 2, 2, 2, 4, 6, 2, 4, 2, 2, 2, 2, 2, 2,
                2, 2, 2, 2, 2, 2, 2, 2, 4, 2, 2, 4, 2, 2, 4, 4, 2, 2, 2, 2,
                2, 2, 2, 2, 2, 2, 2, 4, 2, 2, 6, 4, 4, 2, 2, 2, 2, 2, 2, 4,
                2, 2, 4, 4, 2, 2, 2, 2, 2, 4, 4, 2, 2, 4, 2, 2, 2, 2, 2, 2,
                2, 2, 2, 4, 4, 2, 2, 2, 2, 8, 6, 6, 4, 4, 2, 2, 2, 2, 2, 2,
                2, 2, 2, 2, 2, 2, 2, 2, 4, 4, 2, 2, 2, 4, 2, 2, 2, 2, 2, 2,
                2, 2, 2, 2, 2, 4, 2, 2, 2, 2, 2, 2, 2, 2, 2, 2, 2, 2, 2, 2,
                2, 2, 2, 2, 2, 2, 2, 2, 2, 2, 2, 2, 4, 2, 2, 2, 2, 2, 4, 2,
                2, 2, 2, 6, 4, 4, 2, 2, 2, 2, 2, 4, 4, 2, 2, 2, 2, 2, 2, 2,
                2, 2, 2, 2, 2, 2, 2, 4, 4, 2, 2, 2, 2, 2, 2, 2, 2, 2, 6, 4,
                4, 2, 2, 2, 2, 2, 4, 2, 2, 2, 2, 2, 2, 2, 2, 2, 2, 2, 2, 2,
                2, 2, 2, 2, 2, 6, 4, 4, 2, 2, 2, 2, 2, 2, 2, 2, 2, 2, 2, 2,
                2, 2, 2, 2, 2, 4, 2, 2, 2, 2, 2, 2, 2, 2, 2, 2, 2, 2, 2, 2,
                2, 2, 2, 2, 2, 2, 2, 2, 4, 2, 2, 2, 2, 2, 2, 4, 2, 2, 6, 2,
                4, 4, 2, 2, 2, 2, 2, 2, 4, 6, 2, 4, 2, 2, 2, 2, 4, 4, 2, 2,
                2, 2, 2, 4, 4, 2, 2, 4, 4, 2, 2, 4, 2, 2, 4, 2, 2, 2, 2, 2,
                2, 2, 2, 6, 4, 4, 2, 2, 2, 2, 4, 4, 2, 2, 2, 2, 2, 2, 4, 2,
                2, 2, 2, 2, 2, 2, 2, 2, 2, 2, 4, 4, 2, 2, 2, 2, 2, 2, 2, 2,
                2, 2, 2, 2, 2, 2, 2, 4, 2, 2, 4, 2, 2, 2, 2, 2, 2, 2, 2, 4,
                4, 2, 2, 2, 2, 2, 2, 2, 2, 4, 2, 2, 2, 2, 2, 2, 2, 2, 2, 2,
                2, 2, 2, 2, 2, 2, 2, 2, 2, 2, 2, 2, 2, 2, 2, 6, 6, 4, 4, 2,
                2, 2, 2, 2, 2, 2, 2, 4, 4, 2, 2, 4, 4, 2, 2, 2, 2, 2, 2, 2,
                2, 2, 2, 2, 2, 2, 6, 2, 4, 2, 2, 2, 2, 2, 2, 2, 2, 2, 4, 2,
                2, 2, 2, 2, 2, 2, 2, 2, 2, 2, 2, 2, 2, 2, 2, 4, 2, 2, 2, 2,
                2, 2, 2, 2, 2, 2, 2, 2, 2, 2, 2, 2, 2, 2, 2, 2, 2, 2, 2, 2,
                2, 2, 4, 4, 2, 2, 4, 2, 2, 2, 2, 2, 2, 2, 2, 2, 4, 2, 2, 6,
                2, 4, 4, 2, 2, 2, 2, 2, 2, 4, 2, 2, 2, 2, 4, 2, 2, 2, 2, 4,
                2, 2, 2, 2, 4, 6, 2, 4, 2, 2, 2, 4, 2, 2, 4, 2, 2, 2, 2, 2,
                4, 2, 2, 2, 2, 2, 4, 2, 2, 2, 2, 2, 2, 2, 2, 2, 2, 2, 2, 2,
                2, 2, 2, 2, 2, 2, 2, 2, 10, 10, 8, 8, 6, 6, 4, 4, 2, 2, 2,
                4, 4, 2, 2, 2, 2, 2, 4, 2, 2, 4, 2, 2, 2, 4, 2, 2, 4, 2, 2,
                2, 2, 2, 2, 2, 2, 2, 2, 2, 4, 4, 2, 2, 4, 4, 2, 2, 2, 2, 6,
                2, 4, 4, 2, 2, 4, 4, 2, 2, 4, 4, 2, 2, 2, 2, 2, 2, 4, 2, 2,
                2, 2, 2, 2, 2, 4, 2, 2, 2, 2, 2, 2, 2, 4, 6, 2, 4, 2, 2, 2,
                2, 2, 2, 2, 2, 2, 2, 2, 2, 2, 2, 2, 2, 2, 2, 2, 2, 4, 2, 2,
                2, 2, 2, 4, 2, 2, 2, 2, 2, 6, 2, 4, 4, 2, 2, 2, 2, 2, 2, 2,
                2, 2, 2, 2, 2, 2, 2, 4, 2, 2, 2, 2, 2, 4, 4, 2, 2, 2, 2, 2,
                2, 2, 2, 2, 2, 2, 2, 4, 4, 2, 2, 2, 2, 2, 2, 2, 2, 2, 2, 2,
                4, 4, 2, 2, 2, 4, 4, 2, 2, 2, 4, 6, 2, 4, 4, 2, 2, 2, 2, 2,
                2, 2, 2, 2, 2, 2, 4, 2, 2, 2, 2, 2, 2, 2, 2, 2, 2, 10, 2, 8,
                6, 6, 4, 4, 2, 2, 2, 2, 2, 2, 2, 2, 2, 2, 2, 2, 4, 4, 2, 2,
                2, 2, 4, 2, 2, 2, 2, 2, 2, 2, 2, 2, 2, 2, 2, 2, 2, 2, 4, 6,
                2, 4, 4, 2, 2, 2, 4, 2, 2, 4, 2, 2, 2, 2, 2, 2, 2, 2, 2, 2,
                2, 4, 4, 2, 2, 4, 4, 2, 2, 2, 2, 2, 2, 2, 4, 2, 2, 2, 2, 4,
                2, 2, 2, 2, 2, 2, 2, 2, 4, 2, 2, 2, 2, 2, 2, 2, 2, 2, 2, 2,
                2, 2, 2, 2, 2, 2, 2, 2, 4, 2, 2, 2, 2, 4, 4, 2, 2, 2, 2, 2,
                2, 2, 2, 2, 2, 2, 2, 2, 2, 2, 2, 2, 2, 2, 2, 2, 2, 2, 2, 2,
                2, 2, 2, 2 >>])
    @@ (579 :> [u |-> << 415, 912, 336, 137, 364, 596, 152, 198, 385, 908, 124, 454,
                953, 631, 701, 547, 326, 941, 233, 129, 307, 188, 617, 634,
                745, 779, 199, 643, 452, 721, 157, 511, 398, 824, 591, 241,
                393, 186, 607, 594, 938, 770, 23, 781, 8, 170, 784, 666,
                118, 120, 512, 61, 703, 583, 133, 454, 774, 269, 974, 844,
                897, 836, 691, 186, 304, 695, 746, 218, 452, 943, 868, 259,
                199, 276, 98, 428, 210, 99, 516, 583, 846, 252, 19, 324 >>,
            z |-> << 8133, -2551, -8703, -3534, 12177, -11032, -3802, -4710,
                7786, 6055, -1275, 6055, 1333, 14318, 4283, -19500, 4228,
                -3914, -4890, -3914, -9504, 4496, 15285, 13347, 8167, -6505,
                5508, -6899, 17376, -7563, 403, -25018, 11828, 3396, -14607,
                -5782, -12161, 4161, 14720, 6467, 6508, 4874, 6508, 4874,
                6508, 4874, 6508, -7860, -7230, 339, -7230, 1541, 6870,
                -10430, -1363, 15094, -7411, 5020, -9457, 5020, -9457, 5020,
                -9457, -5806, 10888, 10650, -8110, -2503, 6687, -7971,
                -3892, -7971, -6401, -5052, -1581, -13969, -1725, 389,
                26108, 11326, -4670, 21115, -198, 21115 >>,
            zc |-> << -1660, 6425, -3927, -9470, -17093, 3066, -4379, -12381,
                -2184, -610, -10490, -610, 4594, 9352, 18289, 5292, -1664,
                -7548, -3523, -7548, -5857, -11925, 13327, 7328, 7167, 6063,
                -11514, 20749, -3738, 4900, -12285, 2754, -3713, 12071,
                5160, -14107, -4111, -12117, 16846, 1389, 11151, -5636,
                11151, -5636, 11151, -5636, 11151, 3423, 202, -10481, 202,
                -3317, 16759, 2379, -10939, -2506, 8831, 8799, 5775, 8799,
                5775, 8799, 5775, -9323, -10863, 8475, 7088, -14751, -720,
                -6376, 5964, -6376, -8613, -2811, -8867, -3461, -1244,
                -9369, 5222, 2725, 6541, -22762, -2937, -22762 >>,
            k |-> << 2, 2, 2, 2, 2, 2, 2, 2, 2, 4, 2, 2, 2, 2, 2, 2, 2, 4, 2, 2,
                2, 2, 2, 2, 2, 2, 2, 2, 2, 2, 2, 2, 2, 2, 2, 2, 2, 2, 2, 2,
                8, 6, 6, 4, 4, 2, 2, 2, 4, 2, 2, 2, 2, 2, 2, 2, 2, 6, 6, 4,
                4, 2, 2, 2, 2, 2, 2, 2, 2, 4, 2, 2, 2, 2, 2, 2, 2, 2, 2, 2,
                2, 6, 4, 4 >>])
    @@ (582 :> [u |-> << 850, 45, 683, 505, 555, 709, 268, 343, 799, 331, 686, 433,
                758, 695, 346, 225, 975, 62, 862, 180, 841, 866, 66, 950,
                987, 66, 718, 356, 386, 448, 877, 459, 203, 740, 600, 559,
                78, 259, 975, 959, 451, 310, 796, 472, 36, 202, 782, 101,
                268, 643, 641, 626, 39, 214, 392, 850, 192, 636, 167, 875,
                966, 444, 623, 408, 483, 841, 967, 325, 661, 83, 782, 486,
                72, 743, 963, 306, 700, 522, 264, 596, 916, 994, 429, 133,
                707, 471 >>,
            z |-> << 589, 1055, 589, 29502, 17672, -10162, -8533, 11083, -6005,
                12295, -6459, 15351, 7940, -10361, -11861, 3803, -2455,
                3803, -2455, 3803, -8859, 1561, -8859, 1561, -8859, 1561,
                -8859, -12416, -9787, 10320, -1109, -14184, 6528, 6216,
                12213, -7925, -1687, -591, -18795, -591, -18795, 10009,
                -1357, -5395, -2520, 6125, -2520, -2879, 8210, 13349, 13121,
                -4159, 10637, -4945, 10637, -3452, 5083, -10644, -592,
                20802, -592, 20802, -12876, -4730, 12315, 11733, -340,
                11733, -6287, -7881, -732, -7881, 1233, 10986, 2160, 10986,
                2160, -17202, 6200, 7708, -10642, -118, -10642, 4097, -2497,
                1863 >>,
            zc |-> << 19990, -2608, 19990, 2890, 4660, 9193, -12620, -5799, 10664,
                -11135, 18149, -3937, 10521, 13125, -6648, -3553, 2791,
                -3553, 2791, -3553, 13454, -3100, 13454, -3100, 13454,
                -3100, 13454, -15739, -21445, -1414, 10428, -1919, -8043,
                14872, 20797, 1111, -2958, 5626, -4787, 5626, -4787, -6395,
                14350, -326, 1788, -6449, 1788, -4943, -13221, 13593, 14690,
                1141, -3251, -13163, -3251, 3935, -11506, 4355, 4939, -9386,
                4939, -9386, 17475, -25514, -611, -12670, 914, -12670, 2435,
                -253, 15076, -253, -2165, -10639, 18946, -10639, 18946,
                1664, -15211, 1779, -2050, 829, -2050, -7225, 18489, -33889 >>,
            k |-> << 4, 2, 2, 2, 2, 2, 2, 2, 2, 2, 2, 2, 2, 2, 2, 6, 4, 4, 2, 2,
                8, 6, 6, 4, 4, 2, 2, 2, 2, 2, 2, 2, 2, 2, 2, 2, 2, 4, 4, 2,
                2, 2, 2, 2, 4, 2, 2, 2, 2, 2, 2, 2, 4, 2, 2, 2, 2, 2, 4, 4,
                2, 2, 2, 2, 2, 4, 2, 2, 2, 4, 2, 2, 2, 4, 4, 2, 2, 2, 2, 2,
                4, 2, 2, 2, 2, 2 >>])
    @@ (586 :> [u |-> << 184, 695, 202, 497, 168, 405, 327, 121, 581, 674, 773, 704,
                99, 923, 265, 636, 647, 109, 623, 815, 774, 140, 288, 836,
                764, 256, 531, 953, 727, 285, 437, 288, 891, 86, 907, 976,
                631, 422, 874, 189, 381, 181, 256, 309, 621, 998, 634, 451,
                783, 317, 771, 783, 662, 912, 374, 207, 364, 415, 550, 830,
                140, 362, 323, 65, 247, 892, 689, 493, 533, 425, 345, 930,
                43, 370, 918, 66, 637, 234 >>,
            z |-> << 5752, -9737, -112, -12798, -3333, -16945, -7808, 2122,
                17701, 11078, 7407, -5806, 7869, -1770, 7869, 14029, -7963,
                2689, 11644, 5569, -5064, -4333, 8101, 4875, -7797, 2160,
                6184, -5042, -9392, -5042, -17322, 6013, -11044, 564,
                -11044, 564, -11044, 10143, -2117, -4554, -11664, -5714,
                -8542, 9604, -7533, 14670, -7533, 14670, -6805, 10793, 7108,
                6486, 6489, -2253, -12346, -5577, -11269, 13185, 12552,
                -2254, -3649, -14123, -4736, 3227, 4444, 3227, -628, 32262,
                -24562, -18657, 5619, 6947, -1237, 6947, -12730, 1858,
                -12730, -4162 >>,
            zc |-> << -9276, 6403, -14410, -89, -11709, -9295, -3553, -9885, 8226,
                7092, 9884, 2970, -13534, 3196, -13534, 12997, 2998, -8528,
                4549, 6401, 3867, -7347, -5098, 6212, 8472, -16749, 428,
                -17203, 9953, -17203, -5149, -3257, 18814, 2051, 18814,
                2051, 18814, -2085, 2555, -11959, -4329, -7471, -10933,
                -15026, 21074, -2491, 21074, -2491, 10542, -7273, 6812,
                11338, 2552, 7383, -5306, -12015, -18145, -21815, 1938,
                2067, -9525, -11061, -1921, 6676, -2855, 6676, 19676, -5830,
                11117, -8912, -2023, -2141, -4380, -2141, 6612, -5849, 6612,
                -2853 >>,
            k |-> << 2, 2, 2, 2, 2, 2, 2, 2, 2, 2, 2, 2, 4, 2, 2, 2, 2, 2, 2, 2,
                2, 2, 2, 2, 2, 2, 2, 4, 2, 2, 2, 2, 6, 4, 4, 2, 2, 2, 2, 2,
                2, 2, 2, 2, 4, 4, 2, 2, 2, 2, 2, 2, 2, 2, 2, 2, 2, 2, 2, 2,
                2, 2, 2, 4, 2, 2, 2, 2, 2, 2, 2, 4, 2, 2, 4, 2, 2, 2 >>])
    @@ (587 :> [u |-> << 454, 847, 530, 656, 455, 245, 97, 493, 216, 867, 874, 138,
                374, 980, 541, 351, 854, 656, 439, 17, 418, 800, 690, 525,
                550, 200, 722, 990, 766, 162, 94, 941, 794, 740, 903, 172,
                820, 406, 458, 588, 760, 559, 184, 547, 497, 380, 323, 175,
                175, 638, 689, 443, 857, 834, 269, 297, 228, 18, 553, 296,
                214, 346, 111, 952, 940, 178, 141, 968, 53, 757, 26, 252,
                664, 460, 244, 317, 11, 650 >>,
            z |-> << 11826, 1065, 20946, -5743, -16034, -3753, -158, -15037,
                4305, -3382, 1643, -3382, 1643, 329, -20882, 9452, 4073,
                -7530, -3267, -480, 13290, 6252, 2594, 26329, -13909, 6436,
                -6110, 4288, -6110, 4288, 6617, 4288, 6617, 4288, -3536,
                4114, -3536, -10252, 23152, 14643, 3532, -13072, 2010,
                -1502, -23896, -15266, -9665, -4152, 4633, 14036, -5510,
                11218, 1980, -5181, -9237, -10011, -18005, 387, -18005,
                -9711, -6256, -7881, -4854, -2893, -4854, -2893, -4854,
                7988, -4854, 7988, -4854, 7988, -4854, -16058, -7933,
                -13328, 11064, -13328 >>,
            zc |-> << -1537, 11952, 4134, 20377, -2792, -2369, -9309, -362, -3327,
                -9753, -429, -9753, -429, 3808, 5819, -3966, 9242, 19514,
                -408, -2846, -3599, 9838, 19359, 13423, 2327, -8662, 4817,
                2553, 4817, 2553, 8110, 2553, 8110, 2553, 12197, -4201,
                12197, -23055, -10818, 4980, 15441, 2466, -13242, 30582,
                -469, -10343, -5275, -4146, -10853, 10274, 18465, -1772,
                2119, 7523, -10509, -7462, 4703, -3507, 4703, -6935, -11604,
                -3117, 20278, -2591, 20278, -2591, 20278, -12041, 20278,
                -12041, 20278, -12041, 20278, -2468, -11094, 10587, -8999,
                10587 >>,
            k |-> << 2, 2, 2, 2, 2, 2, 2, 2, 2, 4, 4, 2, 2, 2, 2, 2, 2, 2, 2, 2,
                2, 2, 2, 2, 2, 2, 4, 8, 2, 6, 4, 4, 2, 2, 4, 2, 2, 2, 2, 2,
                2, 2, 2, 2, 2, 2, 2, 2, 2, 2, 2, 2, 2, 2, 2, 2, 4, 2, 2, 2,
                2, 2, 12, 4, 10, 2, 8, 6, 6, 4, 4, 2, 2, 2, 2, 4, 4, 2 >>])
    @@ (594 :> [u |-> << 224, 623, 242, 52, 625, 277, 449, 153, 426, 194, 797, 284,
                320, 141, 590, 719, 938, 788, 278, 987, 55, 471, 131, 94,
                708, 172, 290, 596, 949, 906, 583, 896, 354, 597, 675, 437,
                737, 396, 584, 847, 762, 425, 433, 810, 837, 628, 31, 195,
                929, 566, 990, 895, 581, 614, 368, 119, 97, 123, 258, 461,
                501, 266, 851, 756, 193, 303, 576, 956, 971, 782, 60, 161,
                784, 995, 939, 842, 80, 891, 636, 771, 311, 640, 495, 80,
                143, 341, 811, 587, 780, 305, 650, 656, 900, 433, 313, 63 >>,
            z |-> << 5802, -13490, -14290, 1447, -14290, -3935, -11815, -2438,
                -13251, 5556, -6497, -9753, -8416, 2682, 15987, 2510, -430,
                -6886, -430, -10963, -430, -10963, -8494, 2761, -8494,
                -5403, 7372, 5646, 8980, 1749, 8980, -2835, 11387, 16736,
                -6689, 16316, -6470, 14582, 11243, 4478, -4234, -16977,
                13167, 4309, 4046, -3293, 1144, 2038, 1144, 2038, 18336,
                1878, 18336, -15449, -8817, -3605, -2660, -3605, -2660, 887,
                -17432, 6835, 4377, -7237, -6068, 6698, 5509, 4520, 12609,
                4520, 12609, 4520, 12609, 2840, 12609, 2840, 12609, 2840,
                12609, -7347, 10365, -773, -8384, 10658, -4050, 10658, 3545,
                13931, -7041, 10284, 13191, 7229, -1491, -18141, -4215, 1841 >>,
            zc |-> << -12939, 6487, 8033, -5180, 8033, -17264, -1731, -11492,
                -3187, -5699, 9001, -11694, -4213, -10670, 6571, 1254,
                -6787, 8965, -6787, -839, -6787, -839, 5400, -5384, 5400,
                -8467, -16002, 1208, 1903, 8464, 1903, 7730, -17053, 9277,
                18735, -4298, 14888, -17772, 2737, 5933, 14990, -18896,
                -2822, 3964, 10659, 901, 7401, 276, 7401, 276, 13051, 9076,
                13051, 13518, -3042, -5623, -16709, -5623, -16709, -32021,
                79, -4543, 5996, 6056, -9459, -17323, 919, -5374, 6349,
                -5374, 6349, -5374, 6349, 8148, 6349, 8148, 6349, 8148,
                6349, 10565, -13942, 22529, -96, -5418, -9107, -5418, 12702,
                4321, 10141, -13344, 12653, 2824, 9000, -6457, -1801, -4514 >>,
            k |-> << 2, 2, 4, 2, 2, 2, 2, 2, 2, 2, 2, 2, 2, 2, 2, 2, 6, 2, 4, 4,
                2, 2, 4, 2, 2, 2, 2, 2, 4, 2, 2, 2, 2, 2, 2, 2, 2, 2, 2, 2,
                2, 2, 2, 2, 2, 2, 4, 4, 2, 2, 4, 2, 2, 2, 2, 4, 4, 2, 2, 2,
                2, 2, 2, 2, 2, 2, 2, 6, 12, 4, 10, 2, 8, 6, 6, 4, 4, 2, 2,
                2, 2, 2, 2, 4, 2, 2, 2, 2, 2, 2, 2, 2, 2, 2, 2, 2 >>])
    @@ (606 :> [u |-> << 238, 768, 561, 533, 839, 671, 975, 866, 16, 234, 737, 449,
                530, 215, 384, 310, 586, 846, 244, 213, 545, 249, 951, 958,
                366, 515, 184, 809, 466, 413, 315, 402, 524, 331, 398, 639,
                794, 751, 210, 771, 205, 747, 943, 905, 858, 208, 794, 556,
                241, 147, 741, 989, 171, 659, 46, 604, 947, 637, 797, 477,
                279, 728, 452, 799, 643, 705, 48, 767, 368, 868, 188, 514,
                767, 344, 897, 459, 591, 529, 84, 979 >>,
            z |-> << 7688, 3469, 13388, 12303, 4721, 7768, -3558, 7768, -3558,
                7768, -3558, 15001, -14846, -5254, -15368, 7723, 11276,
                -4604, -7670, 2308, -16163, -1199, 2730, -1199, 2730,
                -13537, 4929, -1503, -24138, -17140, -8754, 6209, -20532,
                -9941, 16709, 11842, 6573, -7784, 6582, -6908, 6569, 6153,
                -3525, 6153, -3525, 6153, 2688, -15589, -5921, 4487, 4890,
                -3774, 4890, -3774, 1210, 5680, 1515, 11777, -1076, -17938,
                9688, -3559, 13948, 5517, 13622, -1615, 9308, -6375, 9308,
                -2439, 628, 15757, -6952, 7401, -970, 23140, 7958, -8501,
                -1438, -556 >>,
            zc |-> << -7491, 15044, 24585, 1222, 9320, -8693, 16634, -8693, 16634,
                -8693, 16634, -25081, 1582, -12921, -9368, -17033, 2805,
                6241, -6826, -14552, 2936, 4122, -22765, 4122, -22765, 686,
                -5030, 13698, -9420, -8091, -16535, -24554, 3003, -16568,
                -12143, 5601, 7694, 6766, -7006, 6364, -7816, -6091, 4338,
                -6091, 4338, -6091, 14042, 3401, -4345, -6533, -10075, 1329,
                -10075, 1329, -5252, 1326, 4920, 5445, 14311, -1821, -9359,
                17092, -2212, 11518, 9542, 733, -3330, 12905, -3330, 2891,
                -13748, 835, 11957, -2900, 9418, -10338, 24397, 611, -350,
                2267 >>,
            k |-> << 2, 2, 2, 2, 2, 6, 6, 4, 4, 2, 2, 2, 2, 2, 2, 2, 2, 2, 2, 2,
                2, 4, 4, 2, 2, 2, 2, 2, 2, 2, 2, 2, 2, 2, 2, 2, 2, 2, 2, 2,
                2, 6, 4, 4, 2, 2, 2, 2, 2, 2, 4, 4, 2, 2, 2, 2, 2, 2, 2, 2,
                2, 2, 2, 2, 2, 2, 4, 2, 2, 2, 2, 2, 2, 2, 2, 2, 2, 2, 4, 2 >>])
    @@ (607 :> [u |-> << 924, 133, 103, 248, 198, 114, 19, 162, 775, 92, 727, 577,
                680, 402, 880, 20, 731, 176, 552, 175, 731, 144, 523, 598,
                199, 626, 753, 548, 974, 576, 95, 379, 67, 282, 229, 682,
                397, 737, 581, 898, 509, 61, 164, 422, 589, 213, 938, 436,
                443, 253, 18, 277, 70, 554, 622, 195, 202, 763, 133, 83,
                664, 710, 613, 285, 159, 413, 175, 80, 748, 8, 125, 920,
                334, 61, 152, 141, 160, 757 >>,
            z |-> << -2708, -7559, -2708, -7559, -2255, 4676, -2086, 4676, -2086,
                2550, 5487, 17774, -8919, 9511, -7775, 2090, -7775, 2090,
                -12804, 5546, -6807, 762, 24619, -12885, 5092, 13472, 3061,
                4287, 627, -8663, -2347, -6325, -1611, -9413, 7316, -9101,
                14905, 5384, 8920, 239, -7236, 18187, -2736, 18187, -13631,
                -17692, -998, -17692, -16078, -3190, 950, -3190, 950, 20962,
                -12022, -5602, 6359, -5172, 12469, 2430, 12469, 8123,
                -15038, -7855, -2929, -12187, -4772, 1623, -4772, -2332,
                -4772, -2332, -4772, -1594, -499, -1594, 4846, 9250 >>,
            zc |-> << -4274, -6285, -4274, -6285, -1765, -5731, 1411, -5731, 1411,
                -4567, 16214, 7566, 16622, -2426, 5567, -12830, 5567,
                -12830, 2083, -7762, 4439, -11639, 5822, 4218, -12060, 6726,
                15958, 439, 3889, 1641, -7896, -1758, -3202, -7576, -10818,
                16283, -6401, 15675, 1831, 9539, 164, -15722, -11908,
                -15722, 4237, -19839, 6865, -19839, -3708, -1652, -7504,
                -1652, -7504, 9284, 4848, -5740, -7173, 3716, 9739, -6153,
                9739, 15131, 7915, -4952, -11488, -3266, -1804, -2738,
                -1804, 5917, -1804, 5917, -1804, -1684, -485, -1684, -6386,
                444 >>,
            k |-> << 4, 4, 2, 2, 2, 4, 4, 2, 2, 2, 2, 2, 2, 2, 4, 4, 2, 2, 2, 2,
                2, 2, 2, 2, 2, 2, 2, 2, 2, 2, 2, 2, 2, 2, 2, 2, 2, 2, 2, 2,
                2, 4, 2, 2, 2, 4, 2, 2, 2, 4, 4, 2, 2, 2, 2, 2, 2, 2, 4, 2,
                2, 2, 2, 2, 2, 2, 8, 2, 6, 4, 4, 2, 2, 4, 2, 2, 2, 6 >>])
    @@ (608 :> [u |-> << 710, 286, 266, 636, 673, 358, 1, 809, 949, 995, 340, 14,
                548, 515, 756, 361, 159, 969, 863, 555, 26, 212, 594, 568,
                568, 397, 962, 961, 231, 981, 155, 907, 180, 962, 949, 562,
                15, 516, 374, 270, 704, 554, 649, 736, 652, 256, 485, 728,
                145, 39, 502, 476, 499, 556, 465, 18, 812, 392, 193, 332,
                387, 174, 813, 128, 788, 902, 462, 384, 799, 246, 845, 4,
                98, 380, 513, 477, 636, 841, 95, 289, 559, 67, 657, 629,
                860, 431, 139, 858, 398, 276, 997, 517 >>,
            z |-> << -10196, -9974, 7915, 14201, -11352, 311, 9267, 311, 9267,
                311, 9267, 311, 9267, 16287, -6983, -10266, 1674, -4306,
                1674, -4306, 14213, 4425, 14213, 18023, -19705, 4511, 859,
                -2980, 859, -2980, 859, -2980, 859, -2980, 859, -2980, 117,
                -23232, -14116, 9283, 4773, 20104, 12879, 8220, -12596,
                -1002, 17627, -6927, -34783, 26, -34783, -989, 29501,
                -14802, -3730, -12401, -4204, -12401, -5752, -10642, -11522,
                4389, -2558, 3032, 1529, -843, -22675, 12442, -6377, 6352,
                -2410, 2749, -2410, 2749, -29084, 22393, 10315, 4934, -2802,
                4934, -7277, 1958, 12049, 9705, -2074, -10927, -15383,
                -2953, -15383, 19989, 43, 19989 >>,
            zc |-> << 10030, -9128, -13525, 11214, 13903, -3131, 28810, -3131,
                28810, -3131, 28810, -3131, 28810, 985, 12920, -4179, 10959,
                505, 10959, 505, 19474, -13468, 19474, 18195, 13109, -1000,
                6189, 383, 6189, 383, 6189, 383, 6189, 383, 6189, 383,
                -3474, 3031, -7732, -10408, 17911, 7336, 8133, 12720, 7910,
                -16912, -1112, 4472, 3044, -5726, 3044, -34922, -348, 24250,
                -268, -4362, 12181, -4362, -10527, -15807, -3983, -4559,
                2161, -3901, 1096, 9166, -7281, -4796, 7530, -4662, -8073,
                -23692, -8073, -23692, 18317, -3624, 4124, -17516, -5390,
                -17516, 996, -5387, 14617, 3489, 10922, -2075, -6984, 10450,
                -6984, 1915, 1221, 1915 >>,
            k |-> << 2, 2, 2, 2, 2, 8, 8, 6, 6, 4, 4, 2, 2, 2, 2, 2, 4, 4, 2, 2,
                4, 2, 2, 2, 2, 2, 10, 10, 8, 8, 6, 6, 4, 4, 2, 2, 2, 2, 2,
                2, 2, 2, 2, 2, 2, 2, 2, 2, 4, 2, 2, 2, 2, 2, 2, 4, 2, 2, 2,
                2, 2, 2, 2, 2, 2, 2, 2, 2, 2, 2, 4, 4, 2, 2, 2, 2, 2, 4, 2,
                2, 2, 2, 2, 2, 2, 2, 4, 2, 2, 4, 2, 2 >>])
    @@ (616 :> [u |-> << 771, 906, 77, 137, 340, 30, 881, 904, 162, 669, 29, 65, 232,
                552, 434, 994, 636, 812, 228, 477, 377, 729, 240, 767, 963,
                747, 421, 797, 476, 541, 339, 454, 832, 41, 379, 272, 691,
                175, 80, 895, 775, 992, 967, 457, 716, 406, 960, 12, 476,
                358, 527, 133, 796, 373, 91, 381, 991, 827, 691, 372, 859,
                97, 961, 376, 58, 446, 985, 104, 350, 185, 831, 911, 102,
                20, 578, 822, 702, 875, 958, 566, 953, 459, 619, 14, 259,
                857, 985, 688, 126, 952, 686, 420 >>,
            z |-> << 2494, -3886, -1724, -3886, -1724, -20756, 4760, -20756,
                4760, -20756, 3018, -20756, 3018, -20756, 951, -5700, 11342,
                -5700, -1276, -23219, 14284, -9081, 7769, -4896, 13469,
                -4896, 13469, -1119, 26768, -20336, -5667, 12526, -14424,
                -1167, -14424, 9291, -9185, 2204, -454, 2204, -454, 17760,
                -454, 17760, -6858, 4881, -22059, -151, -22059, 4318,
                -11044, 3037, -5215, -7525, -2233, 5291, -9764, 5291, -9764,
                9796, -1093, -5695, -1093, -5695, -820, 2988, -10850, -2894,
                -10850, 4360, 12441, 551, 12441, 551, 12441, 5553, 7044,
                5803, 793, 5803, -547, 22190, -460, -7522, 6423, -7522,
                -7449, -7522, -7449, 1119, -7449, -16113 >>,
            zc |-> << 1663, -8815, -588, -8815, -588, 16803, -9470, 16803, -9470,
                16803, -15271, 16803, -15271, 16803, -126, 6546, 4959, 6546,
                -15511, -4252, -7610, 8011, -7551, 15457, -3540, 15457,
                -3540, 14312, -14887, 5311, -20191, -1696, -7621, -4457,
                -7621, -11050, 5415, 3167, 4984, 3167, 4984, -3498, 4984,
                -3498, 15947, -985, -3708, -3100, -3708, -21901, 838, -3759,
                12179, -2336, -7704, 9067, 14690, 9067, 14690, -3461, 4091,
                -1593, 4091, -1593, -6818, -326, -5175, -7635, -5175, -4138,
                3039, -3354, 3039, -3354, 3039, 8861, 3794, 853, 5455, 853,
                6062, -7616, 113, 3790, -4323, 3790, 17485, 3790, 17485,
                2715, 17485, -19232 >>,
            k |-> << 2, 4, 4, 2, 2, 10, 4, 8, 2, 6, 4, 4, 2, 2, 2, 4, 2, 2, 2, 2,
                2, 2, 2, 4, 4, 2, 2, 2, 2, 2, 2, 2, 4, 2, 2, 2, 2, 4, 6, 2,
                4, 4, 2, 2, 2, 2, 4, 2, 2, 2, 2, 2, 2, 2, 2, 4, 4, 2, 2, 2,
                4, 4, 2, 2, 2, 2, 4, 2, 2, 2, 6, 4, 4, 2, 2, 2, 2, 4, 2, 2,
                2, 2, 2, 6, 2, 4, 6, 2, 4, 2, 2, 2 >>])
    @@ (620 :> [u |-> << 806, 828, 281, 438, 765, 779, 298, 950, 330, 819, 329, 240,
                9, 869, 42, 668, 888, 891, 439, 431, 121, 641, 525, 415,
                752, 498, 211, 425, 177, 477, 882, 815, 373, 484, 600, 827,
                922, 950, 364, 399, 192, 859, 748, 609, 290, 879, 632, 660,
                209, 739, 659, 891, 715, 997, 914, 821, 634, 93, 407, 164,
                676, 241, 970, 690, 913, 51, 335, 663, 164, 222, 384, 63,
                520, 683, 302, 620, 157, 781, 564, 637, 189, 266, 832, 216,
                396, 258, 325, 635, 860, 247, 48, 495, 385, 51, 727, 843,
                284, 766, 824, 129, 637, 540, 397, 772, 590, 484, 585, 594,
                934, 177, 627, 500, 998, 404, 252, 894, 877, 93, 698, 370,
                734, 398, 623, 23, 152, 730, 815, 992, 641, 316, 629, 179,
                814, 769, 67, 556, 317, 165, 974, 875, 86, 887, 723, 375,
                14, 935, 27, 217, 222, 389, 470, 137, 997, 454, 699, 729,
                856, 258, 409, 232, 818, 524, 518, 340, 744, 71, 36, 182,
                397, 4, 875, 777, 586, 389, 576, 827, 58, 758, 18, 382, 729,
                208 >>,
            z |-> << 4769, -5374, -4787, 15181, 7390, -7143, 2020, -1356, 10027,
                -5334, -11544, 7465, 1104, 7465, 1104, 7465, -19490, -1480,
                -19490, -10074, 3229, 3937, -25247, 15051, -111, -14844,
                -3595, -12541, -933, 10313, 1169, -4609, -2906, 24934,
                11739, -1415, -12456, -1415, -12456, -12540, 3596, 4188,
                6305, -15357, 6617, 3073, 14468, -11223, 6785, 8243, 7581,
                3219, -7506, 4630, -7506, 4630, -7506, -1894, -11594, 4882,
                -11315, 5562, 12340, 5562, 12340, -1464, 12340, -9742,
                -4764, -5476, -6151, 346, 19839, -11521, 9136, -10672, 4396,
                3313, 19756, -11369, -6046, 7439, -4760, -4864, -14742,
                -8418, 11073, 9566, -4109, -24277, -60, -24277, -5364,
                -4855, 7343, -4855, 9549, 6472, -1835, 3365, 6289, -22908,
                13754, 4703, -4437, 26039, 17370, 6704, 85, 4449, 85, 901,
                4553, -14873, 4553, 2772, -9437, 2772, -9437, 13833, -6526,
                16467, -2449, 8000, 4708, 8000, -13879, 10298, -13879,
                10298, -11278, 4614, 5660, -18716, 961, -18716, -9135, 3351,
                -8001, 3351, -8001, 3351, -8001, -6760, -5305, -6760, -5305,
                -6760, -5305, -6299, -11260, 18452, -64, 18452, 10661, 6861,
                -4353, -5720, -14315, 6579, 1049, 20113, -21178, 12304,
                -2044, -3909, 3087, -3909, 3087, 4353, 3087, 4353, -17807,
                13008, 12290, 14475, -418, 14475, -418, 14475, -8561, 6208 >>,
            zc |-> << 4443, 8095, -17127, -3488, 7028, 9897, -903, 3598, -5327,
                10009, -7594, 3236, -2997, 3236, -2997, 3236, -17268, 9524,
                -17268, -1828, -8647, 21988, 7584, -5017, 16516, -87,
                -13949, -2893, -13196, -614, 1415, 11527, -23213, -3924,
                3595, 4716, -16717, 4716, -16717, -4111, -3078, 6063, 14323,
                8008, -3651, 8831, 11927, 6193, -8233, 12396, 3078, 5857,
                2480, 11095, 2480, 11095, 2480, -8342, -3181, -9304, 7719,
                2558, -12440, 2558, -12440, -3986, -12440, 4752, -5755,
                -13192, -1620, -7301, 2243, 10709, -15017, 3737, -5356,
                14451, 9238, 5054, -8019, -5232, 5582, -13350, -6299,
                -11643, -14255, 3607, 5871, -896, -6381, -896, -1366, 7732,
                4849, 7732, -7746, 5307, 1607, -9102, 21489, 8950, -5177,
                14117, 25624, -4808, 15688, 1456, 23369, -11243, 23369, 1,
                -2857, -5727, -2857, -5677, 14473, -5677, 14473, -7639,
                15027, -13590, 634, 5851, -7086, 5851, 10694, -14611, 10694,
                -14611, 4565, -4699, 6610, 5809, -7327, 5809, -4990, 5814,
                14293, 5814, 14293, 5814, 14293, -6874, -13316, -6874,
                -13316, -6874, -13316, -23440, -925, -4190, 707, -4190,
                9272, 4414, 6421, -15239, -4847, -5534, 13364, 26523, 2517,
                -8024, 1165, -12115, 4175, -12115, 4175, 14062, 4175, 14062,
                13841, -18875, 2867, -7402, -1715, -7402, -1715, -7402,
                6744, -11038 >>,
            k |-> << 2, 2, 2, 2, 2, 2, 2, 2, 2, 2, 2, 6, 4, 4, 2, 2, 4, 2, 2, 2,
                2, 2, 2, 2, 2, 2, 2, 2, 2, 2, 2, 2, 2, 2, 2, 4, 4, 2, 2, 2,
                2, 2, 2, 2, 2, 2, 2, 2, 2, 2, 2, 2, 6, 4, 4, 2, 2, 2, 2, 2,
                2, 4, 6, 2, 4, 2, 2, 2, 2, 2, 2, 2, 2, 2, 2, 2, 2, 2, 2, 2,
                2, 2, 2, 2, 2, 2, 2, 2, 2, 4, 2, 2, 2, 4, 2, 2, 2, 2, 2, 2,
                2, 2, 2, 2, 2, 2, 2, 2, 4, 2, 2, 2, 4, 2, 2, 4, 4, 2, 2, 2,
                2, 2, 2, 4, 2, 2, 4, 4, 2, 2, 2, 2, 2, 4, 2, 2, 2, 6, 6, 4,
                4, 2, 2, 6, 6, 4, 4, 2, 2, 2, 2, 4, 2, 2, 2, 2, 2, 2, 2, 2,
                2, 2, 2, 2, 2, 4, 6, 2, 4, 4, 2, 2, 2, 2, 2, 6, 4, 4, 2, 2,
                2, 2 >>])
    @@ (635 :> [u |-> << 860, 766, 224, 878, 498, 398, 872, 121, 24, 163, 0, 695,
                929, 582, 514, 680, 21, 17, 400, 420, 954, 911, 317, 793,
                289, 690, 450, 584, 929, 939, 967, 834, 69, 161, 389, 795,
                216, 20, 731, 176, 632, 924, 531, 356, 482, 843, 581, 995,
                180, 786, 481, 984, 699, 340, 972, 970, 120, 614, 878, 529,
                571, 699, 785, 481, 787, 53, 321, 909, 59, 244, 626, 775,
                536, 928, 310, 507, 115, 162, 685, 732, 426, 889, 814, 383,
                333, 562, 230, 230, 221, 515, 845, 322, 329, 134, 708, 125,
                769, 615, 710, 302, 108, 285, 557, 811, 153, 317, 363, 590,
                992, 674, 946, 57, 749, 741, 649, 274, 590, 708, 871, 904,
                63, 961, 617, 596, 167, 315, 196, 238, 328, 379, 702, 943,
                580, 67, 572, 530, 523, 368, 886, 400, 386, 879, 465, 524,
                347, 482, 178, 731, 385, 541, 454, 475, 800, 913, 474, 711,
                457, 397, 232, 906, 326, 702, 285, 156, 782, 632, 418, 723,
                429, 179, 305, 541, 322, 914, 170, 98, 880, 320, 379, 763,
                780, 77, 193, 687, 266, 619 >>,
            z |-> << 3922, -7417, 4146, -38, -25237, 9811, 1385, 4388, 1385,
                4388, 1385, 4388, 1385, 4503, 20081, -480, -14609, -480,
                -14609, 5577, 10328, -2633, 10328, -6663, 10114, -4864,
                22005, 7171, 12692, -3627, 12692, -3627, 12692, -3627,
                12692, -6172, -7802, 4546, -7802, 4546, 6542, 599, -21595,
                -2698, 12232, 2718, 5228, -947, 5228, -947, 3522, 922,
                -10256, 922, 2787, 9292, 2787, 9292, 811, 25287, 17414,
                9839, -977, 14805, 6148, -1470, 6148, 6648, 12838, 6648,
                12838, 2031, 7711, -2048, 799, -10235, 11276, 4932, 11276,
                -5073, 9493, -15527, -4410, -15527, 7135, -15009, -7385,
                -7273, 851, 12144, -4606, -11632, -8396, 4100, -6872, 3330,
                5757, 15033, -10161, -6469, -3226, 4656, 13300, -3975,
                -4617, -10620, 11672, 3812, 8381, 3812, 8381, 7910, 8381,
                7910, -13077, 6310, 16300, 6980, 13788, 1097, 13788, 1097,
                13788, -11636, -5071, -9973, -6137, -7506, -10735, 14892,
                2909, 1156, -7033, 1195, 10611, 19639, -22609, 8523, -2367,
                -16452, 9252, -933, 18252, -21436, -2473, -13231, 5625,
                -7223, 8166, -21201, -14425, 14193, 18349, -528, 18349,
                -3625, -22646, -13937, 2759, -2754, 12059, -10541, -7802,
                4348, 5835, -11282, 16212, -5235, -12689, -5577, 4014,
                -19580, 5922, -10216, -3536, -10216, -3536, -10216, 13450,
                7447, 5993, -11171, 5993, -11171, 7315, 13746 >>,
            zc |-> << 5314, 7158, -3024, 10566, -337, -2679, 7206, 2002, 7206,
                2002, 7206, 2002, 7206, 26360, 1565, -2327, -18237, -2327,
                -18237, -980, -6436, 5932, -6436, 9290, -11141, 18669,
                -12890, 1418, -4742, -11090, -4742, -11090, -4742, -11090,
                -4742, 6451, 5576, -11076, 5576, -11076, 2046, 8010, 4770,
                -22099, -625, 11501, -5826, 14866, -5826, 14866, -133, -311,
                12805, -311, -9233, 2814, -9233, 2814, 10486, 10277, 6268,
                6878, 14895, -965, -2685, -3669, -2685, -13411, 5906,
                -13411, 5906, 15180, 663, 4630, -19663, 205, 8977, -8975,
                8977, 16168, -1781, -10924, 11856, -10924, -19072, 3464,
                -7388, -7030, -15262, 546, 8934, -12170, -3902, -7196, 3830,
                -4625, 13440, 8254, 10831, -3255, -5891, -17404, 2453, 3574,
                -8759, -14199, -17618, 1486, 8674, 1486, 8674, 12802, 8674,
                12802, 8652, -15780, 7044, 3922, 16893, 4290, 16893, 4290,
                16893, 3367, -9125, -6074, -7122, -11454, -15238, -8888,
                1328, 6341, 1315, -7151, 25066, 25246, 4091, -2899, 9192,
                -14436, -2766, 10387, -25677, 3416, -21621, -715, -7829,
                14570, -22299, 19683, -26480, -1165, -2189, 8652, -2189,
                17977, -9397, -5358, -1814, 6467, -10286, 9993, -4864,
                -5286, 12426, 18431, -5897, 16617, -2787, -9179, -18774,
                4601, -2529, -15239, 7520, -15239, 7520, -15239, -6123,
                6988, -9806, 8975, -9806, 8975, -14321, 16799 >>,
            k |-> << 2, 2, 2, 2, 2, 2, 8, 6, 6, 4, 4, 2, 2, 2, 2, 4, 4, 2, 2, 2,
                4, 2, 2, 2, 2, 2, 2, 2, 8, 6, 6, 4, 4, 2, 2, 2, 4, 4, 2, 2,
                2, 2, 2, 2, 2, 2, 4, 4, 2, 2, 2, 4, 2, 2, 4, 4, 2, 2, 2, 2,
                2, 2, 2, 2, 4, 2, 2, 4, 4, 2, 2, 2, 2, 2, 2, 2, 4, 2, 2, 2,
                2, 4, 2, 2, 2, 2, 2, 2, 2, 2, 2, 2, 2, 2, 2, 2, 2, 2, 2, 2,
                2, 2, 2, 2, 2, 2, 2, 4, 6, 2, 4, 4, 2, 2, 2, 2, 2, 2, 6, 4,
                4, 2, 2, 2, 2, 2, 2, 2, 2, 2, 2, 2, 2, 2, 2, 2, 2, 2, 2, 2,
                2, 2, 2, 2, 2, 2, 2, 2, 2, 2, 2, 2, 4, 2, 2, 2, 2, 2, 2, 2,
                2, 2, 2, 2, 2, 2, 2, 2, 2, 2, 2, 2, 2, 6, 4, 4, 2, 2, 2, 2,
                4, 4, 2, 2, 2, 2 >>])
    @@ (636 :> [u |-> << 445, 68, 876, 772, 383, 186, 530, 628, 10, 836, 844, 726,
                654, 918, 267, 80, 892, 380, 839, 893, 120, 942, 578, 475,
                333, 439, 885, 805, 170, 297, 15, 485, 887, 172, 824, 551,
                380, 553, 94, 696, 762, 312, 514, 440, 808, 828, 897, 112,
                359, 464, 411, 776, 222, 436, 15, 718, 913, 743, 326, 369,
                417, 199, 983, 488, 120, 155, 504, 854, 643, 808, 182, 909,
                886, 969, 940, 474, 618, 150, 372, 811, 271, 106, 387, 473 >>,
            z |-> << -7382, -5655, 3152, -5655, -11883, 1298, 22479, 2787, 4828,
                2787, 4828, 8761, 6319, -2013, -3540, 10842, -2586, 10842,
                -8087, 1142, -8087, 1142, -8087, -20639, -6930, 9856, 1602,
                -4796, -5319, 10090, -103, 10090, 2036, 3987, 2036, -21280,
                9384, -8869, 2801, 10404, -7688, 1530, -28153, 13372, 4671,
                -3006, -5405, -3006, -5405, -23914, 14054, -7012, -3347,
                -3012, 2038, 4570, 2038, -8313, -10967, -11553, -13259,
                -10507, -89, -10507, 11731, 159, 11731, 3883, 11249, -4979,
                -404, 23318, -404, 23318, -404, 23318, -10447, -3724, 11645,
                -6006, -5306, -2459, -5460, -19717 >>,
            zc |-> << -928, 13302, 4351, 13302, -4392, -13512, 5283, 2721, 7354,
                2721, 7354, 12798, 2337, 3621, -1963, -3811, 8516, -3811,
                25593, 6421, 25593, 6421, 25593, -3084, -19165, -1540, 2019,
                4454, -8642, -372, -3490, -372, 12792, -4028, 12792, 9164,
                -21138, 1164, -5792, 7772, 10756, -19700, 6912, -2572, 4385,
                -8265, -21572, -8265, -21572, -9520, -4512, 6976, -14630,
                -395, 3459, 2408, 3459, 11666, -14597, -18359, -3621, -330,
                3598, -330, 148, -12219, 148, 9609, 5216, 4838, 7080, -4957,
                7080, -4957, 7080, -4957, 3531, -10218, -4761, 8205, -3072,
                -8576, -23555, -2811 >>,
            k |-> << 2, 4, 2, 2, 2, 2, 2, 4, 4, 2, 2, 2, 2, 2, 2, 4, 2, 2, 6, 4,
                4, 2, 2, 2, 2, 2, 2, 2, 2, 4, 2, 2, 4, 2, 2, 2, 2, 2, 2, 2,
                2, 2, 2, 2, 2, 4, 4, 2, 2, 2, 2, 2, 2, 2, 4, 2, 2, 2, 2, 2,
                2, 4, 2, 2, 4, 2, 2, 2, 2, 2, 6, 6, 4, 4, 2, 2, 2, 2, 2, 2,
                2, 2, 2, 2 >>])
    @@ (642 :> [u |-> << 536, 274, 41, 72, 693, 786, 324, 692, 945, 788, 397, 68,
                395, 855, 17, 705, 432, 204, 211, 28, 88, 750, 556, 410,
                231, 585, 130, 48, 248, 980, 340, 694, 420, 994, 814, 156,
                843, 701, 802, 442, 987, 964, 607, 756, 988, 639, 267, 994,
                856, 676, 341, 764, 511, 263, 889, 380, 708, 642, 810, 628,
                732, 954, 94, 295, 937, 124, 429, 808, 950, 372, 27, 33, 8,
                453, 160, 613, 641, 69, 592, 168, 745, 154, 228, 43, 483,
                700, 268, 150, 588, 680, 862, 724, 325, 788 >>,
            z |-> << -17464, 2074, 10073, 2074, 10073, -6579, 11927, 3151, -6761,
                -4677, -6761, -1632, 10497, -5736, -13808, -5736, -13808,
                -6130, 2030, 3611, 2030, 3611, -21038, -14319, 4582, -10241,
                12815, -7027, 12815, -7027, 12815, -7027, -3926, 2375,
                -3926, 2375, 4819, 9406, -2590, 2762, 14139, 975, 14139,
                -13389, 4228, -13389, 4228, -11559, 4228, -11559, 11952,
                715, -17269, 5189, -2640, 14878, 9338, 11229, 4829, 13925,
                -2799, 3410, -2799, 3410, 13176, -1917, 13176, -2787, -1392,
                -2787, -219, -12158, -219, -12158, 3660, 15683, -5966, 1497,
                -11769, 5216, -6631, -4448, 18998, -220, 18998, -10572,
                -7021, 2804, 17146, 8208, 4200, -9222, 10755, 6737 >>,
            zc |-> << 2792, -4591, 6787, -4591, 6787, 10742, -10897, 1359, -1601,
                13211, -1601, -6710, -3097, 17379, -3175, 17379, -3175,
                -6269, -3336, 15933, -3336, 15933, 13401, -4743, -14427,
                2365, -10521, 17260, -10521, 17260, -10521, 17260, 3592,
                -2375, 3592, -2375, 8222, 6269, 13695, -324, 5911, 4226,
                5911, 8053, 8571, 8053, 8571, 12871, 8571, 12871, -7154,
                15949, 865, -3148, 8642, -8510, 13654, 5155, 11658, 7704,
                -5545, -1596, -5545, -1596, -3026, -10170, -3026, -752,
                4920, -752, -2314, -1661, -2314, -1661, -10938, 12652, 1954,
                -6966, 3284, -7040, 4720, -5647, -1588, -5989, -1588, 9191,
                -4642, -11097, 8372, 4093, 6785, 11874, -6504, 10008 >>,
            k |-> << 2, 4, 4, 2, 2, 2, 2, 2, 4, 2, 2, 2, 2, 4, 4, 2, 2, 2, 4, 4,
                2, 2, 2, 2, 2, 2, 6, 6, 4, 4, 2, 2, 4, 4, 2, 2, 2, 2, 2, 2,
                4, 2, 2, 4, 6, 2, 4, 4, 2, 2, 2, 2, 2, 2, 2, 2, 2, 2, 2, 2,
                4, 4, 2, 2, 4, 2, 2, 4, 2, 2, 4, 4, 2, 2, 2, 2, 2, 2, 2, 2,
                2, 2, 4, 2, 2, 2, 2, 2, 2, 2, 2, 2, 2, 2 >>])
    @@ (648 :> [u |-> << 399, 71, 799, 102, 880, 443, 706, 170, 845, 51, 674, 837,
                520, 198, 898, 997, 745, 350, 565, 137, 574, 229, 439, 259,
                882, 768, 592, 771, 567, 74, 6, 84, 855, 199, 314, 854, 199,
                356, 569, 496, 713, 71, 451, 263, 441, 98, 184, 956, 118,
                427, 244, 180, 806, 374, 843, 312, 512, 274, 700, 48, 480,
                253, 870, 933, 983, 445, 641, 157, 612, 927, 682, 402, 82,
                608, 422, 883, 647, 369, 779, 726, 584, 954, 746, 350, 762,
                456, 120, 87, 978, 440, 77, 386, 876, 826, 434, 484, 339,
                689, 938, 782, 250, 384, 352, 942, 541, 102, 303, 639, 886,
                873, 897, 867, 452, 359, 40, 111, 283, 907, 941, 34, 726,
                526, 169, 461, 273, 626, 873, 56, 895, 247, 59, 768, 452,
                690, 693, 625, 989, 824, 715, 296, 634, 575, 570, 530, 687,
                747, 476, 147, 952, 51, 891, 429, 264, 822, 807, 998, 295,
                232, 50, 813, 859, 88, 655, 692, 235, 518, 871, 488, 114,
                747, 599, 553, 695, 477, 462, 253, 589, 699, 160, 322, 596,
                321, 933, 950, 988, 265, 658, 237 >>,
            z |-> << -6981, 17755, -1103, 17755, -1499, 17755, -8474, 3100, 9320,
                1404, 9320, 744, -14165, 271, -7765, 8509, -7765, 8509,
                -10888, 2212, -14660, -3361, -16238, 5385, 2983, 4894,
                14114, 3682, -7628, -6191, -3468, -6191, -3468, -6191, 8348,
                -3483, -5478, 9313, -1500, 18442, -3703, -859, -16742,
                -4057, -9059, -15310, -1873, -15310, -1873, -15310, -6985,
                4821, -4869, 10514, -4744, 1285, -17791, 9430, -1990, -275,
                -16750, 5681, -363, 20398, -363, 20398, -10095, 3564, 6758,
                2103, -8822, -7666, 1945, -13320, 9710, 3180, -12782, 12607,
                7233, 5962, 5510, 12334, -7684, 12334, -2567, -10321, -477,
                -7882, -477, -7882, -1898, 9361, 733, -2528, -6640, -21166,
                12764, 3930, -6506, -7026, -6506, -15564, 4995, 646, -9422,
                -3078, 9900, 8347, -20910, -1392, -20910, -1392, -20910,
                -3784, 4992, -3344, 4992, -12800, 2026, -12800, 2026,
                -12800, -1483, -17378, 7875, 9254, -2692, -2723, -2692,
                -2723, 18758, -2723, 18758, 11134, 9603, 5512, -9935, 5512,
                -9935, 9369, 10613, 17060, 11048, 19412, 10999, -1591,
                -11782, -16132, -1691, -16132, -1691, -16132, 7652, 4690,
                -9984, 3257, -9984, 3257, 13035, 3257, 13035, 2538, 13035,
                -10526, 1106, 10855, -334, -10177, 3191, 5936, 11552, 18330,
                -2238, -26701, -16490, 5468, 16613, -8431, -4792, 9063,
                -16702, 4697, -11971, 8467, -11971, 8467, -11971, -1571 >>,
            zc |-> << -1640, -4844, 832, -4844, 10115, -4844, 5313, -2962, 4821,
                -3613, 4821, 12501, 943, -205, 12711, -19357, 12711, -19357,
                1978, -10760, 4035, -14990, -4094, -3385, 4251, 14226, 4800,
                14783, 1213, -10018, 4094, -10018, 4094, -10018, -4373,
                4109, -11516, -19287, 28089, -319, 1844, -7627, -3426,
                -16494, -1310, -4326, -9891, -4326, -9891, -4326, -5579,
                -5038, 11900, -3834, 8692, -19746, 961, -10629, 882, -6340,
                -1331, -3768, 3247, -7780, 3247, -7780, 4179, -10854, 1777,
                4920, 16563, -1792, -7461, 18739, -1956, 8267, 14472, -5883,
                8932, 15992, 1022, -7009, 12692, -7009, 15663, -1172, 3831,
                -1109, 3831, -1109, -7049, -2825, 847, 12510, -27479, -2099,
                -10816, 1699, -14011, 7956, -14011, -12258, -1661, 6818,
                995, -6231, -13943, 3011, -7017, 10853, -7017, 10853, -7017,
                -1156, -2646, -6005, -2646, 1011, 17603, 1011, 17603, 1011,
                -12697, -2955, -14160, 3126, 4219, 15341, 4219, 15341,
                -4690, 15341, -4690, 10978, 14742, 8317, 10529, 8317, 10529,
                -14121, 18887, 18442, 25068, 3199, 8314, 16618, -795, -4813,
                9408, -4813, 9408, -4813, -5604, 4907, -7632, 2841, -7632,
                2841, 10534, 2841, 10534, -6703, 10534, 7670, -15894, 537,
                10877, -301, -4975, 14699, 21442, 5054, 19196, -16051,
                -2534, -15117, 7421, 4957, -9137, -16720, 9007, -1939, 7247,
                -12495, 7247, -12495, 7247, -15933 >>,
            k |-> << 2, 6, 2, 4, 2, 2, 2, 2, 4, 2, 2, 2, 2, 2, 4, 4, 2, 2, 2, 2,
                2, 2, 2, 2, 2, 2, 2, 2, 2, 6, 4, 4, 2, 2, 2, 2, 2, 2, 2, 2,
                2, 2, 2, 2, 2, 6, 4, 4, 2, 2, 2, 2, 2, 2, 2, 2, 2, 2, 2, 2,
                2, 2, 4, 4, 2, 2, 2, 2, 2, 2, 2, 2, 2, 2, 2, 2, 2, 2, 2, 2,
                2, 4, 2, 2, 2, 2, 4, 4, 2, 2, 2, 2, 2, 2, 2, 2, 2, 2, 4, 2,
                2, 2, 2, 2, 2, 2, 2, 2, 6, 4, 4, 2, 2, 2, 4, 2, 2, 6, 4, 4,
                2, 2, 2, 2, 2, 2, 4, 6, 2, 4, 4, 2, 2, 2, 2, 4, 4, 2, 2, 2,
                2, 2, 2, 2, 2, 2, 2, 6, 4, 4, 2, 2, 2, 2, 4, 6, 2, 4, 6, 2,
                4, 2, 2, 2, 2, 2, 2, 2, 2, 2, 2, 2, 2, 2, 2, 2, 2, 2, 2, 2,
                2, 2, 6, 4, 4, 2, 2, 2 >>])
    @@ (653 :> [u |-> << 492, 980, 148, 899, 815, 503, 451, 552, 187, 904, 679, 407,
                32, 814, 691, 631, 78, 486, 902, 989, 660, 991, 925, 384,
                765, 108, 734, 676, 539, 878, 241, 280, 626, 935, 123, 342,
                339, 70, 690, 786, 626, 100, 625, 409, 712, 610, 350, 346,
                166, 918, 499, 349, 187, 525, 752, 932, 401, 943, 761, 598,
                905, 478, 100, 21, 104, 164, 635, 252, 870, 363, 36, 550,
                824, 486, 149, 978, 253, 392, 611, 510, 314, 424, 608, 739,
                743, 112, 348, 6, 754, 992, 188, 28, 477, 703, 535, 389,
                481, 939, 908, 648, 180, 78, 939, 394, 962, 297, 343, 923,
                48, 493, 869, 388, 53, 560, 518, 439, 290, 580, 217, 543,
                851, 554, 284, 162, 117, 93, 698, 354, 197, 972, 558, 219,
                734, 463, 216, 549, 631, 89, 738, 663, 508, 109, 246, 479,
                13, 707, 330, 381, 226, 940, 141, 86, 488, 591, 313, 822,
                261, 384, 682, 432, 597, 921, 981, 506, 778, 360, 542, 177,
                409, 843, 143, 644, 404, 679, 436, 411, 95, 199, 375, 970,
                180, 351 >>,
            z |-> << 3955, -30459, 170, -30459, 170, -30459, 20572, -13300,
                -8677, 2840, -8677, -4340, 9905, 5736, 9905, -6713, -265,
                9304, -1861, 13557, -1861, 13557, -1861, 13557, -3899, 3116,
                8765, 4448, 10387, -3320, -8053, 8241, 6008, -12734, -3484,
                -12734, -5505, 2020, 10180, 5538, -8020, 2526, -12702,
                16167, 7925, -15968, -13218, -10101, -21923, -3, -21923,
                -10897, 1108, 16389, 6063, -1549, 6063, 8234, 5399, 8234,
                -476, -9429, -13279, 4268, -13279, 4268, -13279, 5642,
                -3355, -3559, 572, 12832, -535, -11920, -6273, 15619, -6273,
                15619, 2327, -19887, -7249, 18905, 14605, 8786, -5055,
                -3131, 18761, -229, 18761, -229, 18761, -229, 18761, 3233,
                -22986, -3962, 7166, -10744, 2545, -10744, -1486, 4486,
                -1486, 4486, 5974, -10017, 5974, 11013, -89, 11013, -2938,
                -5563, 857, 8438, -27488, -17476, 6420, -14027, 2291, 11637,
                1793, -17468, -7966, 2762, -9964, 2762, -9964, -11380,
                -14612, 545, -14612, 7186, -2669, -14852, 2579, 21057,
                -7353, 2302, 8349, 1143, -9931, -2908, -1329, -3197, -10775,
                -9985, -10775, -13188, 25799, -247, 25799, -247, 25799,
                -16822, 9379, -5586, -6929, 15490, -6797, 19657, 7411,
                15289, 52, 15289, -6163, 6441, -12982, -3412, 11320, -1446,
                3841, -11335, 16774, -6561, -20080, -8505, 3144, -5011,
                3144, -10485, -4966, -10485 >>,
            zc |-> << -65, 2493, 13566, 2493, 13566, 2493, -18846, 2239, 16937,
                6381, 16937, -857, 14454, 9438, 14454, 2087, -8221, -315,
                6873, -5871, 6873, -5871, 6873, -5871, 2650, -5193, 11670,
                19678, 1093, 4856, -9506, -14300, 1743, -12513, -8304,
                -12513, -2060, -4553, 6777, 12507, 2547, -8056, 17566,
                -6880, 15202, 11880, -12852, -4640, -21, 8439, -21, -5241,
                -13611, 1652, -1354, 6766, -1354, 2007, 14264, 2007, 9088,
                -502, 7277, -10561, 7277, -10561, 7277, -3760, 9094, -1051,
                -5275, 1990, 13144, -449, -14440, -15007, -14440, -15007,
                24346, 1146, -17719, -13231, 6588, 8660, 3178, -7994, -2068,
                -4808, -2068, -4808, -2068, -4808, -2068, 18499, 7395,
                -24119, -297, 4984, 7023, 4984, 6188, -1024, 6188, -1024,
                -2210, -12937, -2210, -189, -6353, -189, 9768, -1382, -6365,
                27529, 8334, -5065, -16684, 4013, -14785, 1447, 11514, 4452,
                -5078, -5665, 13570, -5665, 13570, -5486, 3066, 4382, 3066,
                -8597, 17066, -1923, -14658, 7961, 2362, -3954, 12225,
                21128, 224, -4484, -16399, -135, -15395, 12237, -15395,
                -5713, -3305, -8708, -3305, -8708, -3305, 8224, -5439, 7539,
                -14335, -9817, 18209, -13746, 1709, 360, 3832, 360, 12295,
                -21240, 1702, -12169, -2986, 1391, -9484, 17204, -8912,
                18544, -14354, -1867, -830, -12123, -830, -4749, -10726,
                -4749 >>,
            k |-> << 2, 6, 4, 4, 2, 2, 2, 2, 4, 2, 2, 2, 4, 2, 2, 2, 2, 2, 6, 6,
                4, 4, 2, 2, 2, 2, 2, 2, 2, 2, 2, 2, 2, 4, 2, 2, 2, 2, 2, 2,
                2, 2, 2, 2, 2, 2, 2, 2, 4, 2, 2, 2, 2, 2, 4, 2, 2, 4, 2, 2,
                2, 2, 6, 4, 4, 2, 2, 2, 2, 2, 2, 2, 2, 2, 4, 4, 2, 2, 2, 2,
                2, 2, 2, 2, 2, 2, 8, 6, 6, 4, 4, 2, 2, 2, 2, 2, 2, 4, 2, 2,
                4, 4, 2, 2, 4, 2, 2, 4, 2, 2, 2, 2, 2, 2, 2, 2, 2, 2, 2, 2,
                2, 2, 2, 4, 4, 2, 2, 2, 4, 2, 2, 2, 2, 2, 2, 2, 2, 2, 2, 2,
                2, 2, 2, 2, 4, 2, 2, 2, 6, 4, 4, 2, 2, 2, 2, 2, 2, 2, 2, 2,
                2, 4, 2, 2, 2, 2, 2, 2, 2, 2, 2, 2, 2, 2, 2, 2, 4, 2, 2, 4,
                2, 2 >>])
    @@ (664 :> [u |-> << 318, 313, 217, 956, 208, 341, 967, 747, 450, 619, 182, 335,
                525, 979, 414, 224, 68, 400, 306, 436, 722, 259, 544, 338,
                599, 910, 68, 429, 613, 264, 34, 177, 926, 24, 336, 269,
                664, 671, 550, 85, 459, 97, 675, 277, 148, 956, 987, 318,
                669, 879, 690, 435, 550, 310, 695, 42, 221, 611, 801, 555,
                824, 322, 217, 135, 179, 977, 975, 245, 716, 604, 275, 692,
                856, 943, 462, 482, 290, 840, 213, 248, 698, 834, 491, 322,
                700, 379, 191, 480, 340, 341, 523, 88, 876, 254, 391, 13,
                334, 469, 994, 94, 533, 320, 945, 449, 179, 802, 472, 933,
                536, 911, 651, 576, 881, 748, 740, 57, 183, 125, 549, 602,
                988, 350, 861, 653, 980, 555, 634, 811, 192, 991, 461, 979,
                9, 685, 967, 455, 251, 118, 385, 763, 637, 93, 312, 176,
                146, 564, 531, 983, 546, 58, 704, 905, 628, 613, 586, 674,
                780, 847, 252, 443, 967, 232, 753, 895, 289, 731, 840, 52,
                949, 774, 626, 229, 904, 585, 426, 952, 138, 906, 594, 178 >>,
            z |-> << -11588, -10421, -6118, 2196, -6118, 2196, 21447, -3269,
                21447, -11627, -5312, 3199, 4051, -576, -14151, -16229,
                -1571, -16229, -5934, 16893, -9560, 3101, -20158, 10373,
                7970, 19555, -1170, 19555, -14527, 8774, -12317, 8774,
                -12317, 8774, -12317, 8774, 12445, 5689, -8429, -833, -9141,
                2872, -11824, -7265, 7860, 11413, 7860, 11413, 7860, 3638,
                -6106, 16611, -18720, 11208, -1246, 12466, 5305, 12466,
                2536, 12759, -5279, -10774, -4503, -2287, 7463, 8224, 7463,
                8224, 7463, -15206, 9456, 8080, -13593, -573, -13593,
                -18571, 8087, -4417, -6877, 8251, 8611, -331, -20300, 11817,
                -8974, -11953, -868, -21167, -12612, 3156, -8776, -6350,
                -3574, -6350, -1135, 1882, -3828, 1882, -19734, 740, -19734,
                3736, -741, -13003, 4881, -1270, 7482, 628, 8694, 2496,
                9429, 9791, 3326, 8461, -2129, 1395, -2129, 1395, 21876,
                491, 3841, 9167, 3841, 20574, 410, 20574, 11455, -5134,
                3946, -189, 3946, -16286, -468, -16286, -468, -16286, -5136,
                -2744, 13662, 6689, -7409, -2787, -9316, -3042, 2077, 12286,
                3534, 326, -6871, 1391, 5533, 2435, 13697, 13505, 17418,
                10943, 5235, -4621, -3677, 4859, 4209, 7615, 4209, -3126,
                10146, 7280, -13017, 5939, -13017, 5939, -13017, 2777, 1815,
                -15899, 5832, 1922, -12135, 1922, -12135, 3703 >>,
            zc |-> << -11267, -6882, -11263, -744, -11263, -744, -8900, 16226,
                -8900, 4386, -10264, -20726, 215, 3227, -4386, -8370, -6805,
                -8370, -18022, -4834, 8836, -16628, 5604, -16733, 1940,
                -12107, -7205, -12107, 6998, -12272, -8755, -12272, -8755,
                -12272, -8755, -12272, 11916, 19448, 1023, -8510, -921,
                -6583, 9357, -4592, 3520, -12213, 3520, -12213, 3520, 7256,
                18115, -21223, 4959, -10851, 532, 4605, -13268, 4605, 13750,
                2190, 9654, -6752, -3499, -2595, 15414, -9685, 15414, -9685,
                15414, 7105, -11014, 4360, -28459, 6779, -28459, -1593,
                -4970, 5247, -7817, -10462, 5112, 12666, -998, -10481,
                14949, -4660, -13833, -2574, -12702, -21121, 504, -14420,
                5465, -14420, -253, -117, -20526, -117, 3650, -9033, 3650,
                -1507, 6582, -2035, -5169, 14061, -471, 7428, 774, 6800,
                18538, 1970, 5122, 8713, -1801, -10501, -1801, -10501,
                10573, 103, 9045, -3780, 9045, 8475, 3570, 8475, 4935, 5195,
                -316, 2423, -316, -2901, 4950, -2901, 4950, -2901, -3344,
                -9134, -5952, 12798, 2507, -6032, -5408, -2785, -11304,
                24939, 234, 3386, 725, -2998, 2796, 7666, 15470, 17845,
                8622, 6801, 4225, 6481, -16033, -591, 2704, -8009, 2704,
                5877, -9214, 4943, 6077, 12902, 6077, 12902, 6077, -1858,
                8549, 18483, -951, 8281, 3560, 8281, 3560, 16086 >>,
            k |-> << 2, 2, 4, 4, 2, 2, 4, 2, 2, 2, 2, 2, 2, 2, 2, 4, 2, 2, 2, 2,
                2, 2, 2, 2, 2, 4, 2, 2, 2, 8, 6, 6, 4, 4, 2, 2, 2, 2, 2, 2,
                2, 2, 2, 2, 6, 4, 4, 2, 2, 2, 2, 2, 2, 2, 2, 4, 2, 2, 2, 2,
                2, 2, 2, 2, 6, 4, 4, 2, 2, 2, 2, 2, 4, 2, 2, 2, 2, 2, 2, 2,
                2, 2, 2, 2, 2, 2, 2, 2, 2, 2, 2, 4, 2, 2, 2, 4, 2, 2, 4, 2,
                2, 2, 2, 2, 2, 2, 2, 2, 2, 2, 2, 2, 2, 2, 4, 4, 2, 2, 2, 2,
                4, 2, 2, 4, 2, 2, 2, 2, 4, 2, 2, 6, 4, 4, 2, 2, 2, 2, 2, 2,
                2, 2, 2, 2, 2, 2, 2, 2, 2, 2, 2, 2, 2, 2, 2, 2, 2, 2, 2, 2,
                4, 2, 2, 2, 2, 2, 6, 4, 4, 2, 2, 2, 2, 2, 2, 4, 4, 2, 2, 4 >>])
    @@ (670 :> [u |-> << 56, 22, 156, 199, 670, 580, 479, 138, 227, 453, 905, 924,
                489, 182, 138, 691, 851, 686, 893, 520, 650, 128, 751, 38,
                562, 722, 785, 914, 225, 313, 135, 846, 406, 584, 601, 208,
                223, 407, 189, 108, 709, 290, 63, 789, 853, 596, 934, 443,
                42, 659, 261, 746, 706, 894, 945, 152, 30, 733, 899, 977,
                254, 617, 124, 728, 771, 905, 550, 825, 180, 233, 432, 193,
                504, 633, 271, 450, 3, 608, 497, 483, 927, 636, 812, 596,
                156, 284 >>,
            z |-> << -3973, 5984, -3973, 5984, 8464, -6631, -11353, -3809, -2603,
                8963, -13470, -196, -13470, -2947, 4191, 8285, 4488, 6753,
                502, 21627, -8714, 3700, 16901, 718, 16901, 8959, -7196,
                -838, -7196, -7989, 15762, -2999, 15762, 17747, -13103,
                -6418, -4671, -12617, -586, 3268, -10234, -3254, 2923, 4646,
                2923, 6651, -939, -5629, 1155, -12384, 8810, 8542, 6033,
                4796, 6726, 4796, 6726, 4796, 6726, -9372, 6726, -9372,
                3749, 8961, 2592, 1106, 12773, -4243, -5489, -3786, -13348,
                227, 22964, -13773, -3696, -829, -36449, -569, -36449, 7883,
                1995, 11355, 3851, -11168, -4851, -4424 >>,
            zc |-> << -4533, -10561, -4533, -10561, 17832, 25917, -651, -5057,
                -15190, -1031, -436, 8100, -436, -2586, -7901, 4527, 8472,
                3195, 9769, 2898, 3536, -5474, 4735, -5305, 4735, 7004,
                -10608, 1266, -10608, -4085, -17424, 11134, -17424, 14763,
                4552, -6774, -13914, -3773, -466, -6102, 10227, -1563,
                10760, 3802, 10760, 1470, 7188, -698, -3314, 8268, -8544,
                10177, 3163, 2805, -14083, 2805, -14083, 2805, -14083, 2929,
                -14083, 2929, -6157, 7529, 1738, 8931, 1969, 4320, -6592,
                -15016, -2925, -14000, 853, 8038, -17032, -83, -5497, 24714,
                -5497, -305, 6262, 4955, 12461, 3134, -7732, -2286 >>,
            k |-> << 4, 4, 2, 2, 2, 2, 2, 2, 2, 2, 4, 2, 2, 2, 2, 2, 2, 2, 2, 2,
                2, 2, 4, 2, 2, 2, 4, 2, 2, 2, 4, 2, 2, 2, 2, 2, 2, 2, 2, 2,
                2, 2, 4, 2, 2, 2, 2, 2, 2, 2, 2, 2, 2, 6, 8, 4, 6, 2, 4, 4,
                2, 2, 2, 2, 2, 2, 2, 2, 2, 2, 2, 2, 2, 2, 2, 2, 4, 2, 2, 2,
                2, 2, 2, 2, 2, 2 >>])
    @@ (673 :> [u |-> << 188, 63, 61, 8, 788, 507, 217, 607, 175, 259, 446, 250, 864,
                766, 253, 395, 625, 993, 761, 0, 133, 810, 590, 402, 753,
                372, 931, 706, 634, 539, 280, 690, 197, 973, 537, 687, 247,
                204, 678, 821, 841, 468, 532, 467, 661, 846, 721, 261, 295,
                8, 530, 467, 412, 718, 492, 196, 443, 868, 160, 666, 194,
                176, 835, 269, 288, 167, 292, 945, 619, 899, 984, 225, 644,
                711, 638, 10, 603, 842, 772, 631, 908, 435, 697, 851, 352,
                254, 463, 804, 0, 350, 442, 328, 574, 323, 749, 370, 520,
                192, 416, 69, 364, 256, 325, 411, 28, 573, 675, 216, 330,
                97, 840, 263, 35, 953, 428, 578, 409, 425, 417, 833, 595,
                548, 170, 597, 665, 868, 640, 199, 878, 242, 200, 347, 249,
                345, 582, 95, 955, 767, 259, 620, 501, 885, 798, 752, 110,
                94, 857, 373, 326, 393, 878, 335, 206, 577, 378, 355, 340,
                837, 534, 79, 836, 330, 187, 480, 851, 930, 470, 84 >>,
            z |-> << 366, -15101, 366, -15101, 366, -15101, 5052, -11715, -5514,
                -3648, -16034, 5790, 3747, -7662, -6140, 16283, 2582, 3706,
                2582, 3706, 2582, 3706, -16834, 14605, -6787, 6227, 1814,
                9152, 6320, -17702, 9668, -9785, 19233, 355, 19233, -10937,
                -7632, 6295, 9692, 3706, -1128, 22333, -21908, 20646, 9403,
                4771, -9625, -8886, -22598, 152, -22598, -24338, 16128,
                -633, -14101, -2549, 10717, -10601, 4654, -10601, -4968,
                3812, -5152, -9241, -8235, -5212, 2387, 1470, 8164, 6455,
                13483, 6455, 13483, 9053, 11057, 4531, 11057, 4531, 6179,
                7449, -1356, 17846, 8093, -4021, -12799, -2434, 13893,
                -7649, -19147, -7649, -19147, 7900, -18059, 11455, -6982,
                3609, -13877, -3498, -7095, -1914, -13363, -8358, -8748,
                -4030, 669, 18146, -10841, -6616, -6780, -915, -4943, -915,
                18322, -915, 18322, -18099, -15318, -18207, 11872, 3321,
                11160, -12601, 3476, 16837, 8449, 3483, -11610, 2899, -3339,
                -7363, -5726, -12480, -7654, 9675, -8587, -7683, 7079,
                -7683, 7079, 337, 10215, 1985, 6421, -4564, -3520, -14850,
                -3520, -14850, -9939, 9442, -3502, -10961, 3608, -18798,
                -15126, -13591, 9749, 1267, -8198, -10281, -4784, -10281,
                -847, 11831, -8517, -523, -8517, 3454 >>,
            zc |-> << 14832, 380, 14832, 380, 14832, 380, -13253, 3893, -7432,
                -16426, -3431, -3962, 5121, 8285, -14551, -13537, -3053,
                12681, -3053, 12681, -3053, 12681, 15704, -5606, 13445,
                -1844, 3783, 14107, 21675, 3159, -11104, 6176, 3844, 4486,
                3844, 8120, -6520, -10412, 5389, 3491, 12248, -21488, 21705,
                -4214, 4385, 7475, 8931, -10370, 21444, -2454, 21444, -8904,
                -6480, 18204, -352, -13627, -1655, 5770, -9510, 5770, -4679,
                -3687, 7476, -10105, -5224, -8369, -1110, 5483, 2441,
                -12218, 9229, -12218, 9229, 13791, 3338, 5707, 3338, 5707,
                12762, 2405, 8624, -5816, 4532, 9596, -7682, -16557, -1648,
                -19952, -6391, -19952, -6391, -18213, 7601, -8101, 13479,
                -22872, 920, -12962, -1367, -6075, -7465, -11650, -17303,
                -754, -4295, 7599, 6709, -11068, -2851, 5770, 7115, 5770,
                -16852, 5770, -16852, 15647, -18596, -16428, -2934, 11603,
                22184, 1837, -11723, 9958, 3795, 9121, 5433, -2300, 4907,
                -6335, -11232, -7615, -12409, -18063, 1755, 8551, -14075,
                8551, -14075, 23835, 45, 2566, 7567, 2964, 9928, -10843,
                9928, -10843, -16140, -2665, 8031, -6157, -13652, 12024,
                -12670, -12308, -4614, 12371, 674, -5570, 9512, -5570,
                -13664, -652, -600, 7682, -600, 13634 >>,
            k |-> << 6, 6, 4, 4, 2, 2, 2, 2, 2, 2, 2, 2, 2, 2, 2, 2, 6, 6, 4, 4,
                2, 2, 2, 2, 2, 2, 2, 2, 2, 2, 2, 2, 4, 2, 2, 2, 2, 2, 2, 2,
                2, 2, 2, 2, 2, 2, 2, 2, 4, 2, 2, 2, 2, 2, 2, 2, 2, 4, 2, 2,
                2, 2, 2, 2, 2, 2, 2, 2, 2, 4, 4, 2, 2, 2, 4, 4, 2, 2, 2, 2,
                2, 2, 2, 2, 2, 2, 2, 4, 4, 2, 2, 2, 2, 2, 2, 2, 2, 2, 2, 2,
                2, 2, 2, 2, 2, 2, 2, 2, 2, 6, 2, 4, 4, 2, 2, 2, 2, 2, 2, 2,
                2, 2, 2, 2, 2, 2, 2, 2, 2, 2, 2, 2, 2, 2, 2, 4, 4, 2, 2, 2,
                2, 2, 2, 2, 4, 4, 2, 2, 2, 2, 2, 2, 2, 2, 2, 2, 2, 2, 2, 4,
                2, 2, 2, 2, 4, 2, 2, 6 >>])
    @@ (676 :> [u |-> << 996, 616, 930, 290, 148, 730, 337, 212, 845, 734, 646, 415,
                929, 561, 604, 599, 992, 902, 362, 508, 742, 684, 163, 889,
                637, 726, 398, 129, 210, 275, 851, 447, 432, 513, 230, 207,
                264, 201, 89, 686, 624, 585, 262, 306, 216, 295, 419, 780,
                905, 527, 246, 2, 944, 395, 438, 699, 443, 594, 133, 823,
                216, 550, 207, 668, 381, 530, 717, 199, 375, 288, 605, 492,
                873, 355, 115, 492, 62, 624 >>,
            z |-> << -1812, 6514, -1812, -7679, 4571, -8735, -11211, 5020, 4767,
                8154, -10358, 7172, 1074, 20483, 15437, -2605, 1475, -2605,
                1475, 16987, 8514, -9020, 13641, 2895, 13641, -6839, -9893,
                -3040, -6842, 7174, -1726, -20942, 5357, -15686, -7040,
                -6725, -8200, 9972, 2667, 9972, 12358, -15583, -8857,
                -10129, -6994, -6610, 14134, 1961, 604, -16314, -1380,
                -12094, -1380, -12094, 17842, -5080, 21163, -10228, 1985,
                -5118, 2624, -14236, 6256, -10877, 5897, 17971, -8856,
                -5025, -14522, 7689, -1840, 10797, -3404, -8318, -188,
                -7332, 1693, -12699 >>,
            zc |-> << 3717, 1765, 3717, -4586, -6978, 12368, -6342, -4177, 7016,
                13035, 18053, -1407, 7465, 12152, 16082, 7600, -22627, 7600,
                -22627, 630, 11208, 4938, 8275, 8226, 8275, 15297, -2698,
                -3896, -8828, -4572, 11538, -16370, -27675, 758, -6497,
                -8332, -6471, 14901, -5882, 14901, 18075, 5593, -10857,
                -6908, -9693, -16882, -4045, 1353, 9075, 1738, 5857, -20469,
                5857, -20469, -5534, 18064, -12631, 2624, -2248, 5850,
                -14641, 2470, -10885, 15394, -22971, 2519, 6406, -12108,
                -8552, -15507, 24894, -224, 8784, -3134, -10270, -118,
                -5947, 5586 >>,
            k |-> << 4, 2, 2, 2, 2, 2, 2, 2, 2, 2, 2, 2, 2, 2, 2, 4, 4, 2, 2, 2,
                2, 2, 4, 2, 2, 2, 2, 2, 2, 2, 2, 2, 2, 2, 2, 2, 2, 4, 2, 2,
                2, 2, 2, 2, 2, 2, 2, 2, 2, 2, 4, 4, 2, 2, 2, 2, 2, 2, 2, 2,
                2, 2, 2, 2, 2, 2, 2, 2, 2, 2, 2, 2, 2, 2, 2, 2, 2, 2 >>])
    @@ (699 :> [u |-> << 82, 737, 712, 591, 943, 436, 39, 742, 302, 109, 47, 574,
                940, 699, 940, 468, 268, 711, 617, 307, 839, 440, 844, 222,
                899, 758, 165, 146, 715, 59, 656, 237, 997, 426, 139, 601,
                490, 170, 534, 889, 45, 335, 885, 436, 742, 632, 432, 190,
                550, 538, 101, 338, 668, 132, 195, 447, 104, 818, 237, 923,
                345, 635, 958, 583, 899, 314, 658, 178, 627, 550, 647, 922,
                377, 59, 623, 109 >>,
            z |-> << 1986, 8955, 6956, 6191, -945, -5382, -6524, -8667, -6524,
                6633, 961, 6633, 1518, 3297, -500, -17287, 9213, 8254,
                -15239, 8647, -2092, 11791, -4385, 2727, 2420, -6488, -2423,
                4525, -2451, 1729, -12069, -10866, 2910, -10866, 2910,
                -2319, -12923, 1325, 9880, 7713, -1260, 7713, -1606, 16091,
                7395, -10017, -13185, 2199, 17382, -9372, -2908, 12629,
                -8395, -2772, -2348, -9413, 990, -5566, 990, -2213, 12421,
                4110, 958, 8818, -2997, 11010, -10348, 4471, 8413, 20435,
                6281, -1990, -5734, 1605, -8525, -4471 >>,
            zc |-> << -3492, 10013, 16129, 1279, 6584, -744, -3299, 10631, -3299,
                1129, -5804, 1129, 3342, 1496, 7020, -2341, -10074, 14900,
                9273, -4909, 12016, -2023, 5442, -1896, 3735, 5026, -2290,
                -7409, 1200, -4877, 7187, -2224, -10373, -2224, -10373,
                25152, -366, -12783, 865, -3288, -3479, -3288, 9789, -4204,
                13519, 19606, -2882, -13468, 22872, 903, -7199, -12073,
                3853, -3341, -13676, -1244, -615, 6741, -615, 6061, -14204,
                1213, 5254, 1842, 6457, -12870, 5109, -11302, 21156, 7020,
                2187, 6852, -1597, -5708, 2709, 5997 >>,
            k |-> << 2, 2, 2, 2, 2, 2, 4, 2, 2, 4, 2, 2, 2, 2, 2, 2, 2, 2, 2, 2,
                2, 2, 2, 2, 2, 2, 2, 2, 2, 2, 2, 4, 4, 2, 2, 2, 2, 2, 2, 4,
                2, 2, 2, 2, 2, 2, 2, 2, 2, 2, 2, 2, 2, 2, 2, 2, 4, 2, 2, 2,
                2, 2, 2, 2, 2, 2, 2, 2, 2, 2, 2, 2, 2, 2, 2, 4 >>])
    @@ (703 :> [u |-> << 936, 24, 75, 83, 454, 30, 964, 600, 959, 817, 817, 591, 197,
                901, 84, 540, 946, 859, 589, 854, 508, 882, 909, 178, 151,
                169, 440, 820, 931, 240, 529, 988, 453, 811, 965, 643, 772,
                164, 221, 604, 754, 341, 73, 19, 790, 267, 835, 757, 444,
                109, 54, 933, 150, 32, 868, 107, 304, 221, 598, 979, 605,
                290, 366, 482, 182, 380, 480, 379, 772, 528, 895, 802, 743,
                461, 767, 71, 595, 235, 573, 145, 919, 731, 290, 272, 552,
                993, 173, 4, 98, 912, 102, 90, 22, 521, 619, 551, 759, 941,
                803, 628, 904, 424, 979, 200, 575, 589, 942, 862, 267, 198,
                323, 468, 149, 240, 512, 778, 116, 554, 472, 605, 113, 628,
                481, 339, 25, 253, 212, 328, 502, 253, 583, 93, 917, 51,
                106, 63, 923, 916, 365, 33, 699, 314, 197, 859, 827, 377,
                598, 380, 211, 725, 979, 537, 581, 190, 4, 606, 55, 894, 9,
                1, 903, 520, 748, 816, 702, 791, 287, 461, 858, 959, 94,
                187, 474, 455, 113, 741, 721, 731, 188, 150, 716, 704, 488,
                171, 962, 685, 970, 927, 683, 779, 112, 816 >>,
            z |-> << -4807, -906, -4807, -906, -4807, 4836, 948, 4836, 3583,
                4642, 3583, -12945, 829, 6547, 829, 6547, 10834, 2631,
                10834, 289, 10322, -3394, -2758, -3394, -2758, -2252, 12866,
                1837, 2935, 1837, 2935, -260, 13462, 12302, 941, 12302,
                -5924, -4721, 5047, 14305, -7559, -5747, -6781, 7406, -6781,
                7406, 4974, -3389, -9663, -3236, -10152, -3236, -10152,
                -3236, -10152, -3236, -10152, 4837, 2920, 595, -15553,
                -8992, -2964, -13442, -4394, -3922, -23438, 13179, 1601,
                9591, 749, 6311, -2656, 15501, -14292, 1561, -14292, 4157,
                -11141, -9196, 1995, -9196, -10176, 3953, 1663, 23431, 192,
                23431, 192, 23431, 192, 23431, 192, 23431, 9171, 15675,
                5037, 7735, 5037, 7735, -1628, 3348, 18394, 3402, 18394,
                6269, -8267, -4160, -8267, -6036, -3541, -11798, -4396, 762,
                15283, -3781, 1416, -13248, 23850, -9056, 2844, -3272,
                -21129, -8001, -6483, -8001, -6483, 309, -16810, 5192,
                -8430, -2229, -3334, -2229, -3334, -2229, -3334, -2229,
                -3334, -9974, -10591, -9974, 3799, 2259, -4205, 13483,
                -16680, -12689, 6875, 23780, 306, 23780, -12920, -5828, 464,
                -5828, 464, 16648, 464, 16648, 464, 16648, 7343, 5757, 9619,
                -6742, -3267, 11349, -26241, -1106, -26241, -1106, -26241,
                -9972, 3242, 8777, 9627, -8085, -3834, 4654, 9897, -1054,
                -12949, 2102, 384, 2102, 10592, 2102, 10592, -3438, -3809,
                -1321 >>,
            zc |-> << -463, -8351, -463, -8351, -463, 1059, 4380, 1059, 12371,
                4647, 12371, 3927, -8477, 595, -8477, 595, 2723, 10614,
                2723, 11698, 236, -3123, -2915, -3123, -2915, -12435, -2402,
                -16007, 179, -16007, 179, 2744, -2004, 6496, 3046, 6496,
                4813, -5678, -13482, 5870, 12150, -2132, 8492, -5123, 8492,
                -5123, 6487, 15649, -1381, -6486, -7146, -6486, -7146,
                -6486, -7146, -6486, -7146, -13701, 599, 2704, 7834, -14129,
                -22740, -735, -11660, -23480, -3893, -5824, 15446, 683, 981,
                7852, 16627, -2245, 5162, -7022, 5162, -14941, 2310, 10153,
                3609, 10153, -9401, -17005, 178, 4264, -4219, 4264, -4219,
                4264, -4219, 4264, -4219, 4264, 21348, 3096, 11903, 2456,
                11903, 2456, 8690, -528, 15563, -13461, 15563, 1267, -6358,
                6499, -6358, -10313, -19930, -1056, -5946, -16176, 671,
                2747, -10034, 25840, -6244, 2478, -8582, 23013, -2401,
                -6856, -10877, -6856, -10877, -20688, 174, -15292, 1735,
                6930, -959, 6930, -959, 6930, -959, 6930, -959, -6114,
                11410, -6114, -3199, 2483, 11215, -16748, 13818, -5241,
                -8784, 11009, 3888, 11009, 3404, 1403, 9219, 1403, 9219,
                1363, 9219, 1363, 9219, 1363, 5754, 9000, 6690, 9239,
                -18031, -1217, -14819, -13614, -14819, -13614, -14819,
                -1162, -5177, 9566, 9223, 6014, -3413, -7526, 10489, 18890,
                -449, 4899, 960, 4899, 6948, 4899, 6948, 2483, -247, 13388 >>,
            k |-> << 6, 4, 4, 2, 2, 4, 2, 2, 4, 2, 2, 2, 4, 4, 2, 2, 4, 2, 2, 2,
                2, 4, 4, 2, 2, 2, 2, 4, 4, 2, 2, 2, 2, 4, 2, 2, 2, 2, 2, 2,
                2, 2, 4, 4, 2, 2, 2, 2, 2, 8, 8, 6, 6, 4, 4, 2, 2, 2, 2, 2,
                2, 2, 2, 2, 2, 2, 2, 2, 2, 2, 2, 2, 2, 2, 4, 2, 2, 2, 2, 4,
                2, 2, 2, 2, 2, 10, 8, 8, 6, 6, 4, 4, 2, 2, 2, 2, 4, 4, 2, 2,
                2, 2, 4, 2, 2, 2, 4, 2, 2, 2, 2, 2, 2, 2, 2, 2, 2, 2, 2, 2,
                2, 2, 2, 4, 4, 2, 2, 2, 2, 2, 2, 8, 8, 6, 6, 4, 4, 2, 2, 4,
                2, 2, 2, 2, 2, 2, 2, 2, 2, 4, 2, 2, 2, 4, 8, 2, 6, 6, 4, 4,
                2, 2, 2, 2, 2, 2, 2, 2, 6, 4, 4, 2, 2, 2, 2, 2, 2, 2, 2, 2,
                2, 2, 2, 6, 2, 4, 4, 2, 2, 2, 4, 2 >>])
    @@ (714 :> [u |-> << 517, 338, 130, 464, 148, 667, 439, 708, 86, 16, 957, 732,
                296, 369, 542, 150, 304, 305, 936, 284, 228, 171, 101, 418,
                306, 614, 148, 387, 552, 600, 373, 347, 388, 339, 933, 575,
                230, 541, 774, 804, 713, 396, 916, 33, 142, 519, 228, 106,
                294, 560, 80, 823, 506, 275, 89, 523, 645, 856, 905, 636,
                123, 535, 858, 629, 721, 343, 636, 736, 919, 531, 279, 0,
                231, 769, 512, 596, 973, 393, 409, 32 >>,
            z |-> << -21085, -8500, -1045, -11742, 4317, -6919, 17541, -4975,
                -9199, -9149, -9199, -9149, -9199, 7027, -11760, -4604,
                -10861, 3878, -1437, -9461, -6147, -17191, -1819, -17191,
                9153, -10431, -3363, 9879, 21646, -16608, -14844, -11643,
                -15943, 5264, 1229, -14692, 2367, 15165, 6608, 6238, -7524,
                7585, 615, -15581, 615, -15581, -3492, -3184, 5231, -8023,
                -17873, 266, -17873, -4528, 504, 21815, 9473, -8877, 2527,
                -8877, 991, 11376, 3535, 14095, -9035, 12366, 13445, 3328,
                612, -17801, 7421, 714, 7421, 714, 25390, 3626, -759,
                -14596, -4322, -895 >>,
            zc |-> << 2226, -3719, -10871, -1188, -9027, 19073, -5133, 2507,
                -14335, 10431, -14335, 10431, -14335, -21611, 1431, -8213,
                -10936, -1728, 2908, -7508, -5092, -7246, -8907, -7246,
                -15370, 3409, -10479, -21431, 11170, 13286, -12282, -15954,
                -11022, -1954, 7061, 4119, -15417, 2280, 5956, 8898, 15534,
                -1885, -11529, 1098, -11529, 1098, -2404, -6100, -17646,
                1164, 519, 13203, 519, -2480, -8845, 3500, 3875, 3217, 7508,
                3217, -10540, 1122, 9774, 8274, 12800, -14091, 7779, 1876,
                8266, 2507, -7394, 15708, -7394, 15708, 3222, 739, 3371,
                -17234, -834, -4037 >>,
            k |-> << 2, 2, 2, 2, 2, 2, 2, 2, 6, 4, 4, 2, 2, 2, 2, 2, 2, 2, 2, 2,
                2, 4, 2, 2, 2, 2, 2, 2, 2, 2, 2, 2, 2, 2, 2, 2, 2, 2, 2, 2,
                2, 2, 4, 4, 2, 2, 2, 2, 2, 2, 4, 2, 2, 2, 2, 2, 2, 4, 2, 2,
                2, 2, 2, 2, 2, 2, 2, 2, 2, 2, 4, 4, 2, 2, 2, 2, 2, 2, 2, 2 >>])
    @@ (723 :> [u |-> << 222, 491, 657, 955, 775, 163, 760, 160, 484, 929, 915, 69,
                929, 372, 779, 728, 242, 762, 488, 914, 130, 702, 747, 269,
                674, 333, 551, 104, 102, 642, 183, 912, 312, 877, 58, 380,
                75, 763, 447, 649, 340, 898, 791, 517, 707, 648, 151, 644,
                268, 460, 767, 728, 991, 804, 158, 733, 460, 697, 331, 869,
                798, 347, 484, 189, 749, 272, 458, 370, 576, 383, 395, 854,
                570, 718, 975, 730, 582, 378 >>,
            z |-> << -490, 21437, 3579, 4929, -5809, 4929, -6228, -561, 7800,
                12688, -1891, 12688, -1891, 12688, 7218, -9157, 7924, -701,
                8632, 10338, 3970, 10338, -8526, 8915, -11775, 6088, -9454,
                -10998, 2767, -10998, 7386, -2597, 7386, -6800, -1558,
                -6800, 20222, -3081, 20222, -13278, 7246, 1307, 895, 18660,
                9549, -9695, 4051, -13219, -2950, 15520, 7714, -4437, 4898,
                -4437, 4898, -2913, 18667, -10480, 8297, 2825, -5746, -2130,
                -13766, 5966, -8427, -3143, -21741, 11146, -18886, -14426,
                10553, 2217, 16785, 5655, -18363, 5655, -18363, 5200 >>,
            zc |-> << -15351, -1202, 1238, -6347, 4756, -6347, 4780, -12392, -280,
                -5792, 6360, -5792, 6360, -5792, 8849, 8120, -7766, 16027,
                -239, 8473, -7239, 8473, 9132, -11790, 12374, -19624, 1234,
                4958, -7711, 4958, -3662, 5716, -3662, -1914, -5752, -1914,
                -7133, 15435, -7133, 12455, -2893, 1789, 14645, 1604, 13363,
                4117, -9808, 8212, -17114, -2321, 9010, 3949, -7170, 3949,
                -7170, 17035, -3766, 12329, -3777, 3494, 11245, -21632,
                -666, -7416, 9266, -17292, -6930, -18866, 12457, -16045,
                -3108, 11182, 5388, 15918, 12365, 15918, 12365, -1411 >>,
            k |-> << 2, 2, 2, 4, 2, 2, 2, 2, 2, 6, 4, 4, 2, 2, 2, 2, 2, 2, 2, 4,
                2, 2, 2, 2, 2, 2, 2, 4, 2, 2, 4, 2, 2, 4, 2, 2, 4, 2, 2, 2,
                2, 2, 2, 2, 2, 2, 2, 2, 2, 2, 2, 4, 4, 2, 2, 2, 2, 2, 2, 2,
                2, 2, 2, 2, 2, 2, 2, 2, 2, 2, 2, 2, 2, 4, 4, 2, 2, 2 >>])
    @@ (725 :> [u |-> << 495, 877, 640, 545, 318, 506, 888, 777, 683, 910, 705, 600,
                796, 864, 348, 862, 817, 931, 592, 67, 976, 90, 259, 312,
                768, 268, 270, 402, 509, 640, 244, 651, 583, 952, 212, 638,
                403, 926, 255, 243, 833, 758, 702, 426, 980, 645, 801, 380,
                280, 624, 201, 432, 401, 894, 610, 912, 320, 885, 733, 582,
                821, 817, 871, 179, 166, 905, 767, 372, 17, 666, 209, 12,
                956, 75, 403, 568, 976, 609 >>,
            z |-> << 10622, 3250, 6827, -19219, 701, 10024, 2473, 7030, 5951,
                2621, 7789, 12978, 3870, -3720, 9086, 2544, -6830, 1476,
                -6830, -2305, -8648, -2305, -8648, 10662, -7646, -9212,
                -6557, 2341, 22456, -12870, 7372, 9940, 5690, -11884, 5832,
                -11884, 7126, -1277, -8506, 6571, 5038, 8002, -6292, 3371,
                -4840, 11387, -4840, -14613, 8134, -12199, -3087, -19763,
                8837, 2407, 7656, -2582, 7289, 3329, 5605, 12387, 4449,
                2291, -1792, -4014, -6226, 1876, -6226, -804, 13813, -10977,
                13813, -1646, 13813, -1646, 13813, 3860, 670, 10929 >>,
            zc |-> << -128, 8743, 21026, 4811, -20099, 163, 3461, 10642, 2661,
                5247, 15904, 4400, 3141, 8971, -3797, 2898, 1461, 6883,
                1461, -3924, -11093, -3924, -11093, -7436, 8879, -9302,
                -15344, -25394, 1441, 7097, -12428, 18063, 1048, 17139,
                -12087, 17139, -1603, 2233, -8091, -5053, 6510, 10227,
                17255, -518, 12213, 5497, 12213, -7955, -14393, 5081,
                -13681, -13547, -2200, 8609, 2044, 5948, -3386, 5513, 15822,
                3178, 4503, 1962, 2073, -3864, 13080, 2847, 13080, -212,
                -19639, 6300, -19639, -7228, -19639, -7228, -19639, 551,
                2905, 3504 >>,
            k |-> << 2, 2, 2, 2, 2, 2, 2, 2, 2, 2, 2, 2, 2, 2, 2, 2, 4, 2, 2, 4,
                4, 2, 2, 2, 2, 2, 2, 2, 2, 2, 2, 2, 2, 4, 2, 2, 2, 2, 2, 2,
                2, 2, 2, 2, 4, 2, 2, 2, 2, 2, 2, 2, 2, 2, 2, 2, 2, 2, 2, 2,
                2, 2, 2, 2, 4, 2, 2, 2, 8, 2, 6, 4, 4, 2, 2, 2, 2, 2 >>])
    @@ (726 :> [u |-> << 781, 92, 112, 795, 267, 807, 298, 481, 936, 12, 624, 583,
                665, 749, 24, 55, 952, 956, 990, 460, 536, 66, 116, 772,
                461, 941, 751, 264, 459, 156, 498, 783, 137, 731, 124, 974,
                682, 817, 612, 874, 730, 691, 547, 415, 866, 154, 407, 538,
                89, 431, 738, 132, 589, 285, 972, 630, 660, 843, 309, 41,
                222, 635, 698, 958, 600, 487, 968, 834, 541, 169, 189, 441,
                377, 898, 691, 42, 662, 367, 268, 382, 286, 603, 372, 168,
                811, 25, 330, 163, 4, 501, 239, 804, 899, 373, 470, 960,
                694, 747, 497, 531, 761, 98, 394, 301, 15, 175, 268, 140,
                349, 163, 558, 560, 131, 663, 734, 173, 433, 131, 88, 550,
                609, 659, 506, 241, 610, 809, 992, 851, 570, 221, 198, 940,
                666, 284, 301, 917, 480, 48, 105, 674, 747, 220, 909, 366,
                1, 697, 844, 535, 97, 20, 274, 928, 878, 212, 741, 902, 294,
                770, 297, 538, 139, 488, 135, 34, 475, 551, 520, 39, 495,
                968, 782, 153 >>,
            z |-> << -1616, -6601, 1911, -6601, 8148, -6069, -1698, 7354, 12234,
                17801, 12234, 17801, 11930, 20204, -202, 20204, -202, 20204,
                -202, 20204, -7447, -2141, 2840, -2141, 6940, -2874, -8343,
                -2874, -12069, -64, 15061, -4538, 4179, -6014, 9681, 4178,
                9681, 4178, 9507, 3756, 9133, 4610, -22366, 10397, 9671,
                -3014, 9671, -8772, -1415, 16079, -6106, 2510, -16150,
                14576, 745, 14576, 9519, -4765, -1544, 14140, 6089, 14140,
                393, 1070, -3246, 5057, -12651, 1554, -12651, -4285, -2511,
                -20609, 8136, 3027, -1580, 1134, -11763, -13756, -7354,
                -14824, 7513, -16392, -10929, 4229, -9515, -16167, -9515,
                -16167, 5, -16167, 7157, -5336, -2548, -5336, 5619, -139,
                10691, -139, 33091, 15910, -3482, -2201, -15771, -5534,
                -6646, -5534, -6646, -3856, -10083, 2129, 19157, -10673,
                3773, 12266, -7609, -2541, -10589, 21638, 1055, 21638,
                16050, 809, -16231, 5943, 12210, 2267, -14450, 2267, -14450,
                -6549, -12341, 1727, -12341, -9895, 5058, -400, -6350,
                11576, 3121, 11576, -8104, 1467, -2395, 8325, 1238, 8325,
                1238, -9193, 3211, 6897, 3211, 6897, -2723, 6897, 4311,
                -2881, 9890, -7491, 3514, -11253, -349, -11224, 26557, -281,
                26557, 10932, -5707, -55, 5100, 1496, -5199, 1496 >>,
            zc |-> << 1114, 8409, -2508, 8409, -6143, 9275, -18956, -304, 18256,
                8941, 18256, 8941, 7929, -21984, 2503, -21984, 2503, -21984,
                2503, -21984, 626, 15302, -3999, 15302, -600, -16927, 8892,
                -16927, -1408, -12261, -95, 3551, -6538, 3709, 5547, 11848,
                5547, 11848, 2845, 6094, 10989, 18712, 12468, -2406, -23405,
                -11187, -23405, 822, -8478, -4608, 3973, -10287, 6738,
                11828, 2698, 11828, 4458, 8588, -642, 9663, -12473, 9663,
                170, 4893, 25069, -140, 1593, 12481, 1593, -4560, -13316,
                -9864, -2495, 6296, 662, -3187, 14441, -7887, -14421, -8181,
                -15537, 13313, -4198, -4505, -4802, 83, -4802, 83, -1931,
                83, -6106, -22574, 8024, -22574, -365, 16790, 8426, 16790,
                -2121, 1946, 2265, -8336, -8433, -7751, -4280, -7751, -4280,
                -9200, -4520, -12172, 18544, 1761, -8492, 8568, 5465,
                -12506, -1904, 9990, -8578, 9990, 11043, 21357, 379, -13967,
                4340, 11323, 3654, 11323, 3654, -6051, 9520, 4574, 9520,
                -10770, -2399, 8445, -278, 8179, -7045, 8179, 7159, -1002,
                7323, 4781, 12065, 4781, 12065, 807, -1691, -8217, -1691,
                -8217, 3590, -8217, 2580, 5644, -7509, 10009, -18486, 1201,
                -11403, -340, -12691, -5286, -12691, 27544, 254, -5745, -48,
                -1347, 4234, -1347 >>,
            k |-> << 2, 4, 2, 2, 2, 2, 2, 2, 4, 4, 2, 2, 2, 8, 6, 6, 4, 4, 2, 2,
                2, 4, 2, 2, 2, 4, 2, 2, 2, 2, 2, 2, 2, 2, 4, 4, 2, 2, 2, 2,
                2, 2, 2, 2, 4, 2, 2, 2, 2, 2, 2, 2, 2, 4, 2, 2, 2, 2, 2, 4,
                2, 2, 2, 2, 2, 2, 4, 2, 2, 2, 2, 2, 2, 2, 2, 2, 2, 2, 2, 2,
                2, 2, 2, 2, 4, 6, 2, 4, 2, 2, 2, 4, 2, 2, 2, 4, 2, 2, 2, 2,
                2, 2, 2, 4, 4, 2, 2, 2, 2, 2, 2, 2, 2, 2, 2, 2, 2, 4, 2, 2,
                2, 2, 2, 2, 2, 4, 4, 2, 2, 2, 4, 2, 2, 2, 2, 2, 2, 4, 2, 2,
                2, 2, 2, 4, 4, 2, 2, 2, 4, 6, 2, 4, 2, 2, 2, 2, 2, 2, 2, 2,
                2, 2, 4, 2, 2, 2, 2, 2, 2, 6, 2, 4 >>])
    @@ (734 :> [u |-> << 790, 319, 368, 380, 796, 884, 207, 336, 98, 880, 528, 549,
                5, 299, 995, 365, 792, 911, 148, 885, 13, 833, 754, 876,
                625, 859, 679, 983, 909, 42, 313, 652, 519, 350, 336, 552,
                531, 991, 460, 650, 510, 354, 253, 520, 250, 817, 770, 785,
                36, 133, 165, 547, 929, 452, 702, 463, 772, 264, 581, 23,
                675, 914, 574, 125, 782, 94, 851, 332, 69, 365, 271, 33,
                711, 352, 668, 811, 522, 876, 487, 830, 263, 540, 955, 49,
                219, 500, 845, 72, 938, 567, 759, 127 >>,
            z |-> << -6508, -10550, -13714, 12411, 2764, -2259, -6166, -7016,
                25386, 790, 25386, -1463, 5089, 12068, 5089, 12068, 5089,
                5062, 5089, 5062, 5089, 5062, 5089, 3022, 9856, 4169, 10835,
                -816, 10835, -816, 10835, 2764, -21720, -13321, 6325, 15033,
                2461, -192, 20867, 1562, -22110, -12846, 1369, -16570, 7256,
                5512, 7092, -1197, 1752, -1197, 1752, 7596, -838, 18250,
                -3311, 15333, -7488, 5450, -3575, 1462, 5999, 1462, -10210,
                3062, -1822, -5272, -4292, -5272, -1924, -13714, -9300,
                13505, -9300, 13505, 10342, 997, 10584, -365, 12851, -5301,
                2882, 5931, 46, 12149, 46, 12149, 1049, 15284, 1049, 15284,
                -5089, -2569 >>,
            zc |-> << 10461, -14526, -15023, -5023, 2130, 2965, -11042, -2858,
                14928, 10366, 14928, 146, 3440, -5541, 3440, -5541, 3440,
                6636, 3440, 6636, 3440, 6636, 3440, 9109, 3426, 8364,
                -13233, -2005, -13233, -2005, -13233, 21545, 2843, -12194,
                -19704, 24773, 159, 2358, -5535, 21822, 1634, -7605, -16725,
                1338, -5706, 6463, 6720, -1313, -12412, -1313, -12412, 834,
                7594, -4280, 18571, -2028, 8669, -15781, 609, 8183, 2539,
                8183, 2020, -4056, 1270, -2052, 9021, -2052, -6151, -8059,
                13366, -11828, 13366, -11828, 5577, 13677, 638, 10620, -504,
                7399, -16884, 526, -15219, 30, -15219, 30, 6815, 3982, 6815,
                3982, 3539, -3177 >>,
            k |-> << 2, 2, 2, 2, 2, 2, 2, 2, 4, 2, 2, 2, 12, 4, 10, 2, 8, 6, 6,
                4, 4, 2, 2, 2, 2, 2, 6, 4, 4, 2, 2, 2, 2, 2, 2, 2, 2, 2, 2,
                2, 2, 2, 2, 2, 2, 2, 2, 4, 4, 2, 2, 2, 2, 2, 2, 2, 2, 2, 2,
                4, 2, 2, 2, 2, 2, 4, 2, 2, 2, 2, 4, 4, 2, 2, 2, 2, 2, 2, 2,
                2, 2, 2, 4, 4, 2, 2, 4, 4, 2, 2, 2, 2 >>])
    @@ (739 :> [u |-> << 884, 18, 511, 795, 485, 220, 885, 267, 150, 738, 906, 419,
                760, 295, 872, 997, 883, 887, 140, 144, 965, 499, 281, 239,
                52, 594, 329, 441, 322, 660, 927, 564, 539, 538, 905, 3, 33,
                418, 532, 674, 251, 324, 7, 894, 52, 113, 410, 986, 245,
                907, 246, 104, 294, 438, 405, 880, 198, 564, 204, 712, 221,
                754, 475, 676, 821, 833, 929, 937, 765, 288, 133, 972, 479,
                281, 296, 582, 609, 433, 135, 371, 923, 345, 733, 679, 27,
                378, 762, 21, 621, 510, 688, 269, 378, 302, 233, 750, 64,
                550, 64, 567, 715, 137, 670, 364, 41, 883, 146, 147, 384,
                953, 715, 636, 426, 948, 636, 90, 651, 739, 595, 705, 214,
                677, 122, 877, 545, 776, 764, 195, 617, 347, 902, 469, 924,
                272, 366, 618, 104, 705, 13, 766, 885, 216, 396, 714, 722,
                479, 605, 485, 905, 665, 613, 233, 786, 443, 367, 738, 24,
                256, 889, 640, 905, 724, 982, 86, 981, 136, 494, 973, 173,
                100, 749, 851 >>,
            z |-> << 14491, 89, 14491, -700, -15216, 3601, -3357, -6946, 4601,
                4188, -1692, 14875, -7936, 7048, -9, -18219, -9, -18219, -9,
                -18219, -9, -18219, -9539, -16975, 1225, -16975, -6546,
                -18829, 11495, 5643, 1129, 14530, 20715, 8995, -803, 9770,
                -803, 9770, 20016, -11577, -8142, -2178, 1952, -2178, 1952,
                -2178, 1952, -2151, 3412, -2151, -4240, -3142, -5282,
                -20420, 9575, -2140, 2918, -13836, 6568, -9466, 7157, -1580,
                20110, 9755, 3977, -7066, -7748, -7066, -7748, -7066,
                -18086, -205, -18086, -9802, 6794, 18220, -12132, -10782,
                -3373, 6680, -2201, 12680, 8845, 13439, -796, 13439, 2129,
                542, 2129, 19726, -11170, -7561, -14924, -10303, 7646,
                -7187, 841, -7187, 1083, 17034, -7122, 4025, -11325, -4027,
                -458, -3396, -458, -3396, 5007, -10317, 8751, -10317, 6111,
                1485, -7272, 2553, 12731, 6004, 16155, -9632, 6670, -7690,
                15033, 1256, 15033, 7164, -6991, 4693, -15483, 7237, -705,
                7993, -1814, -8100, 13417, -8380, 3119, 4169, -2469, 4169,
                -2469, -4890, 15501, 10000, -1665, 24361, -3472, 9137, 2751,
                10812, -13601, 7252, -2847, -20521, 13619, 4937, 2957, 4937,
                2957, 7391, 2675, -169, 4669, -169, 4669, -169, 4669, 2583,
                6274, 2583, 6274, 4577 >>,
            zc |-> << 552, -3826, 552, 14479, -778, -2613, 5550, -4627, -6738,
                2460, 8499, -4623, 10086, -3872, 5308, -63, 5308, -63, 5308,
                -63, 5308, -63, -7998, 9376, -5812, 9376, -19085, -6212,
                -12759, 2113, 7538, 23353, 21173, 864, -4572, -24458, -4572,
                -24458, 3763, 8125, -11529, -9360, -361, -9360, -361, -9360,
                -361, 3459, -2130, 3459, -2719, -6029, -17602, -13364,
                -2375, 2703, -13603, 3023, -9128, 7231, -7849, 16322, -2800,
                5362, 3832, -4077, 9730, -4077, 9730, -4077, -1693, 4730,
                -1693, -10517, -16840, 13663, 19943, -1970, -9592, -2019,
                6025, -8388, 11532, -6224, -3094, -6224, 23647, -2133,
                23647, 1149, 9134, -14284, -9219, -7609, -8162, 838, -7204,
                838, -7011, 5328, 4233, -8530, 14273, -1189, -459, -10379,
                -459, -10379, -1275, 19020, 13862, 19020, -1008, 4879, 2423,
                -6900, 8055, 15134, 7469, 6948, -10716, 3611, 2478, 10407,
                2478, 7477, 6070, -12181, 11948, -2734, 9213, -580, 3384,
                -13767, -15226, 2500, -6019, 2880, 3361, 2880, 3361, -13340,
                -7516, 9644, 17889, -4796, 24659, -333, 6747, 15769, 5786,
                -6745, 14386, -8811, -7529, -3094, 8179, -3094, 8179, 2565,
                4834, -11300, -54, -11300, -54, -11300, -54, -4133, 4457,
                -4133, 4457, 7787 >>,
            k |-> << 4, 2, 2, 2, 2, 2, 2, 2, 2, 2, 2, 2, 2, 2, 8, 8, 6, 6, 4, 4,
                2, 2, 2, 4, 2, 2, 2, 2, 2, 2, 2, 2, 2, 2, 4, 4, 2, 2, 2, 2,
                2, 6, 6, 4, 4, 2, 2, 4, 2, 2, 2, 2, 2, 2, 2, 2, 2, 2, 2, 2,
                2, 2, 2, 2, 2, 6, 4, 4, 2, 2, 4, 2, 2, 2, 2, 2, 2, 2, 2, 2,
                2, 2, 2, 4, 2, 2, 4, 2, 2, 2, 2, 2, 2, 2, 2, 4, 2, 2, 2, 2,
                2, 2, 2, 2, 4, 4, 2, 2, 2, 4, 2, 2, 2, 2, 2, 2, 2, 2, 2, 2,
                2, 2, 4, 2, 2, 2, 2, 2, 2, 2, 2, 2, 2, 2, 2, 2, 2, 4, 4, 2,
                2, 2, 2, 2, 2, 2, 2, 2, 2, 2, 2, 2, 2, 2, 2, 4, 4, 2, 2, 2,
                2, 6, 6, 4, 4, 2, 2, 4, 4, 2, 2, 2 >>])
    @@ (742 :> [u |-> << 1, 191, 449, 305, 750, 765, 623, 396, 525, 378, 887, 342,
                938, 266, 818, 508, 898, 255, 319, 535, 444, 445, 974, 433,
                9, 782, 231, 204, 78, 104, 348, 513, 839, 362, 639, 153,
                794, 553, 484, 4, 807, 766, 976, 607, 626, 898, 544, 724,
                239, 707, 761, 268, 465, 789, 993, 83, 883, 53, 588, 608,
                421, 728, 892, 258, 0, 465, 489, 140, 840, 55, 547, 433, 57,
                52, 332, 255 >>,
            z |-> << -18491, -2202, -18491, 10656, 8144, 6150, -13732, 5829,
                -23117, 8705, -3187, 4959, -703, 7829, 340, 9504, -2699,
                -8390, 3832, -24005, -19276, 4223, -572, -2042, -7024,
                -6862, -7024, -2907, 1972, -2907, 1972, 12413, -4192, 13761,
                -10008, 3978, 2571, -7956, -1951, 16015, 5936, 16015, 671,
                16015, 8051, 1039, 17332, -9258, 7937, 9974, -7944, -2580,
                14583, 1197, 17468, 1197, 17468, 1197, 17468, -13470, 16130,
                5370, -3005, -9632, -11492, -9632, -11492, 1407, -21863,
                715, -21863, -6599, -11914, -1487, -11914, 4270 >>,
            zc |-> << -4785, -13516, -4785, -8259, 7692, 13280, 16274, -24158,
                4758, -2734, 7822, -1783, 1321, -5738, 13415, 192, 4404,
                -11341, -19614, 15412, -19313, -488, 4059, -279, -6374,
                7236, -6374, -7614, -21754, -7614, -21754, 501, 10323,
                -13580, 4037, -4676, 14075, 28514, -59, 13627, 6852, 13627,
                2981, 13627, 2544, 9316, 3431, 7984, -9986, 7902, 8983,
                -17246, -1742, -6025, 14278, -6025, 14278, -6025, 14278,
                18587, -5550, 3127, 4890, -31027, -339, -31027, -339, -1484,
                15744, -6671, 15744, -986, -8164, -3967, -8164, -2608 >>,
            k |-> << 4, 2, 2, 2, 2, 2, 2, 2, 2, 2, 2, 2, 2, 2, 2, 2, 2, 2, 2, 2,
                2, 2, 2, 2, 4, 2, 2, 4, 4, 2, 2, 2, 2, 2, 2, 2, 2, 2, 2, 6,
                2, 4, 2, 2, 2, 2, 2, 2, 2, 2, 2, 2, 2, 6, 6, 4, 4, 2, 2, 2,
                2, 2, 2, 4, 4, 2, 2, 2, 4, 2, 2, 2, 4, 2, 2, 2 >>])
    @@ (755 :> [u |-> << 880, 512, 687, 517, 317, 82, 990, 790, 859, 351, 761, 78,
                693, 148, 336, 696, 834, 151, 231, 702, 729, 553, 942, 483,
                480, 102, 911, 942, 878, 643, 634, 717, 743, 806, 316, 995,
                895, 277, 347, 823, 292, 357, 175, 730, 116, 141, 283, 690,
                962, 163, 42, 612, 950, 354, 945, 603, 37, 239, 323, 98,
                573, 791, 810, 465, 32, 213, 64, 23, 552, 601, 633, 842,
                681, 769, 398, 467, 117, 674, 750, 829, 137, 453, 658, 808,
                246, 275, 274, 600, 585, 321, 134, 841, 293, 911, 519, 334,
                557, 516, 307, 667, 42, 86, 331, 969, 652, 118, 654, 365,
                839, 373, 956, 316, 443, 312, 624, 824, 208, 391, 608, 928,
                898, 247, 60, 489, 614, 92, 761, 676, 87, 7, 219, 155, 404,
                188, 603, 759, 725, 269, 20, 535, 389, 443, 994, 731, 475,
                95, 367, 837, 166, 136, 470, 684, 360, 13, 534, 72, 119,
                692, 423, 640, 968, 203, 756, 318, 953, 37, 929, 741, 90,
                507, 630, 201, 842, 749, 103, 607, 587, 234, 964, 52 >>,
            z |-> << 340, 19743, 1878, -19930, -5562, 4361, -3816, 4361, -3816,
                12413, -1508, 2293, -8215, -4245, 12574, 8686, -2650, -4367,
                7595, 10508, 3943, 6724, -257, -26620, -9519, 13217, 3262,
                13217, 3262, 13217, 13947, 9759, 7745, -5949, -3056, -8893,
                -3056, -8893, 10496, -5556, -9356, -10759, 5542, -5692,
                9793, -4367, 9793, 5263, 1164, 5263, 1164, 5263, -1429,
                4859, 1359, -4491, -6634, -7652, -6634, 1618, 13858, 5847,
                -1532, -5066, 21568, 452, 21568, 452, 21568, 16649, 10336,
                4719, 10885, -5235, -7630, -10259, 3465, 11525, 6926, -2160,
                -1415, 20208, 10763, -6033, -8264, -9547, 6840, 15000,
                -17371, -8155, 5157, -4910, 5157, 409, -20846, 6747, 7957,
                -19452, 10793, -2963, 830, -2526, 830, 689, -8252, 3314,
                -12426, 10435, -3965, 4495, -955, -5731, -18562, 9890,
                11257, -4922, -4792, 15387, 6803, 24165, -2576, 24165, -172,
                24165, -7846, 1922, 7594, -6047, -5318, -3085, -5318, -3085,
                -12514, 4082, 14168, 8020, -9451, -23011, 291, -23011,
                -10772, 1323, -9143, -1811, -9143, -2492, 10559, -3222,
                -1731, -898, 19628, -10628, -7834, 229, -7834, -6944, 3606,
                -6944, 18760, 2838, -7898, 6446, -7898, 2767, 1160, -3852,
                1160, -3852, 170, 23143, -12008, 4670, 4788, -4334, 2333,
                14243, -14490, 1382, 15294, 1382 >>,
            zc |-> << 10413, 1309, 19673, 1953, -2431, 3521, 9271, 3521, 9271,
                -7019, 937, -5005, 4507, -9119, -10504, 5087, 2546, -5675,
                -10063, 9262, 16882, 815, 6961, -21871, -475, 14107, 8608,
                14107, 8608, 14107, 8632, 8698, 6150, 9957, 5440, -12978,
                5440, -12978, -4946, 8636, -13664, -4723, -7780, 3426,
                -11134, -7216, -11134, 1311, -4742, 1311, -4742, 1311, 4428,
                -1587, 5830, 1007, -2926, -11255, -2926, -8888, 3475, 5478,
                13614, -379, 11202, -4092, 11202, -4092, 11202, 12681, 4013,
                8898, 7351, 13922, -23684, -875, -7590, 8023, 5274, 1962,
                -11120, -5870, 5544, 7324, -9361, -9507, -15376, 17575,
                8321, -3976, -2586, 8133, -2586, 8806, 2409, -19353, 28030,
                1655, -12356, 1086, -298, -6211, -298, 2128, 3293, -8200,
                14267, -4126, 10640, -1246, 2374, -18707, -5576, -14904,
                4306, 5479, -12912, -15377, 1720, -2238, 4072, -2238, -7166,
                -2238, 2197, -3000, 11272, 2578, -4337, -11174, -4337,
                -11174, -3817, -12305, 5642, 9222, 9249, 7414, -3923, 7414,
                -21012, -151, -545, 17396, -545, -7622, -4138, 3263, -1587,
                -11204, -3106, 13992, 642, -3188, 642, 17463, -7138, 17463,
                -10210, 850, 11113, -7470, 11113, -1110, 2064, 2271, 2064,
                2271, -8921, 1386, 5240, -4068, 6572, 2730, -8560, 17587,
                4775, -5502, 14728, -5502 >>,
            k |-> << 2, 2, 2, 2, 2, 4, 4, 2, 2, 2, 2, 2, 2, 2, 2, 2, 2, 2, 2, 2,
                2, 2, 2, 2, 2, 6, 4, 4, 2, 2, 2, 2, 2, 2, 4, 4, 2, 2, 2, 2,
                2, 2, 2, 2, 4, 2, 2, 6, 4, 4, 2, 2, 2, 2, 2, 2, 4, 2, 2, 2,
                2, 2, 2, 2, 6, 4, 4, 2, 2, 2, 2, 2, 2, 2, 2, 2, 2, 2, 2, 2,
                2, 2, 2, 2, 2, 2, 2, 2, 2, 2, 4, 2, 2, 2, 2, 2, 2, 2, 2, 2,
                4, 2, 2, 2, 2, 2, 2, 2, 2, 2, 2, 2, 2, 2, 2, 2, 2, 2, 2, 6,
                2, 4, 2, 2, 2, 2, 2, 2, 4, 4, 2, 2, 2, 2, 2, 2, 2, 4, 2, 2,
                2, 2, 4, 2, 2, 2, 2, 2, 2, 2, 2, 2, 4, 2, 2, 4, 2, 2, 2, 2,
                4, 2, 2, 2, 4, 4, 2, 2, 2, 2, 2, 2, 2, 2, 2, 2, 2, 4, 4, 2 >>])
    @@ (756 :> [u |-> << 993, 189, 152, 771, 142, 582, 496, 307, 679, 10, 111, 448,
                949, 191, 358, 867, 266, 617, 693, 477, 84, 558, 155, 527,
                951, 529, 735, 641, 54, 954, 608, 125, 478, 600, 856, 273,
                506, 18, 413, 55, 636, 295, 874, 932, 336, 621, 516, 634,
                880, 725, 563, 801, 445, 325, 598, 32, 55, 926, 465, 441,
                295, 226, 187, 442, 811, 28, 285, 808, 478, 337, 71, 564,
                250, 193, 902, 261, 132, 761, 605, 903 >>,
            z |-> << 4368, -3959, 4368, -5240, 2495, -1119, -19558, 10945, -1282,
                6318, -1282, 6318, 9126, -5175, 9126, -3986, 7261, 15208,
                -2273, -8579, 1173, -11779, 967, 6330, 419, 17142, 7982,
                -4988, -9558, 1212, -9558, -607, 24597, 10531, -4400, 500,
                -3884, -523, -6187, 1580, -14038, 6973, 11273, -1988, 11273,
                3195, 22680, 8717, 3564, 4722, 13634, -2496, -19156, 9424,
                -4134, -638, -24295, -638, -24295, -17774, -9874, -6490,
                -2451, 13267, 8760, -948, 8760, -948, -20921, -5525, 1127,
                -15767, -7513, -6119, -2639, -6119, 3729, 5686, 8220, 5615 >>,
            zc |-> << -5594, -3538, -5594, 3977, -10850, 26843, -349, -11738,
                -9770, -718, -9770, -718, -3501, -11325, -3501, 6286,
                -14392, 9235, 19272, -472, -8313, 2000, -12092, 387, 6317,
                2181, 13283, 1584, 2768, 5070, 2768, -10682, -5200, 2975,
                6935, -17795, 51, -2926, -1198, -5162, 9343, -3802, -15209,
                5240, -15209, 23492, 2786, 3080, 6025, 16778, 2870, 13788,
                -5992, -16647, 872, 7858, -14496, 7858, -14496, -5034,
                -7404, -5676, -13237, -2462, -6089, 13813, -6089, 13813,
                -2723, -2103, -7501, 4064, -6111, -3964, 4461, -3964, -5245,
                14034, 2155, 4216 >>,
            k |-> << 4, 2, 2, 2, 2, 2, 2, 2, 4, 4, 2, 2, 4, 2, 2, 2, 2, 2, 2, 2,
                2, 2, 2, 2, 2, 2, 2, 2, 4, 2, 2, 2, 2, 2, 2, 2, 2, 2, 2, 2,
                2, 2, 4, 2, 2, 2, 2, 2, 2, 2, 2, 2, 2, 2, 2, 4, 4, 2, 2, 2,
                2, 2, 2, 2, 4, 4, 2, 2, 2, 2, 2, 2, 2, 4, 2, 2, 2, 2, 2, 4 >>])
    @@ (763 :> [u |-> << 57, 150, 201, 269, 888, 617, 838, 627, 701, 825, 227, 525,
                929, 75, 556, 567, 809, 63, 598, 471, 664, 220, 196, 984,
                79, 870, 793, 815, 364, 427, 626, 819, 882, 700, 811, 18,
                662, 868, 746, 376, 484, 682, 464, 881, 176, 903, 268, 947,
                13, 927, 491, 800, 522, 887, 151, 859, 545, 928, 889, 881,
                531, 473, 330, 715, 939, 830, 898, 483, 518, 254, 598, 988,
                362, 153, 998, 297, 74, 523, 802, 972, 923, 565, 329, 74,
                458, 391, 139, 434, 591, 811, 963, 308, 105, 587 >>,
            z |-> << -6476, -3771, -6476, 5484, 2634, 10923, 4010, 14565, 8818,
                -5214, 1476, 7745, 20147, 1039, 20147, 13202, -6885, 1477,
                -6885, 20675, -11367, -6464, 5636, 2952, 5636, 2952, 5636,
                -4855, -10250, 19226, 11390, 824, 3548, 9207, 8514, 3859,
                8514, 3859, -6906, -2900, 19978, -3782, 10279, -2660, 14249,
                -2660, 14249, -150, 14249, -150, 14249, 1045, 10038, 1427,
                7694, 1427, 7694, 842, -20443, 842, -20443, -20458, 12201,
                2612, -400, 25762, -400, 25762, -16798, 5947, 977, -4415,
                -10068, -4415, 435, -4415, 435, 14084, 1200, -18718, 1200,
                -18718, -5454, -761, -22585, -10177, -1995, 19838, 12599,
                -6499, 2003, -6499, 2003, -15476 >>,
            zc |-> << -8411, -4406, -8411, -3247, 8742, 3780, 10662, 9219, 5452,
                6227, -15467, 468, 16980, -7772, 16980, 2875, 24185, -6509,
                24185, -3552, 6678, -5950, 5254, 3716, 5254, 3716, 5254,
                11260, -19113, -11092, 4505, 688, 6763, 5940, 3755, 5767,
                3755, 5767, 13801, -23417, -1673, 19536, -952, 4648, -383,
                4648, -383, 7910, -383, 7910, -383, 14182, 574, 11275, 817,
                11275, 817, 10290, 24149, 10290, 24149, -3199, -9557, 1284,
                9511, -23083, 9511, -23083, 1281, -14824, 197, -2096, -4001,
                -2096, -7985, -2096, -7985, 1078, 7735, 7214, 7735, 7214,
                -2185, -7865, -8557, -3067, -10949, -14183, 3720, -3158,
                -8994, -3158, -8994, 18762 >>,
            k |-> << 4, 2, 2, 2, 2, 2, 2, 2, 2, 2, 2, 2, 4, 2, 2, 2, 4, 2, 2, 2,
                2, 2, 6, 4, 4, 2, 2, 2, 2, 2, 2, 2, 2, 2, 4, 4, 2, 2, 2, 2,
                2, 2, 2, 4, 8, 2, 6, 4, 4, 2, 2, 2, 2, 4, 4, 2, 2, 4, 4, 2,
                2, 2, 2, 2, 4, 4, 2, 2, 2, 2, 2, 6, 2, 4, 4, 2, 2, 2, 4, 4,
                2, 2, 2, 2, 2, 2, 2, 2, 2, 4, 4, 2, 2, 2 >>])
    @@ (778 :> [u |-> << 917, 739, 4, 597, 666, 375, 216, 619, 894, 280, 974, 925,
                218, 766, 306, 542, 639, 362, 89, 122, 412, 624, 369, 955,
                382, 856, 122, 992, 494, 663, 209, 274, 290, 374, 114, 623,
                239, 535, 264, 738, 350, 918, 162, 597, 700, 724, 613, 471,
                904, 15, 706, 760, 853, 343, 898, 526, 338, 967, 616, 287,
                571, 97, 194, 990, 876, 641, 479, 694, 144, 153, 593, 386,
                70, 660, 83, 986, 469, 338, 413, 667, 213, 326, 492, 217,
                830, 753, 980, 353, 562, 452, 995, 474, 310, 117, 375, 956,
                155, 644, 239, 474, 921, 897, 195, 236, 820, 733, 844, 654,
                785, 717, 383, 422, 290, 388, 233, 782, 436, 458, 279, 584,
                502, 582, 403, 735, 756, 435, 221, 734, 448, 740, 444, 393,
                802, 82, 247, 483, 318, 94, 459, 482, 105, 708, 299, 665,
                929, 371, 31, 174, 314, 613, 781, 742, 913, 181, 168, 400,
                326, 537, 568, 567, 390, 541, 684, 274, 20, 61, 611, 82,
                274, 119, 595, 82 >>,
            z |-> << 1953, 16827, -11255, 16827, -11255, -12655, 5407, 8408,
                -3107, -7610, 6928, -7610, 6928, -7610, 4143, 21235, -13624,
                -7192, 17896, -2264, 17896, -14587, 4493, -1245, 10154, -26,
                21137, -26, 21137, -11104, -6800, -9491, -8718, -8715, 2818,
                -13394, 2145, -17059, 9020, -8041, 6505, 16178, 3285, 16178,
                10618, 7480, -5825, 9138, 10010, 5791, 10010, 5791, -4092,
                7343, 641, -20854, 1996, 933, -14951, 5758, -8815, -3237,
                3269, -3237, 3269, -3237, 19254, -8035, -1207, 3015, -17030,
                -6648, 2057, -6320, -20739, -194, -20739, -9460, 17554,
                -11051, -6537, -934, -15120, 5702, 5202, 8365, -16531, 8365,
                -16531, 1333, -92, -19411, -7121, -2888, 4537, -12607, 4172,
                -12607, -1581, 8225, -6081, 6676, -6081, 6676, 5659, 7104,
                4331, 11564, 6960, -7938, -12501, -16845, -8118, -13644,
                7301, -3237, -15121, -17606, 6234, 899, 26789, -17756,
                15193, 8850, -3864, -14589, 7265, -3687, 16457, -3774,
                -21181, 12564, -1089, -1637, -1089, -20017, -6279, -899,
                -12091, -9683, 3135, -10236, 10265, 5348, -1883, -3294,
                9573, -5329, 9573, 13105, 7128, 3505, -3486, -4208, -3486,
                -16626, 4255, 23974, 17953, -19892, 8454, 19233, -11355,
                1564, -7391, 1564, -7391, -2187, -6037, 2393, -7680, 12789 >>,
            zc |-> << 3402, 9898, 14979, 9898, 14979, -5569, -12831, 2549, 5584,
                10450, -7336, 10450, -7336, 10450, -18772, 6527, 13759,
                -2414, -12480, -9832, -12480, 13961, -1287, 4802, -3358,
                2487, -675, 2487, -675, 6246, -8766, -10211, -14508, -2847,
                -8757, 6374, -15894, 2552, -8891, 12868, -2318, 7830,
                -11418, 7830, 9504, 14810, 23410, -637, 7946, 4259, 7946,
                4259, 9257, -2885, 9467, 3489, -689, 3755, 8190, -16976,
                1574, 22149, 8716, 22149, 8716, 22149, -2043, 4402, -1239,
                -11120, 14115, -1753, -5520, 2431, -3872, 3134, -3872,
                -17664, -9077, 6444, -10833, -20566, -421, -4868, 6768,
                -19665, 21595, -19665, 21595, -129, 1759, -2651, -3533,
                -8873, -1237, 6994, -9964, 6994, -16034, -501, -7042, -5476,
                -7042, -5476, 7787, 4809, 9685, 6230, 9161, 14833, -18817,
                -6208, -15226, -5713, -6902, 14435, -22932, -3338, -16174,
                26617, 926, 15221, -6233, 8126, 15479, -3360, -8602, 16701,
                -3547, 16367, -11010, -4433, -16479, -2708, -16479, -1841,
                -2807, -8998, -28748, -418, -5927, 10641, -12487, 2055,
                6303, -903, -15548, -9365, -15548, 5311, 8259, 2055, -11640,
                -4043, -11640, -9495, -19899, 12970, 18388, 12125, -22541,
                4289, 9290, -6145, 1976, -6145, 1976, -4051, -3575, -9565,
                1751, 7580 >>,
            k |-> << 2, 4, 4, 2, 2, 2, 2, 2, 2, 6, 4, 4, 2, 2, 2, 2, 2, 2, 4, 2,
                2, 2, 2, 2, 2, 4, 4, 2, 2, 2, 2, 2, 2, 2, 2, 2, 2, 2, 2, 2,
                2, 4, 2, 2, 2, 2, 2, 2, 4, 4, 2, 2, 2, 2, 2, 2, 2, 2, 2, 2,
                2, 6, 4, 4, 2, 2, 2, 2, 2, 2, 2, 2, 2, 2, 4, 2, 2, 2, 2, 2,
                2, 2, 2, 2, 2, 4, 4, 2, 2, 2, 2, 2, 2, 2, 2, 4, 2, 2, 2, 2,
                4, 4, 2, 2, 2, 2, 2, 2, 2, 2, 2, 2, 2, 2, 2, 2, 2, 2, 2, 2,
                2, 2, 2, 2, 2, 2, 2, 2, 2, 2, 2, 2, 4, 2, 2, 2, 2, 2, 2, 2,
                2, 2, 2, 2, 2, 2, 4, 2, 2, 2, 2, 2, 4, 2, 2, 2, 2, 2, 2, 2,
                2, 2, 2, 4, 4, 2, 2, 2, 2, 2, 2, 8 >>])
    @@ (780 :> [u |-> << 732, 830, 285, 786, 966, 205, 76, 995, 410, 578, 154, 941,
                213, 849, 237, 565, 99, 936, 15, 834, 752, 262, 687, 229,
                814, 705, 252, 696, 308, 512, 272, 459, 551, 325, 711, 520,
                854, 423, 92, 793, 716, 530, 519, 668, 678, 769, 976, 392,
                118, 222, 830, 384, 112, 380, 182, 177, 139, 48, 130, 952,
                948, 382, 638, 276, 308, 858, 223, 518, 376, 508, 13, 757,
                795, 369, 956, 385, 541, 935, 241, 557, 7, 385, 851, 73 >>,
            z |-> << 7540, -5303, 9234, -11435, 15828, -11435, 15828, -11435,
                15828, -11435, 4912, -4398, 4912, -4398, 3786, -9039, -8307,
                5048, -8307, 5048, -8307, 8775, -10626, 6540, 5841, -10239,
                8429, -10790, 1245, -17691, -3056, 22466, -19291, 11956,
                1737, 11670, -2378, -8531, 2525, 6683, 2525, 17726, 20670,
                12285, 11026, -9260, -670, -9260, -2825, 5884, -3935, -8832,
                -2705, -11632, -4494, -2723, -1392, 15344, -1392, 15344,
                -1392, 15344, -13647, -9478, 8054, -3863, 997, -23332, 1699,
                -3353, -5345, 7450, -5345, 4386, -1201, 8044, 7302, -1923,
                3443, -1923, 10130, 10453, 10130, -2158 >>,
            zc |-> << 5298, 8164, -6915, 2584, -18038, 2584, -18038, 2584, -18038,
                2584, -4026, 5854, -4026, 5854, -15204, 1477, 8814, 6706,
                8814, 6706, 8814, -11125, 7357, -5627, 8964, 8483, -10589,
                11083, -19518, 950, -17290, -17595, 5683, -9845, 18401, 658,
                11071, -1597, 18021, 9053, 18021, 27127, 2435, 11597, 7287,
                -2599, 2978, -2599, -3896, -4925, 11248, -2639, -8745,
                -4383, -4438, -2430, 5315, -13045, 5315, -13045, 5315,
                -13045, 8444, -11070, -4302, 4998, -15323, 3411, -23587, 61,
                12105, 6495, 12105, -1253, 4771, -22345, 694, 224, -15562,
                224, -5299, -3411, -5299, -5506 >>,
            k |-> << 2, 2, 2, 8, 6, 6, 4, 4, 2, 2, 4, 4, 2, 2, 2, 2, 6, 4, 4, 2,
                2, 2, 2, 2, 2, 2, 2, 2, 2, 2, 2, 2, 2, 2, 2, 2, 2, 2, 4, 2,
                2, 2, 2, 2, 2, 4, 2, 2, 2, 2, 2, 2, 2, 2, 2, 2, 6, 6, 4, 4,
                2, 2, 2, 2, 2, 2, 2, 2, 2, 2, 4, 2, 2, 2, 2, 2, 2, 4, 2, 2,
                6, 2, 4, 2 >>])
    @@ (789 :> [u |-> << 323, 230, 793, 624, 975, 758, 10, 24, 111, 538, 45, 551,
                728, 298, 733, 640, 220, 127, 327, 414, 137, 591, 370, 595,
                786, 846, 500, 910, 493, 851, 821, 214, 193, 134, 800, 769,
                212, 760, 740, 862, 454, 647, 328, 592, 300, 571, 231, 790,
                555, 396, 128, 888, 719, 490, 26, 764, 560, 772, 198, 929,
                784, 528, 209, 683, 901, 598, 24, 387, 520, 883, 182, 490,
                970, 533, 274, 826, 106, 417 >>,
            z |-> << -11081, 7004, 5228, 2545, 969, -6039, 969, -6039, 969,
                -6039, 672, 16994, -9318, 10522, 8052, -12239, -4251, -3721,
                -8644, -10590, 2639, -17534, 12667, 13448, 5012, 17, 8873,
                -145, 11850, 2955, -5163, -6159, -3325, 2976, 6170, -7136,
                6773, 7966, 6200, -1383, 20725, -13488, 9205, -16451, 6241,
                -14828, 7131, 2735, -21196, -9833, -763, 3306, -763, -4691,
                14931, 3454, 14931, -6775, 1475, -14618, 1475, -14618, 6552,
                6408, 2079, -3324, -694, 4415, 10233, -734, -396, 4885, 336,
                -17526, 7916, 17663, -1923, 17663 >>,
            zc |-> << -7257, -6431, 12344, 666, -9879, 507, -9879, 507, -9879,
                507, -5926, 3838, 10554, -9100, 13357, 6156, -3185, -8043,
                -17533, -2488, -10479, 12345, -17101, 4497, 4150, 12114, 10,
                8869, -226, 3235, 5815, -5734, -2790, -3616, 6896, 6684,
                -7479, 8614, 4111, 11101, -6342, 11626, -17106, 7596,
                -17433, 3955, -6593, 14253, 11386, -2745, 18115, 5853,
                18115, -92, 3292, 15241, 3292, 6123, 14900, 1416, 14900,
                1416, -10362, 2927, 8453, 690, -2926, -23867, 556, 888,
                -13458, -97, 4781, 2569, -5482, -15489, -9125, -15489 >>,
            k |-> << 2, 2, 2, 2, 6, 6, 4, 4, 2, 2, 2, 2, 2, 2, 2, 2, 2, 2, 2, 2,
                2, 2, 2, 2, 2, 2, 2, 2, 2, 2, 2, 2, 2, 2, 2, 2, 2, 2, 2, 2,
                2, 2, 2, 2, 2, 2, 2, 2, 2, 2, 4, 2, 2, 2, 4, 2, 2, 2, 4, 4,
                2, 2, 2, 2, 2, 2, 2, 2, 2, 2, 2, 2, 2, 2, 2, 4, 2, 2 >>])
    @@ (796 :> [u |-> << 316, 506, 379, 436, 747, 441, 33, 326, 566, 541, 264, 782,
                489, 538, 441, 267, 763, 589, 388, 803, 226, 312, 145, 746,
                965, 480, 270, 344, 302, 390, 230, 251, 867, 183, 853, 90,
                383, 345, 60, 353, 415, 908, 862, 24, 589, 879, 70, 643,
                219, 862, 339, 789, 93, 186, 601, 116, 565, 230, 418, 375,
                758, 781, 369, 169, 243, 665, 12, 233, 604, 960, 275, 287,
                804, 292, 640, 572, 514, 764 >>,
            z |-> << 679, -23825, -10689, 15862, -3775, -4918, -451, 7080, 14555,
                -16913, 8525, -545, 30790, -23478, -16627, 8887, 4922,
                -17427, 12382, -6008, -7242, -8295, 4367, -17527, -222,
                -17527, -8604, -13018, -8621, -13645, -7549, 5733, -2276,
                3374, -15564, -2187, -15564, -5030, -1748, -10464, 8336,
                663, 9691, 663, 9691, -12081, 1989, -12081, 4670, -3909,
                11240, -515, -9296, 3978, -9296, 1679, -14930, -4402,
                -18395, 13425, 7649, -5828, -10861, -5174, 7619, 5469, 4659,
                5469, 4659, 8945, -9534, 8945, -6220, 9312, 9862, 5204,
                15942, -5421 >>,
            zc |-> << -20019, 1230, -20145, -4092, 16005, -615, -1210, -18582,
                23006, 3012, -7113, 15113, -8207, 15438, -4144, -7840,
                14472, 14007, -4553, 6668, -10567, -4386, -6285, -1487,
                5302, -1487, -12700, -10255, -15608, -5526, -8180, -3884,
                2636, -3023, -11748, -7699, -11748, -1766, -5257, -18016,
                -1732, -3513, 2292, -3513, 2292, 6189, -5945, 6189, -3621,
                8834, -6218, 366, 2463, -12278, 2463, -9876, 3613, -14502,
                -12060, -6484, 7026, 12536, -4294, -6673, -11816, -13917,
                1058, -13917, 1058, -6239, -10073, -6239, 9117, -13744,
                19027, 27119, 846, 14086 >>,
            k |-> << 2, 2, 2, 2, 2, 2, 2, 2, 2, 2, 2, 2, 2, 2, 2, 2, 2, 2, 2, 2,
                2, 2, 2, 4, 2, 2, 2, 2, 2, 2, 2, 2, 2, 2, 4, 2, 2, 2, 2, 2,
                2, 4, 4, 2, 2, 4, 2, 2, 2, 2, 2, 2, 4, 2, 2, 2, 2, 2, 2, 2,
                2, 2, 2, 2, 2, 4, 4, 2, 2, 4, 2, 2, 2, 2, 2, 2, 2, 2 >>])
    @@ (800 :> [u |-> << 81, 383, 353, 160, 286, 786, 494, 470, 930, 741, 595, 79,
                110, 719, 625, 909, 221, 544, 930, 781, 664, 220, 289, 59,
                294, 261, 903, 234, 158, 835, 705, 705, 673, 56, 885, 125,
                493, 390, 42, 267, 214, 615, 14, 186, 256, 357, 290, 812,
                46, 197, 625, 394, 818, 670, 74, 731, 130, 667, 673, 365,
                591, 920, 511, 460, 623, 17, 43, 108, 411, 496, 770, 985,
                76, 206, 370, 333, 609, 107, 918, 597, 360, 954 >>,
            z |-> << -2003, -15556, -10064, -4991, 9303, -299, -32919, 7675,
                1144, 5943, -7507, 8196, 3288, 8196, 7539, -1124, 2406,
                7563, -11336, 6583, -11336, -7186, -2842, -1439, -10293,
                4416, -2061, -5996, 2897, 5102, 10420, 10132, -4137, -195,
                -24587, -195, -24587, -4833, 5207, -8584, 5207, -850, -7672,
                -5893, -7672, -13614, 8856, 4994, -13586, 4994, -13586,
                11989, 5379, -5503, 1734, -6275, 3768, 12277, -11143, 11861,
                7569, 236, -30201, 22118, -1087, -2072, -939, -2072, -939,
                15662, -14646, -5387, -14646, -5387, -14646, 10559, -8714,
                -17019, 1758, -17019, 4282, 6994 >>,
            zc |-> << -7227, -12282, -4354, -7940, -6947, 14942, -6390, -527,
                2041, 15082, 1696, 14366, -5842, 14366, 2303, 1654, -14948,
                787, 6674, 11278, 6674, -9548, -1359, -3076, -8896, -2609,
                3126, -4664, -2948, 8340, 10396, 12051, 1616, -10762, -1523,
                -10762, -1523, -1157, -12909, -6980, -12909, 202, -13053,
                -7604, -13053, -9274, -5944, -12021, 16160, -12021, 16160,
                -3974, 10055, 2206, -3189, 3921, -8312, 11876, 14317,
                -17556, 1640, 8303, 9058, -7166, 277, -9145, -26283, -9145,
                -26283, -183, -11419, -12180, -11419, -12180, -11419,
                -16003, 2440, 11900, 7557, 11900, -1313, -2089 >>,
            k |-> << 2, 2, 2, 2, 2, 2, 2, 2, 2, 2, 2, 4, 2, 2, 2, 2, 2, 2, 4, 2,
                2, 2, 2, 2, 2, 2, 2, 2, 2, 2, 2, 2, 2, 4, 4, 2, 2, 2, 4, 2,
                2, 2, 4, 2, 2, 2, 2, 4, 4, 2, 2, 2, 2, 2, 2, 2, 2, 2, 2, 2,
                2, 2, 2, 2, 2, 4, 4, 2, 2, 2, 6, 4, 4, 2, 2, 2, 2, 4, 2, 2,
                2, 6 >>])
    @@ (805 :> [u |-> << 26, 619, 404, 160, 440, 340, 161, 556, 356, 717, 46, 508,
                651, 784, 609, 127, 57, 309, 603, 457, 170, 322, 955, 383,
                758, 932, 527, 146, 683, 114, 471, 624, 366, 301, 993, 966,
                178, 463, 482, 910, 794, 692, 553, 77, 167, 389, 288, 488,
                735, 492, 935, 623, 396, 8, 941, 433, 501, 565, 88, 552,
                969, 117, 78, 924, 985, 91, 261, 845, 675, 480, 865, 122,
                584, 103, 288, 445 >>,
            z |-> << 739, -13533, -11370, -2090, -19479, -9758, 2011, -20213,
                13488, 21779, 113, 21779, 11671, 5030, -9643, 8740, -1534,
                8740, -9234, -12677, -5095, 2822, -1230, 13737, -11687, 487,
                -11687, 4394, -7162, -743, 22773, -14659, -14273, -13837,
                -1473, -13837, -1473, -13837, 8853, 5139, 6486, 5139, -7917,
                -15246, -3753, -15246, -971, 17319, -564, 7397, 1709,
                -13663, -1002, 443, -1002, 443, 28509, -8453, 1089, 4742,
                6894, -2361, 6894, -2361, 6894, -2361, 6894, 4587, -2207,
                11161, -8941, 2216, -8941, -3061, -4549, 17316 >>,
            zc |-> << -2922, 17042, -3184, -12008, -7233, -4596, -12122, 7909,
                -8908, 1182, -6228, 1182, 6229, 13133, 2821, -16070, -3566,
                -16070, 22675, -1620, -9480, -1098, 4817, -6181, 925, 7529,
                925, -8467, 3405, -10100, -5182, 13729, -9584, -28572,
                -13090, -28572, -13090, -28572, -378, 18423, 9903, 18423,
                1008, -7958, -11307, -7958, -18505, -816, 17335, -130, 6037,
                16331, 6618, -28361, 6618, -28361, 454, 1347, -8597, 526,
                -4766, -4046, -4766, -4046, -4766, -4046, -4766, 9015,
                20283, -584, 1900, -9910, 1900, -5741, -17615, -4326 >>,
            k |-> << 2, 2, 2, 2, 2, 2, 2, 2, 2, 4, 2, 2, 2, 2, 2, 4, 2, 2, 2, 2,
                2, 2, 2, 2, 4, 2, 2, 2, 2, 2, 2, 2, 2, 6, 4, 4, 2, 2, 2, 4,
                2, 2, 2, 4, 2, 2, 2, 2, 2, 2, 2, 2, 4, 4, 2, 2, 2, 2, 2, 2,
                8, 6, 6, 4, 4, 2, 2, 2, 2, 2, 4, 2, 2, 2, 2, 2 >>])
    @@ (806 :> [u |-> << 169, 764, 146, 478, 872, 251, 928, 52, 113, 230, 942, 833,
                30, 426, 763, 750, 527, 639, 624, 324, 956, 365, 783, 353,
                742, 614, 410, 676, 201, 812, 527, 85, 88, 20, 805, 82, 260,
                250, 578, 519, 10, 853, 635, 750, 436, 707, 62, 949, 658,
                165, 839, 196, 422, 528, 513, 113, 985, 605, 619, 481, 665,
                459, 724, 576, 519, 670, 256, 535, 38, 429, 489, 107, 754,
                66, 383, 353, 70, 596, 378, 903, 663, 276, 751, 27, 505,
                510, 565, 834, 425, 767, 250, 342, 47, 26, 611, 686, 564,
                117, 440, 162, 337, 943, 792, 951, 639, 478, 256, 978, 354,
                975, 948, 472, 301, 619, 877, 126, 935, 806, 116, 17, 799,
                127, 544, 325, 366, 197, 990, 149, 588, 290, 815, 2, 869,
                25, 681, 625, 851, 121, 968, 173, 605, 604, 242, 940, 469,
                506, 580, 399, 53, 831, 206, 916, 535, 183, 667, 31, 469,
                732, 866, 971, 730, 568, 916, 172, 300, 999, 474, 414, 926,
                557, 479, 954, 591, 83, 38, 540, 412, 423, 747, 564, 30,
                176, 872, 131, 18, 235, 233, 782, 723, 826, 189, 507, 125,
                905, 872, 84, 554, 506, 391, 747, 336, 716, 393, 373, 951,
                451, 825, 952, 879, 381, 510, 669, 986, 223, 698, 125, 786,
                55, 349, 418, 301, 61, 929, 377, 163, 748, 638, 199, 733,
                888, 487, 505, 422, 851, 241, 269, 973, 81, 884, 796, 747,
                958, 462, 672, 953, 747, 772, 218, 820, 925, 490, 731, 189,
                799, 932, 487, 956, 772, 501, 27, 177, 69, 197, 991, 708,
                255, 527, 408, 83, 53, 471, 189, 546, 313, 320, 375, 478,
                49, 985, 585, 723, 120, 882, 222, 753, 162, 538, 644, 92,
                11, 372, 4, 844, 635, 56, 40, 795, 870, 909, 52, 674, 572,
                301, 11, 961, 903, 332, 267, 717, 171, 52, 183, 729, 657,
                251, 854, 445, 173, 218, 944, 29, 446, 407, 793, 87, 392,
                783, 871, 62, 439, 609, 6, 603, 858, 779, 373, 275, 665, 45,
                472, 48, 235, 941, 322, 223, 889, 451, 210, 919, 444, 263,
                466, 197, 999, 35, 657, 471, 623, 71, 309, 109, 676, 798,
                962, 950, 5, 682, 673, 840, 293, 60, 750, 25, 15, 803, 846,
                635, 710, 20, 907, 285, 235, 76, 636, 299, 879, 523, 261,
                794, 268, 169, 120, 527, 81, 50, 567, 97, 84, 68, 142, 213,
                923, 920, 10, 656, 697, 193, 377, 17, 457, 208, 320, 482,
                794, 178, 169, 101, 578, 317, 508, 691, 228, 800, 691, 830,
                329, 877, 805, 672, 751, 660, 574, 726, 822, 75, 981, 808,
                345, 574, 267, 321, 836, 217, 974, 591, 73, 257, 699, 870,
                582, 841, 613, 962, 718, 367, 301, 341, 449, 109, 610, 593,
                532, 530, 986, 670, 565, 480, 714, 993, 442, 806, 71, 200,
                518, 10, 114, 255, 814, 930, 402, 355, 363, 53, 128, 680,
                137, 973, 207, 121, 987, 649, 677, 956, 976, 418, 470, 812,
                290, 767, 800, 654, 310, 135, 826, 430, 217, 738, 606, 598,
                561, 576, 771, 785, 534, 527, 131, 804, 517, 2, 732, 264,
                169, 275, 901, 139, 226, 867, 918, 969, 796, 470, 740, 992,
                79, 731, 279, 34, 996, 513, 968, 621, 603, 299, 754, 271,
                596, 267, 656, 680, 713, 719, 321, 365, 965, 941, 537, 608,
                729, 980, 873, 713, 850, 548, 126, 104, 917, 406, 738, 526,
                303, 514, 90, 309, 766, 146, 485, 216, 502, 834, 655, 649,
                875, 144, 882, 641, 945 >>,
            z |-> << 5095, -5666, -726, 10780, -3674, 1759, -2804, 14985, -2804,
                14985, -691, 14985, -691, 14985, 7800, 1795, 21993, 13179,
                -14970, 2765, -1257, 12351, -6160, 12915, 6744, -13728,
                17162, -10386, 5500, 1196, -8585, -1917, -8748, -1917,
                -8748, -1917, -8748, 4849, 6424, -2792, 13211, 3782, 13211,
                -4000, 17477, -3223, -9921, 1461, -9921, 3135, -4087, -3384,
                9134, 14758, -10104, 16066, 340, 16066, -3592, 20873, -4976,
                17435, 5547, 6807, 20560, -11834, 2446, -5573, -801, -3973,
                -9831, 2807, -15502, -1714, -15502, -5899, 1568, -16933,
                7905, 2788, -12425, 9427, 34811, 51, 34811, 28102, 12147,
                -2656, 14792, -7630, -7761, -3891, 15656, 764, 15656, 6295,
                -9951, -1561, -12101, -4654, 4527, 1415, -3478, 1415, -3478,
                -16826, 1409, -58, 1409, -18949, -409, -18949, 9051, 9233,
                -3297, -2062, -3297, -2062, -3297, 1270, -3297, 1270,
                -19568, -11003, -11759, 2796, -16332, 2796, -16332, 8768,
                10310, 10173, 10310, 10173, 10310, 10173, 15518, 3773,
                15518, 3773, 15518, -14210, 7348, -479, 7348, 26921, -18205,
                -5805, -13360, -4594, -13360, 713, -13360, 5406, -1438,
                -328, 17256, 6343, 4859, 8119, 4859, 8119, -25130, -5360,
                -25130, -13, -25130, 7340, 1038, -9890, 6158, 1091, -7784,
                -23267, 483, -23267, -15857, 15473, 4090, -4591, 7312, 1742,
                7312, -7586, 7312, -7586, 7312, 7115, 7995, -4441, 313,
                -10732, 3573, 1092, 3573, 1092, 3573, -24678, 14376, -7963,
                12489, -7548, -16102, 4902, -671, 12799, -2851, 2137, -2851,
                2137, 20763, 7223, -7196, 7223, -7196, 2961, -9855, -1621,
                -9855, -17032, -3575, -10848, -1841, -10848, 5019, 7336,
                -11641, 6393, 5397, -316, 14931, -27189, 11191, -4379,
                -8082, 6519, 2073, 6519, 2073, 6519, 19953, -465, 19953,
                3255, -7079, 8186, -7079, 5982, 17533, -178, 17533, -8112,
                5336, 6027, -225, 6027, -4788, 83, -4788, 1903, -10095,
                1903, -10095, 1903, -10095, 1903, -24584, -7800, -13683,
                -426, -13683, 2007, -19005, -11278, -10373, -3901, -6434,
                16017, 400, 16017, -6121, 7186, -2765, 7186, -6556, 1389,
                21258, -7184, 4006, -5227, 4006, -5227, 4006, -5227, 3608,
                1468, 3608, 1468, 7564, 1468, 7564, -17454, -12096, -2831,
                -12096, -2831, -12096, 9186, -8123, 5809, 8657, 5809, 8657,
                -12321, 6232, -1771, -12659, -5018, -523, -21506, -523,
                -21506, 13281, 13209, -2017, 13209, 4126, 20599, -968,
                20599, 10379, 3780, 10379, 3780, -5773, -14168, 9059, -3392,
                -363, -6343, -1656, -10888, -1656, -10888, 3470, -1217,
                -14388, -16566, -1072, -16566, -2414, -14002, 891, -3765,
                891, -3765, 22848, -6496, -2054, -6743, 3249, 10412, 11438,
                9213, 11438, 9213, 11438, 9213, -4930, -3126, 4309, 3969,
                4309, 3969, 4309, 3969, 13991, -2684, -9608, -2684, -9608,
                -456, 2092, -14036, 6876, 636, -17095, 8194, -6627, -7564,
                -8350, 752, -8350, -8866, 925, -8866, 12956, -3679, 12956,
                -3679, 12956, -9441, 12956, -9441, 12956, -9441, -4781,
                -1358, -313, -14388, -6440, -2007, 14496, -5444, -4049,
                -17623, 1775, -17623, 983, 19569, -10453, 6806, 6255, 8972,
                -4980, 7895, 2116, 5841, 11606, 7720, 8573, 16370, 7985,
                8994, -5444, 8994, -5444, 8994, -16112, -8887, 9216, -4631,
                -7242, 703, -7242, -1368, 8643, 7316, 2276, 11535, 3599,
                4273, -14308, -8494, -14308, -10272, -6374, -9704, 2491,
                14408, 8261, 21490, 3189, -7953, 7237, -7953, 18270, 13527,
                -193, 13527, 902, -2796, 902, -2796, 7536, -3230, 7536,
                -17034, -1558, -17034, -13217, -5029, -8212, 3821, -8212,
                -3357, 13375, -3357, 13375, 2625, 13375, 2625, -8961, -627,
                -8961, 13598, -5948, 9799, 6969, 5745, -13085, -7894, 1972,
                -2630, -14299, 7089, 6587, 15098, 12752, 19892, 14566, 7061,
                1763, 19519, -10969, 2693, 791, -1466, -7426, -9140, -7426,
                -5318, 5007, 4761, -3808, 4761, 16897, -1418, 16897, -1418,
                16897, 1948, -9237, 1948, -9237, 45, 5073, 45, 5073, 902,
                13895, -15836, 10358, -8216, 6489, -15305, 8494, 12958,
                11634, 10031, -9504, -10823, 3452, 22943, 584, 22943, 14883,
                3835, 7600, 3835, 7600, 1619, -10565, -1728, 15219, -1728,
                15219, 1881, -19060, 1451, -8919, -2692, 10595, -5569, -490,
                -15033, 153, 12698, 4662, 12699, 8579, 3138, 4936, 3138,
                4936, 11226 >>,
            zc |-> << -6372, 4241, -11739, -631, 5520, -1020, -4023, -4174, -4023,
                -4174, -4434, -4174, -4434, -4174, 8205, 16480, 4281, 14797,
                10613, -1065, 4273, -5853, 11917, -7811, 14301, 17508,
                -8679, 6150, -5255, 13588, 570, -3340, -8414, -3340, -8414,
                -3340, -8414, -15355, 26199, 110, 7144, 9868, 7144, 15760,
                -5352, 1527, 4688, 4153, 4688, -3094, 4562, -13236, -25235,
                29828, 363, 14155, 1572, 14155, 23577, -2298, 20169, -3163,
                16369, 26345, 2373, 8288, -16683, 431, -5207, -27593, -256,
                -4327, -12344, -6362, -12344, -2013, -6968, 13434, -2386,
                6895, 9093, -8359, 17396, -4730, 17396, 4358, 2376, 12004,
                -4095, 8174, -12260, -1359, 9371, -3237, 9371, 18220, 1679,
                -10011, -2136, -9695, -1656, 4562, 22192, 4562, 22192,
                -1512, -430, 190, -430, -2672, 6550, -2672, -15048, 2919,
                2645, 1647, 2645, 1647, 2645, -10622, 2645, -10622, 4992,
                -14404, -5186, -11045, 6902, -11045, 6902, -5832, 14858,
                3641, 14858, 3641, 14858, 3641, 15674, -11691, 15674,
                -11691, 15674, 5752, -32573, 7022, -32573, 2270, 14533,
                -1309, 1480, 5187, 1480, 8464, 1480, -10230, 513, -5037,
                -2264, 4021, 16384, 1335, 16384, 1335, -7579, -8808, -7579,
                244, -7579, -1473, 7698, 27257, -283, 5408, 1713, 10737,
                -5491, 10737, -18186, -4784, 15840, 626, -6907, -1514,
                -6907, -7533, -6907, -7533, -6907, 8998, 5466, 4666, -13785,
                202, 29549, -8361, 29549, -8361, 29549, 1494, -6289, 12063,
                -9439, 15332, -13544, -1374, 6186, -1927, 9134, -23870,
                9134, -23870, 1303, -10063, 3822, -10063, 3822, -3863,
                -18216, -4785, -18216, -6999, -1615, -3960, 6441, -3960,
                -6805, 13107, 5373, -8245, 3247, 10057, -35070, 1808, -2482,
                5963, -9060, 7807, 2693, 7807, 2693, 7807, -4283, 5757,
                -4283, 1239, 6851, 7428, 6851, -5266, -716, 8011, -716,
                6048, -5525, -169, 7620, -169, 15, 15587, 15, -16709, 8611,
                -16709, 8611, -16709, 8611, -16709, 7468, -1721, -1262,
                -6647, -1262, -13495, 4718, -11688, -14948, -23130, -300,
                6122, 2272, 6122, 3611, -7867, 3808, -7867, 4927, -12343,
                5592, 2547, 10196, 1595, 10196, 1595, 10196, 1595, 2874,
                -3769, 2874, -3769, 18244, -3769, 18244, 6356, -8734, 6801,
                -8734, 6801, -8734, -9793, 5389, -8025, 12643, -8025, 12643,
                7787, -4374, 11410, -2129, -5812, -4605, -12492, -4605,
                -12492, -4161, -5010, -7727, -5010, 3154, -11422, -6986,
                -11422, 2993, 4854, 2993, 4854, 12723, -7999, -12302, 1233,
                -6085, -381, 4110, -7004, 4110, -7004, -2463, 9753, -2416,
                -3886, 8116, -3886, -17042, -1547, -2635, 21043, -2635,
                21043, -5194, 1873, -4610, -3301, -7172, 6167, 11987, 4695,
                11987, 4695, 11987, 4695, 8150, -1468, 3783, 10144, 3783,
                10144, 3783, 10144, 9002, 5085, -7799, 5085, -7799, -285,
                -6478, 9561, -3636, 10425, 1665, -6614, 8429, -5301, 545,
                -10431, 545, 1489, -6136, 1489, 10293, -4592, 10293, -4592,
                10293, 6076, 10293, 6076, 10293, 6076, -11950, -346, -3593,
                -2072, -10484, -20108, -880, 4981, -3939, 7601, -8963, 7601,
                -20026, 918, 7362, -6153, 9816, 5195, 9664, -3561, 2615,
                10367, 7948, 12132, 18529, 5356, 5601, -18636, 10888,
                -18636, 10888, -18636, 5155, -11576, -4901, 5505, 1559,
                3634, 1559, -2399, -10539, 3933, 10245, 2779, 10878, 1045,
                -9543, 14014, -9543, -12845, -19969, -1260, -8802, 16966,
                24059, 22479, 202, 27044, 18728, 27044, -1646, -2533, 1659,
                -2533, -14261, 108, -14261, 108, -5851, -5099, -5851,
                -11492, 6890, -11492, -13939, -1542, 4090, -7860, 4090,
                -2593, 11273, -2593, 11273, 1022, 11273, 1022, -24875, 3647,
                -24875, -1286, 8878, -7661, 6212, 11129, 10720, -4101,
                -2197, 12426, -3501, -8403, 14713, 16314, 20516, 16029,
                4084, 6709, 14751, 24350, 816, -3256, 14028, 51, -5297,
                9013, -5297, -7822, -2800, -3548, -5021, -3548, -2060,
                14329, -2060, 14329, -2060, -3544, 9688, -3544, 9688, 1657,
                145, 1657, 145, 3481, 16222, 8225, -8132, 9155, -15430,
                6325, -12596, 11258, 9839, 9754, 11729, -14343, -997, 7890,
                6908, 7890, 7037, 6714, 4635, 6714, 4635, 11664, 1376, 7685,
                -5999, 7685, -5999, 17045, 2549, -19238, 323, -5799, -7555,
                4200, -11753, -781, -15070, 110, 10015, 13250, 3404, 8492,
                1563, 8492, 1563, 4488 >>,
            k |-> << 2, 2, 2, 2, 2, 2, 4, 8, 2, 6, 4, 4, 2, 2, 2, 2, 2, 2, 2, 2,
                2, 2, 2, 2, 2, 2, 2, 2, 2, 2, 2, 6, 6, 4, 4, 2, 2, 2, 2, 2,
                4, 2, 2, 2, 2, 2, 4, 2, 2, 2, 2, 2, 2, 2, 2, 4, 2, 2, 2, 2,
                2, 2, 2, 2, 2, 2, 2, 2, 2, 2, 2, 2, 4, 2, 2, 2, 2, 2, 2, 2,
                2, 2, 4, 2, 2, 2, 2, 2, 2, 2, 2, 2, 4, 2, 2, 2, 2, 2, 2, 2,
                2, 4, 4, 2, 2, 2, 4, 2, 2, 4, 2, 2, 2, 2, 8, 4, 6, 2, 4, 4,
                2, 2, 2, 2, 2, 4, 4, 2, 2, 2, 6, 6, 4, 4, 2, 2, 6, 4, 4, 2,
                2, 2, 4, 2, 2, 2, 2, 2, 6, 2, 4, 2, 2, 2, 2, 2, 2, 2, 4, 4,
                2, 2, 6, 2, 4, 2, 2, 2, 2, 2, 2, 2, 2, 4, 2, 2, 2, 2, 2, 2,
                8, 2, 6, 4, 4, 2, 2, 2, 2, 2, 2, 2, 6, 4, 4, 2, 2, 2, 2, 2,
                2, 2, 2, 2, 2, 2, 4, 4, 2, 2, 2, 4, 4, 2, 2, 2, 4, 2, 2, 2,
                2, 4, 2, 2, 2, 2, 2, 2, 2, 2, 2, 2, 2, 2, 2, 6, 4, 4, 2, 2,
                4, 2, 2, 2, 4, 2, 2, 2, 4, 2, 2, 2, 2, 4, 2, 2, 4, 2, 2, 8,
                6, 6, 4, 4, 2, 2, 2, 2, 4, 2, 2, 2, 2, 2, 2, 2, 2, 4, 2, 2,
                2, 4, 2, 2, 2, 2, 2, 2, 6, 6, 4, 4, 2, 2, 4, 6, 2, 4, 4, 2,
                2, 2, 6, 4, 4, 2, 2, 2, 2, 4, 4, 2, 2, 2, 2, 2, 2, 2, 4, 4,
                2, 2, 2, 4, 2, 2, 2, 4, 2, 2, 4, 4, 2, 2, 2, 2, 2, 2, 2, 2,
                4, 4, 2, 2, 2, 2, 2, 4, 2, 2, 2, 2, 4, 4, 2, 2, 2, 2, 2, 2,
                2, 2, 6, 6, 4, 4, 2, 2, 2, 2, 6, 6, 4, 4, 2, 2, 2, 4, 4, 2,
                2, 2, 2, 2, 2, 2, 2, 2, 2, 2, 4, 2, 2, 4, 2, 2, 10, 4, 8, 2,
                6, 6, 4, 4, 2, 2, 2, 2, 2, 2, 2, 2, 2, 2, 2, 4, 2, 2, 2, 2,
                2, 2, 2, 2, 2, 2, 2, 2, 2, 2, 2, 2, 2, 6, 4, 4, 2, 2, 2, 2,
                2, 2, 4, 2, 2, 2, 2, 2, 2, 2, 2, 2, 4, 2, 2, 2, 2, 2, 2, 2,
                2, 2, 2, 4, 2, 2, 2, 4, 2, 2, 4, 4, 2, 2, 4, 2, 2, 4, 2, 2,
                2, 2, 4, 2, 2, 4, 6, 2, 4, 4, 2, 2, 4, 2, 2, 2, 2, 2, 2, 2,
                2, 2, 2, 2, 2, 2, 2, 2, 2, 2, 2, 2, 2, 2, 2, 2, 2, 2, 4, 2,
                2, 2, 2, 4, 2, 2, 6, 4, 4, 2, 2, 4, 4, 2, 2, 4, 4, 2, 2, 2,
                2, 2, 2, 2, 2, 2, 2, 2, 2, 2, 2, 2, 2, 4, 2, 2, 2, 4, 4, 2,
                2, 2, 2, 4, 4, 2, 2, 2, 2, 2, 2, 2, 2, 2, 2, 2, 2, 2, 2, 2,
                2, 4, 4, 2, 2, 4 >>])
    @@ (823 :> [u |-> << 45, 623, 947, 890, 533, 223, 953, 252, 681, 629, 926, 883,
                260, 156, 335, 846, 730, 294, 908, 31, 357, 790, 452, 864,
                957, 331, 918, 717, 598, 500, 152, 601, 584, 381, 426, 463,
                576, 522, 369, 976, 96, 331, 583, 993, 597, 811, 732, 19,
                682, 544, 262, 401, 175, 359, 510, 967, 333, 591, 549, 893,
                504, 306, 809, 903, 258, 761, 358, 934, 180, 230, 581, 259,
                303, 925, 962, 70, 91, 14, 417, 288, 658, 158 >>,
            z |-> << 1279, 5237, -15175, 837, -15175, 8272, 10447, 8272, 10447,
                6508, -6917, -3348, -6917, -4501, 9293, 4727, -9223, 5367,
                11829, -847, 11829, -2335, 11017, 5950, -1094, 5950, 2220,
                7071, 217, -12069, 3197, 14688, -18135, -11989, -11923,
                24033, 7817, -22713, 2128, 8766, -2811, 8766, 12454, 5990,
                12454, 5990, 4699, -16779, 4699, -16779, -6276, -11937,
                -4695, 1711, 5180, -582, 9433, 11908, 9534, 106, -19475,
                9504, 8546, -2551, 8546, -6850, 5715, 4371, -5467, 4371,
                -15603, -8731, 4628, -416, -16566, -416, -16566, -416,
                -16566, 9580, -9642, 4425 >>,
            zc |-> << -4722, 1441, 1828, 9814, 1828, -11288, 14659, -11288, 14659,
                1971, -4816, 5372, -4816, -9417, -4398, 7106, 10375, -2698,
                -5797, -2782, -5797, 14349, -1432, -2388, 2981, -2388, 4273,
                15681, 25522, 29, -10907, 17802, 12899, -19166, -24056,
                -11562, 25970, 3994, -582, -17740, -6741, -17740, 3889,
                8031, 3889, 8031, 19221, 3158, 19221, 3158, -15070, -3636,
                -10809, -22426, 119, 1632, -17266, 22099, 1188, 9765, 432,
                -5941, -7891, 4252, -7891, 12665, -1864, -14510, -6472,
                -14510, 5271, -10710, -2132, -2457, -6434, -2457, -6434,
                -2457, -6434, -12756, 4484, -9761 >>,
            k |-> << 2, 2, 4, 2, 2, 4, 4, 2, 2, 2, 4, 2, 2, 2, 2, 2, 2, 2, 4, 2,
                2, 2, 2, 4, 2, 2, 2, 2, 2, 2, 2, 2, 2, 2, 2, 2, 2, 2, 2, 4,
                2, 2, 4, 4, 2, 2, 4, 4, 2, 2, 2, 2, 2, 2, 2, 2, 2, 2, 2, 2,
                2, 2, 4, 2, 2, 2, 2, 4, 2, 2, 2, 2, 2, 6, 6, 4, 4, 2, 2, 2,
                2, 2 >>])
    @@ (830 :> [u |-> << 458, 970, 631, 973, 988, 720, 590, 347, 548, 77, 951, 193,
                130, 192, 844, 645, 272, 194, 270, 960, 546, 389, 576, 735,
                580, 539, 427, 908, 982, 211, 619, 971, 301, 932, 174, 612,
                253, 961, 126, 128, 646, 411, 707, 596, 833, 912, 129, 722,
                907, 462, 986, 213, 686, 140, 749, 913, 317, 247, 773, 381,
                924, 317, 326, 234, 953, 366, 559, 214, 966, 805, 391, 411,
                609, 491, 565, 668, 366, 197, 218, 213, 794, 653, 168, 757,
                890, 191, 253, 666, 915, 198, 10, 868, 848, 616, 303, 958,
                700, 142, 119, 543, 794, 835, 168, 61, 773, 867, 633, 163,
                963, 170, 561, 109, 590, 229, 745, 897, 22, 937, 863, 785,
                976, 740, 321, 987, 444, 973, 541, 433, 440, 727, 960, 475,
                939, 320, 38, 142, 912, 66, 627, 693, 115, 246, 346, 251,
                20, 353, 495, 228, 958, 682, 851, 159, 640, 86, 931, 287,
                724, 682, 324, 924, 323, 157, 8, 464, 357, 97, 977, 984,
                341, 251, 355, 377, 618, 416, 363, 816, 305, 882, 744, 35,
                200, 957, 167, 952, 118, 310 >>,
            z |-> << 4776, 829, 2460, 6562, -17488, 6562, -17488, 6476, -7970,
                -3119, -2556, -3119, -2556, 4218, 4181, -13239, -8357,
                -6211, -21987, 565, -21987, 13069, 15927, 5385, 11496,
                -23641, 8499, 5234, 3220, 5234, 3220, -14252, 4064, -14252,
                3966, -14252, -10663, 3482, -10663, 3482, -10663, 16408,
                7408, 11625, 3923, 4784, 3923, 4784, -831, 3102, -8153,
                6739, -8153, 4162, 3177, -2551, -11155, 7966, -5700, 6822,
                -2204, -11397, -11321, 8954, -1329, 8954, -14368, -4385,
                -14337, -4385, -14337, 17447, -1921, 28199, 18800, -11433,
                -11769, -5959, -6685, 6352, 5914, -10139, 5115, 4295, -825,
                -6078, 8048, 6162, 3524, -15224, 3524, -15224, 3524, -15224,
                852, 14254, -7788, 14254, 1188, 14254, 5085, -3426, 4761,
                3386, 4761, 3386, -10549, 2311, -9591, 2311, -9591, 2120,
                -14219, 7529, 4415, -8547, 3445, -8547, 3445, -8547, 4290,
                -8547, 4290, -318, 4290, 387, -23117, -17632, 16785, 7131,
                -304, 7131, -1722, -1839, 14649, 1799, 14649, 1799, 14649,
                -6924, -3164, -7496, -12500, -620, -15643, -620, -15643,
                8572, 871, 8572, -2005, 4212, -6946, 10060, -1738, 10060,
                9323, -11439, 5401, -2234, -9072, -21448, -175, -21448,
                -7459, -7451, -12263, -7451, -12263, -7451, -12780, 14405,
                -12889, -18178, 11211, -5717, 6976, 3336, -3575, -9992,
                -3575, -9992, -3575, -9992, -3575, -9992 >>,
            zc |-> << -424, 2958, 684, 15920, 10410, 15920, 10410, -20337, 915,
                -2585, -3075, -2585, -3075, -3757, 9929, 8450, -6212, -8299,
                9316, 5546, 9316, -18804, 5199, 15811, 23601, 12748, -1508,
                -12691, 813, -12691, 813, 6469, -1863, 6469, -11539, 6469,
                17736, -8809, 17736, -8809, 17736, -6968, 16044, 3350,
                -6522, 2620, -6522, 2620, 8934, -242, 4221, -10356, 4221,
                -6011, 1911, 5796, -8040, -7355, 13197, -1898, 5126, -12028,
                -7395, -20272, 4501, -20272, 2975, 12404, -17423, 12404,
                -17423, -14237, 24581, -3658, 7340, 14392, -5203, -6404,
                -6566, -6174, 11326, 4699, -6601, 2826, 1047, -7582, -11934,
                2469, 10530, 9040, 10530, 9040, 10530, 9040, -365, 2127,
                4360, 2127, -10280, 2127, 4465, 3465, 3538, 9320, 3538,
                9320, 4181, -12443, 1503, -12443, 1503, -9177, 4738, -8295,
                2726, 11524, 4389, 11524, 4389, 11524, -503, 11524, -503,
                2786, -503, 4441, 14459, -19461, -4413, -402, 5658, -402,
                4207, -717, 9663, -6114, 9663, -6114, 9663, 3481, -4805,
                -12401, -7703, -22119, -238, -22119, -238, 4444, 2188, 4444,
                2068, -10195, 2364, -9528, 3525, -9528, 11481, 11893, -2234,
                5378, -4664, -5387, -2394, -5387, -2643, -12875, -7796,
                -12875, -7796, -12875, -15017, -14950, 18149, -11166, -4843,
                9312, -3538, 5211, -7196, -14536, -7196, -14536, -7196,
                -14536, -7196, -14536 >>,
            k |-> << 2, 2, 2, 4, 4, 2, 2, 2, 2, 4, 4, 2, 2, 2, 2, 2, 2, 2, 4, 2,
                2, 2, 2, 2, 2, 2, 2, 4, 4, 2, 2, 6, 2, 4, 2, 2, 6, 4, 4, 2,
                2, 2, 2, 2, 4, 4, 2, 2, 2, 2, 4, 2, 2, 2, 2, 2, 2, 2, 2, 2,
                2, 2, 2, 4, 2, 2, 2, 4, 4, 2, 2, 2, 2, 2, 2, 2, 2, 2, 2, 2,
                2, 2, 2, 2, 2, 2, 2, 2, 6, 6, 4, 4, 2, 2, 2, 6, 2, 4, 2, 2,
                2, 2, 4, 4, 2, 2, 2, 4, 4, 2, 2, 2, 2, 2, 2, 8, 4, 6, 2, 4,
                6, 2, 4, 2, 2, 2, 2, 2, 2, 4, 2, 2, 2, 2, 6, 4, 4, 2, 2, 2,
                2, 2, 2, 4, 4, 2, 2, 4, 2, 2, 2, 2, 2, 4, 2, 2, 2, 2, 2, 2,
                2, 4, 2, 2, 2, 6, 4, 4, 2, 2, 2, 2, 2, 2, 2, 2, 2, 2, 8, 8,
                6, 6, 4, 4, 2, 2 >>])
    @@ (831 :> [u |-> << 994, 405, 582, 250, 473, 442, 565, 346, 795, 308, 673, 790,
                258, 381, 126, 523, 237, 76, 524, 436, 863, 953, 268, 978,
                623, 109, 431, 207, 598, 692, 678, 346, 391, 401, 751, 730,
                692, 78, 93, 573, 586, 875, 448, 210, 111, 132, 247, 659,
                762, 405, 802, 492, 235, 972, 107, 264, 552, 109, 663, 829,
                341, 686, 986, 919, 974, 840, 647, 421, 134, 745, 203, 273,
                853, 524, 920, 543, 689, 761, 976, 2, 187, 244, 669, 662 >>,
            z |-> << -15213, 15472, -15213, -1768, -26068, 19909, -19279, 11311,
                -6424, 10921, 10704, -6756, -6933, -9405, 662, -15964,
                -1061, 465, -26393, 10860, -8505, 549, -8505, 549, -8505,
                -1660, -13903, 4441, 16297, 10920, -11332, -11395, -14887,
                14592, 8340, 9150, -5031, 18607, 1549, 18607, 9961, -1425,
                -14342, -2828, 7648, -3831, 7648, 11950, -5201, 12876, -329,
                -15934, -3057, 3740, -3057, 3740, -9651, 3139, 9928, -4848,
                12886, 4338, -9849, 4338, -9849, 4338, -9849, -10544, 3971,
                -7850, -6550, 7039, 822, 8254, 836, 18957, 10702, 7723,
                -5842, 7723, -5842, 7723, 12011, 12190 >>,
            zc |-> << 5059, -17666, 5059, -16511, -12165, -17418, 8229, -5860,
                9932, -12017, 6402, 8139, -14145, -2978, -10735, 1404, -656,
                -8095, 10153, -1888, 2676, 2135, 2676, 2135, 2676, -9464,
                -3260, -13167, 8352, 11776, 13133, -16138, -16381, -5724,
                9108, 10948, 2303, 15788, -8621, 15788, 2283, 10438, -2537,
                -2108, -12150, -5570, -12150, 7248, 14363, -4043, 14168,
                -423, -5103, -16668, -5103, -16668, 1303, -7509, 4923,
                10085, -10942, 10028, 18492, 10028, 18492, 10028, 18492,
                -2263, -5901, 6502, -8574, -4522, 11724, 486, 8140, 4322,
                7741, -11630, -7142, -11630, -7142, -11630, 12542, 8203 >>,
            k |-> << 4, 2, 2, 2, 2, 2, 2, 2, 2, 2, 2, 2, 2, 2, 2, 2, 2, 2, 2, 2,
                6, 4, 4, 2, 2, 2, 2, 2, 2, 2, 2, 2, 2, 2, 2, 2, 2, 4, 2, 2,
                2, 2, 2, 2, 4, 2, 2, 2, 2, 2, 2, 2, 4, 4, 2, 2, 2, 2, 2, 2,
                2, 6, 6, 4, 4, 2, 2, 2, 2, 2, 2, 2, 2, 2, 2, 2, 2, 6, 4, 4,
                2, 2, 2, 2 >>])
    @@ (837 :> [u |-> << 891, 403, 541, 5, 665, 177, 441, 489, 639, 340, 532, 125,
                131, 738, 896, 255, 290, 390, 136, 532, 709, 397, 282, 117,
                590, 214, 114, 302, 697, 616, 844, 206, 213, 524, 84, 418,
                282, 216, 163, 117, 853, 700, 612, 195, 28, 245, 927, 683,
                903, 984, 217, 676, 211, 671, 747, 301, 333, 829, 360, 860,
                296, 529, 388, 948, 413, 325, 9, 121, 849, 823, 677, 435,
                945, 869, 317, 794, 160, 402 >>,
            z |-> << -2218, 9785, -1672, -2312, -10082, -2312, -5225, 22500,
                -13945, 4158, -10640, 4780, 3933, 4780, -2810, -8630, -8021,
                -10051, 1011, 18284, -7683, -15452, -6207, 2252, -13646,
                -3269, -3462, 10793, 8947, 10687, -4079, -6205, 1286, -8573,
                -1573, -16424, -9219, -5485, 4501, 8593, 4501, 8593, -12328,
                1267, 2122, 1267, 2122, 6308, 6747, -10671, 6747, -10671,
                6474, 11692, -8425, -10412, 9832, -4503, 9460, -4266, 2673,
                -23443, 5443, -1140, -17400, 5289, 2978, 5289, 2978, 5289,
                -6732, 6421, 10288, -3908, 10288, -4946, -3265, -13475 >>,
            zc |-> << 8995, -22994, 139, -12783, 5175, -12783, -28730, -1711,
                12178, -20760, 909, 2882, -6061, 2882, 4550, -10079, -15346,
                -3026, -11175, 2866, 15659, -7305, -3534, -9554, 4304,
                -2425, -6754, -10779, 15219, 3604, 4785, -6363, -14818, 514,
                -8030, -6152, -7059, -4625, 7916, 15382, 7916, 15382, 4539,
                -754, 4935, -754, 4935, 2872, -10796, 6547, -10796, 6547,
                -10859, 8100, 10513, -12434, -4960, 10652, -3655, 7578,
                -18691, 6099, -1355, 5904, -8654, 9663, 3216, 9663, 3216,
                9663, 18570, -926, -6383, 7894, -6383, 4296, -11348, -19916 >>,
            k |-> << 2, 2, 2, 4, 2, 2, 2, 2, 2, 2, 2, 4, 2, 2, 2, 2, 2, 2, 2, 2,
                2, 2, 2, 2, 2, 2, 2, 2, 2, 2, 2, 2, 2, 2, 2, 2, 2, 2, 4, 4,
                2, 2, 2, 4, 4, 2, 2, 2, 4, 4, 2, 2, 2, 2, 2, 2, 2, 2, 2, 2,
                2, 2, 2, 2, 2, 6, 4, 4, 2, 2, 2, 2, 4, 2, 2, 2, 2, 2 >>])
    @@ (853 :> [u |-> << 382, 41, 938, 219, 554, 53, 428, 754, 810, 610, 540, 951,
                95, 827, 807, 341, 740, 381, 768, 707, 201, 601, 49, 69,
                550, 359, 75, 647, 928, 667, 46, 406, 853, 249, 750, 94,
                896, 877, 400, 729, 226, 93, 925, 880, 628, 975, 520, 544,
                713, 427, 691, 369, 660, 541, 599, 703, 168, 971, 156, 803,
                63, 650, 539, 932, 653, 360, 592, 560, 866, 719, 978, 772,
                641, 295, 767, 949, 565, 766, 578, 617, 487, 204 >>,
            z |-> << -4505, 2826, -6432, 2826, -6432, -1002, 15349, 7241, 4344,
                8337, 6253, 4491, -5558, 4491, -5558, 12391, -6987, 13357,
                7611, -9290, 4384, -5495, -20738, 871, -20738, -6368, 2150,
                5903, 2089, -3463, -1125, 10802, -4371, 8297, -3744, -2549,
                15270, -2549, 15270, -8911, -2420, 2985, 2417, 2985, 2417,
                189, 27782, 17831, -5730, 17686, -9895, 14566, 5308, 22837,
                15989, -8520, 3886, 5455, 3886, 5455, 1838, 5455, 7506,
                1971, -12640, 11549, 13438, 10733, 4060, 6421, -13744, 6421,
                -13744, 9978, 15042, 890, 15042, 4336, 18686, -2622, -14482,
                -5283 >>,
            zc |-> << -1158, -14673, 779, -14673, 779, -6227, -4332, 5947, 12166,
                22531, 568, 4772, 10768, 4772, 10768, -8194, 14174, -5890,
                9861, 6461, -12877, 1237, 7404, -7500, 7404, -2103, -6179,
                2033, 5353, 1279, -5434, -2868, 6167, -8304, 2314, 9633,
                -6649, 9633, -6649, 7475, -1627, 8867, 652, 8867, 652, 4462,
                12570, 3721, 16903, -6693, 14486, -11877, 20343, 9618, 7783,
                5237, -4405, 20916, -4405, 20916, -5335, 20916, 682, 5554,
                13860, -17422, 20554, 1772, 6793, 12385, 9496, 12385, 9496,
                -7633, 3700, 6105, 3700, 14705, 12495, 23874, -633, -12168 >>,
            k |-> << 2, 4, 4, 2, 2, 2, 2, 2, 2, 2, 2, 4, 4, 2, 2, 2, 2, 2, 2, 2,
                2, 2, 4, 2, 2, 2, 2, 2, 2, 2, 2, 2, 2, 2, 2, 4, 4, 2, 2, 2,
                2, 4, 4, 2, 2, 2, 2, 2, 2, 2, 2, 2, 2, 2, 2, 2, 4, 6, 2, 4,
                2, 2, 2, 2, 2, 2, 2, 2, 2, 4, 4, 2, 2, 2, 4, 2, 2, 2, 2, 2,
                2, 2 >>])
    @@ (855 :> [u |-> << 243, 873, 645, 122, 507, 325, 540, 657, 809, 265, 174, 816,
                118, 994, 133, 398, 152, 619, 553, 296, 796, 768, 156, 90,
                932, 908, 807, 436, 756, 860, 281, 29, 780, 882, 275, 466,
                730, 996, 840, 520, 450, 272, 920, 395, 369, 722, 476, 602,
                347, 367, 99, 20, 578, 276, 778, 47, 730, 297, 120, 303,
                479, 881, 54, 837, 735, 319, 224, 902, 191, 551, 115, 812,
                616, 177, 271, 643, 425, 520, 891, 368, 240, 667, 839, 905,
                644, 86, 170, 810, 115, 387, 795, 583, 260, 265, 492, 304,
                964, 82, 697, 355, 927, 530, 801, 54, 865, 636, 602, 334,
                237, 836, 658, 77, 242, 546, 638, 276, 890, 498, 114, 707,
                138, 370, 289, 625, 546, 402, 945, 2, 23, 528, 386, 973,
                576, 161, 26, 307, 110, 271, 204, 221, 595, 870, 210, 836,
                286, 770, 805, 141, 109, 221, 374, 857, 283, 716, 581, 3,
                684, 548, 496, 974, 59, 941, 746, 820, 491, 84, 277, 350,
                429, 446, 719, 323, 782, 748, 659, 972, 780, 450, 283, 677,
                74, 531 >>,
            z |-> << 5192, 3423, -8573, 200, -20500, 4613, 20500, 10750, -6073,
                -7608, 4327, -1340, -2793, -10897, -2793, -10897, 3608,
                9422, -17990, 9453, 6330, -5830, -2775, 15506, -2775, 15506,
                -2775, 15506, 5713, -4286, 3726, -3503, 3726, -3503, -2645,
                17304, 758, -27507, 758, -27507, -17068, 3707, -1826,
                -16338, 14031, -1872, 24337, -16594, -12488, -7816, -16336,
                555, -16336, 9057, -9212, -6840, -9212, -6840, -3642, -2010,
                10356, 5064, -8793, 5064, -8793, -10809, 2623, -9999, 2251,
                -9999, 1186, 4442, -11554, -5617, 8356, -9787, 7374, 9875,
                -2791, -13129, 7505, 9477, -6874, 2590, -6874, -1666, 4324,
                -1666, -2647, 12662, 3803, -15561, -8845, -581, -19359,
                2415, -9951, 2415, -9951, 6054, 565, 14081, 3476, 12474,
                3476, 12474, -16487, -11697, 6274, 4622, -6020, -1114, 2878,
                20998, -13611, 5632, -32, -10209, 3462, -7409, -3475,
                -14272, 8631, 7955, -22353, 5900, 255, -23385, 255, -23385,
                3207, 655, -11779, -6744, -3236, -6744, -3236, -8535, -6269,
                4720, 10020, -3064, 5248, -5111, 9600, 6763, -3713, -5775,
                -2384, -5775, 9946, -4393, 9922, 6190, 5029, -2320, 5029,
                -2320, 4550, -369, 7308, -369, 7308, -369, -8599, -2296,
                -8823, -8902, -16005, 17297, -9468, 10825, 7046, 7837, 863,
                -17565, -2619, -17565, 9663, -5272, 580, 14199 >>,
            zc |-> << -3570, 8782, 3299, -10578, 838, -19733, 5294, 5483, 8004,
                -5492, -4441, 1112, -10088, -3178, -10088, -3178, -10475,
                21129, 4719, -6488, 6995, 4558, 13356, -3866, 13356, -3866,
                13356, -3866, 4062, 7083, 2728, 5956, 2728, 5956, -17550,
                -2548, 12331, 11651, 12331, 11651, -3704, -2010, 7347,
                -13090, -8215, 17821, -5546, 11181, -14388, -2579, 5720,
                -3404, 5720, -7247, 10495, -3650, 10495, -3650, -7032,
                -19161, -560, 7250, 11457, 7250, 11457, -7101, -1792, 1337,
                -13516, 1337, -1456, 11897, 4190, -7926, -13313, 18878,
                -26326, 526, 8320, -6625, -11662, 4674, 2399, 7283, 2399,
                1345, -4588, 1345, -9025, -4841, 13462, 5414, -9027, -17375,
                -777, -5093, 13665, -5093, 13665, -2038, 7805, 1446, 9317,
                16543, 9317, 16543, 10262, -7377, -4882, 9826, 2260, -1829,
                -15848, 7058, 8474, -3217, 9926, -33, -6434, 4250, -9668,
                -8790, -14494, 21535, 10610, -1294, -4267, 5884, -4267,
                5884, -768, 4055, 2659, -3328, -5502, -3328, -5502, -6620,
                -6639, -13756, 2587, 3924, -4515, 8066, -7572, 5981, 3162,
                -12805, -3343, -12805, -3494, 7263, -9908, 16435, 18979,
                30394, 18979, 30394, -36, 13339, 5628, 13339, 5628, 13339,
                -183, -4288, -13085, -19050, -20920, -4217, 11822, -6751,
                8003, 12205, 291, -4043, 14762, -4043, -11793, 2196, -7951,
                1475 >>,
            k |-> << 2, 2, 2, 2, 2, 2, 2, 2, 2, 2, 2, 2, 4, 4, 2, 2, 2, 2, 2, 2,
                2, 2, 6, 6, 4, 4, 2, 2, 2, 2, 4, 4, 2, 2, 2, 2, 4, 4, 2, 2,
                2, 2, 2, 2, 2, 2, 2, 2, 2, 2, 4, 2, 2, 2, 4, 4, 2, 2, 2, 2,
                2, 4, 4, 2, 2, 2, 2, 4, 2, 2, 2, 2, 2, 2, 2, 2, 2, 2, 2, 2,
                2, 2, 4, 2, 2, 4, 2, 2, 2, 2, 2, 2, 2, 2, 2, 4, 4, 2, 2, 2,
                2, 2, 4, 4, 2, 2, 2, 2, 2, 2, 2, 2, 2, 2, 2, 2, 2, 2, 2, 2,
                2, 2, 2, 2, 2, 2, 4, 4, 2, 2, 2, 2, 2, 4, 4, 2, 2, 2, 2, 2,
                2, 2, 2, 2, 2, 2, 2, 4, 2, 2, 2, 2, 2, 2, 4, 4, 2, 2, 2, 6,
                4, 4, 2, 2, 2, 2, 2, 2, 2, 2, 2, 2, 2, 2, 2, 4, 2, 2, 2, 2,
                2, 2 >>])
    @@ (857 :> [u |-> << 175, 24, 498, 792, 366, 296, 334, 667, 324, 215, 183, 883,
                563, 656, 574, 436, 677, 631, 76, 6, 847, 378, 465, 995,
                142, 538, 267, 565, 353, 573, 597, 986, 618, 460, 709, 534,
                598, 633, 644, 929, 398, 607, 379, 254, 413, 527, 497, 82,
                895, 366, 120, 837, 652, 791, 821, 239, 645, 527, 248, 454,
                743, 529, 371, 733, 826, 473, 917, 658, 393, 593, 81, 207,
                77, 597, 816, 560, 407, 23, 385, 931, 350, 897, 127, 827,
                204, 559, 340, 220, 818, 667, 418, 247, 952, 956, 784, 166,
                438, 726, 479, 174, 668, 988, 662, 3, 829, 341, 158, 5, 625,
                113, 263, 240, 697, 257, 597, 731, 342, 312, 903, 888, 152,
                537, 553, 407, 76, 2, 26, 492, 860, 116, 598, 434, 43, 287,
                758, 802, 20, 11, 742, 393, 102, 279, 225, 134, 758, 680,
                425, 710, 503, 669, 180, 339, 856, 334, 999, 331, 979, 521,
                597, 191, 693, 869, 916, 255, 122, 482, 441, 137, 269, 69,
                443, 596, 898, 798, 105, 766, 685, 351 >>,
            z |-> << 14632, -16, 14632, -5516, -14182, -10152, 12367, -12322,
                -10799, -5975, 1138, 1622, 19323, 8785, -16661, 18571,
                10739, -6644, -3669, -6360, -3669, -6360, 1539, -17122,
                1240, -17122, 4641, -19460, 9454, 18976, 1790, 18139, -7474,
                18139, 2982, 23649, 16887, 14179, 5939, -1624, 16041,
                -15860, -13967, -5387, 7934, -2884, -8484, -8790, -2721,
                -8790, 11461, 4505, 11461, 5576, -5473, 7014, 4060, -16395,
                -2920, 16479, 2043, -22523, 13920, 7622, -1049, 8453, 2396,
                -10945, 14877, -7630, 1698, 12268, 1698, 12268, 2507,
                -20499, -3435, -675, 6505, -1973, 7552, -4753, 1177, -4753,
                2797, -19450, -11528, 6132, 5346, -8731, -15129, -2257,
                -5500, -2257, -5500, -2257, 16801, -1640, -13032, 5110,
                -4842, -9666, -4842, -9666, -4842, -9666, -8661, -3268,
                -8661, -3268, -8795, 7934, -10636, 5986, 15317, -8589,
                -12938, 6176, 1297, 23224, 1297, 23224, -21562, -7352, -74,
                11430, -74, 11430, -13296, 2409, -13296, -5622, 7269, 9805,
                7269, -8534, -6385, -8534, -6385, -8534, -2997, -9228,
                -4791, 3835, 7781, -7415, 16916, 330, 20807, -10069, -5204,
                9031, -4119, 24802, 182, 24802, 182, 24802, -12601, 5998,
                7548, -5480, -1884, -5480, -482, -27853, -10983, -4189,
                -2750, -988, 21073, 8673, 762, -1599, 2488, 7525, -10780,
                -4019 >>,
            zc |-> << -86, -4448, -86, 12074, -9341, -12486, -12213, 11743, -6653,
                -5383, -937, 9883, 7759, 18602, 19369, -6656, 14516, 2067,
                10455, -22564, 10455, -22564, -107, 2875, -11393, 2875,
                -16435, 8702, -18888, 14300, 358, -3453, 22298, -3453,
                18273, 8191, 12473, 13111, 1997, 6868, -15161, 14176, -6855,
                -15256, -24887, 33899, -48, -3082, 8075, -3082, 6005, 9968,
                6005, 5053, 6756, -12532, 21668, 1779, -16103, -3093, 16761,
                5218, -7631, 5450, 12961, -536, 6320, 16323, -16843, 1706,
                -7350, 3786, -7350, 3786, 13018, 13548, -665, -2796, -1734,
                5708, -2830, 5256, -1342, 5256, -13937, 7228, -6595, -5381,
                10165, 17852, -4898, -12255, 4699, -12255, 4699, -12255,
                -4564, 17690, -839, -9900, 10067, -4494, 10067, -4494,
                10067, -4494, 2802, -5344, 2802, -5344, -8028, -10427, 8635,
                -14945, 6448, 12597, -10852, -2873, -11889, 16591, -11889,
                16591, 12314, -1612, -4673, -238, -4673, -238, 19986, -9366,
                19986, -807, 6207, -8053, 6207, -2284, 14589, -2284, 14589,
                -2284, -5396, -7425, -3594, -5428, 11134, 17910, -6007,
                18597, 460, 5338, -10360, -4058, 8882, 5512, 4038, 5512,
                4038, 5512, 3974, -9530, 3968, -3551, 3210, -3551, -10589,
                -8191, -1768, -6583, -1474, -7469, -12454, 2096, 1015, 1212,
                -3690, 10800, 13488, -21530 >>,
            k |-> << 4, 2, 2, 2, 2, 2, 2, 2, 2, 2, 2, 2, 2, 2, 2, 2, 2, 2, 4, 4,
                2, 2, 2, 4, 2, 2, 2, 2, 2, 2, 2, 4, 2, 2, 2, 2, 2, 2, 2, 2,
                2, 2, 2, 2, 2, 2, 2, 4, 2, 2, 4, 2, 2, 2, 2, 2, 2, 2, 2, 2,
                2, 2, 2, 2, 2, 2, 2, 2, 2, 2, 4, 4, 2, 2, 2, 2, 2, 2, 2, 2,
                2, 4, 2, 2, 2, 2, 2, 2, 2, 2, 2, 6, 4, 4, 2, 2, 2, 2, 2, 2,
                6, 6, 4, 4, 2, 2, 4, 4, 2, 2, 2, 2, 2, 2, 2, 2, 2, 2, 4, 4,
                2, 2, 2, 2, 4, 4, 2, 2, 4, 2, 2, 2, 4, 2, 2, 6, 4, 4, 2, 2,
                2, 2, 2, 2, 2, 2, 2, 2, 2, 2, 2, 2, 2, 6, 4, 4, 2, 2, 2, 2,
                2, 4, 2, 2, 2, 2, 2, 2, 2, 2, 2, 2, 2, 2, 2, 2, 2, 2 >>])
    @@ (864 :> [u |-> << 640, 978, 292, 567, 53, 74, 605, 28, 235, 245, 337, 277, 50,
                243, 527, 864, 306, 234, 337, 513, 648, 971, 28, 334, 331,
                303, 673, 334, 220, 900, 882, 356, 504, 211, 823, 370, 540,
                388, 658, 949, 917, 730, 818, 140, 171, 938, 142, 369, 754,
                950, 399, 957, 485, 91, 4, 221, 629, 700, 666, 985, 813,
                854, 12, 509, 222, 536, 971, 384, 865, 459, 980, 215, 475,
                529, 492, 55, 386, 311, 278, 847, 733, 211, 677, 125, 579,
                952, 940, 877, 544, 838, 748, 201, 160, 745, 842, 792, 78,
                975, 181, 273, 554, 694, 254, 357, 510, 597, 442, 516, 485,
                796, 342, 988, 196, 468, 340, 294, 262, 286, 117, 368, 760,
                805, 292, 505, 803, 904, 923, 158, 933, 167, 528, 488, 425,
                6, 80, 580, 431, 268, 412, 392, 639, 84, 772, 94, 751, 77,
                355, 928, 745, 991, 230, 699, 458, 385, 731, 442, 218, 640,
                604, 715, 428, 82, 99, 646, 586, 507, 331, 587, 705, 756,
                405, 32, 105, 144, 250, 465 >>,
            z |-> << 843, -6299, 5597, -6299, -3608, 1741, -3608, -7637, -7718,
                -7637, -12490, 1757, 11170, 1757, 11170, -4117, -10456,
                -7177, 1693, 21938, 2082, -12338, -213, -12338, -12328,
                10613, -11833, -11290, 2542, 700, -3159, 700, -14816, 5621,
                -4447, 6885, -22530, 15943, 4098, 7933, 2088, 7933, -2970,
                -2192, -3584, 13279, -3584, 13279, 5003, -1231, 5003, -185,
                -8956, 5877, 14449, 5877, 14449, 10330, 3501, -15310, 3501,
                -15310, 59, -15310, 1978, 4674, -807, 9832, -1225, 3837,
                24412, -1301, 24412, -8838, -6846, -1447, -15542, -11227,
                7438, 4716, -8498, 6546, -7805, 2140, 5755, 1238, 12240,
                1238, 12240, 4943, -7725, -4753, 4929, 6725, 4228, 4102,
                -5747, 4102, -5747, 4102, 18329, -10717, -7540, 1648, 25349,
                -12373, 8163, -22642, 14403, -5909, -1435, -20798, -1435,
                -20798, -12758, -10294, -8967, -6368, -2998, 13121, 7136,
                -6176, 511, 14121, -12625, 1096, -12625, 1096, -12625, 1096,
                -12625, -27158, -684, -16160, 1501, -16160, -16346, -5906,
                -17625, 16141, -6908, 909, -2580, 2308, -2193, -2168, 5995,
                1105, 7535, -3813, 7535, -3813, -22401, 14587, -4152,
                -14569, 6058, 12273, 15414, -5555, -8056, 10613, 2748,
                10613, 2237, -20807, 9018, 16537, 10111, -5370, -4299,
                -4306, -2269, -4306, -2269, -22888 >>,
            zc |-> << 248, 948, -17310, 948, 804, -7052, 804, -11987, -8015,
                -11987, -9115, -16186, 853, -16186, 853, 7734, -7633,
                -11752, -21122, 1925, 654, -12151, -604, -12151, -10535,
                -12043, 12392, -6692, -1776, -22303, 8398, -22303, 232,
                -5011, 11152, -21794, 8263, -11174, 1446, 5732, 3785, 5732,
                2634, -2401, -9798, -6820, -9798, -6820, -1099, 5520, -1099,
                5953, -312, -12649, 9353, -12649, 9353, 12432, 3097, 496,
                3097, 496, -3182, 496, -15085, 361, 3308, -3097, 11010,
                -325, -20778, -14909, -20778, 32312, -123, -5682, -9352,
                -9549, -4742, 7018, 6870, -10616, 3704, -10095, 1011, 10405,
                1623, 10405, 1623, 6741, 6416, -4187, -6806, 4834, 4952,
                -16997, -8092, -16997, -8092, -16997, 5146, 8485, -13018,
                -22334, 2720, 20961, -27930, 27146, -683, 11123, -13968,
                -4065, -13968, -4065, -9890, -8941, -9963, -3557, -8731,
                -6619, 6071, 9094, -18736, 263, 30855, -12670, 30855,
                -12670, 30855, -12670, 30855, -4281, -103, 18930, -7789,
                18930, -4870, -15702, -14222, -12535, 2313, -1386, 1735,
                -3720, 1303, -6333, -2025, 1930, -10159, 18557, -10159,
                18557, -8053, -7190, 16696, -2976, -12182, 16408, 7488,
                16870, -1373, 17870, -7529, 17870, 26351, 907, -17483, 7011,
                8102, 14588, -869, -6135, -16400, -6135, -16400, -6885 >>,
            k |-> << 2, 4, 2, 2, 4, 2, 2, 4, 2, 2, 2, 4, 4, 2, 2, 2, 2, 2, 2, 2,
                2, 4, 2, 2, 2, 2, 2, 2, 2, 4, 2, 2, 2, 2, 2, 2, 2, 2, 2, 4,
                2, 2, 2, 2, 4, 4, 2, 2, 4, 2, 2, 2, 2, 4, 4, 2, 2, 2, 4, 6,
                2, 4, 2, 2, 2, 2, 2, 2, 2, 2, 4, 2, 2, 2, 2, 2, 2, 2, 2, 2,
                2, 2, 2, 2, 2, 4, 4, 2, 2, 2, 2, 2, 2, 2, 2, 6, 4, 4, 2, 2,
                2, 2, 2, 2, 2, 2, 2, 2, 2, 2, 4, 4, 2, 2, 2, 2, 2, 2, 2, 2,
                2, 2, 2, 2, 8, 6, 6, 4, 4, 2, 2, 2, 2, 4, 2, 2, 2, 2, 2, 2,
                2, 2, 2, 2, 2, 2, 2, 2, 4, 4, 2, 2, 2, 2, 2, 2, 2, 2, 2, 2,
                2, 4, 2, 2, 2, 2, 2, 2, 2, 2, 2, 4, 4, 2, 2, 2 >>])
    @@ (873 :> [u |-> << 293, 773, 236, 131, 93, 465, 207, 162, 910, 720, 320, 897,
                140, 96, 483, 422, 117, 149, 285, 394, 913, 909, 278, 252,
                502, 52, 744, 897, 245, 947, 399, 405, 406, 106, 644, 568,
                718, 814, 287, 660, 309, 537, 346, 769, 253, 877, 215, 682,
                754, 645, 487, 502, 263, 730, 499, 789, 162, 840, 428, 706,
                465, 771, 786, 780, 683, 556, 285, 434, 443, 622, 728, 159,
                67, 993, 196, 828, 338, 765, 877, 711 >>,
            z |-> << 9825, -7282, -5123, -14467, -763, -14467, -5094, -9478,
                2519, -9478, 6739, -387, -26509, -387, -26509, -9780, -7574,
                -4611, -7574, 7715, -9538, -2550, -9538, 166, -6664, -2584,
                4473, -2584, -15577, -1288, -15577, -16224, -8962, 2891,
                9186, 16861, 8481, -5869, 9547, -12771, 3713, -20884, 12032,
                -7575, 5362, -2849, 6761, 11132, 7260, -1935, 7381, -17280,
                8969, -1, 14769, -5199, 2916, -2459, 17200, -3029, 15408,
                7054, 6561, 6929, 5697, -17468, -5216, -17334, 20829, 14315,
                -7415, -4930, 4923, -4930, 4923, -4930, 11772, 4627, 3722,
                -2992 >>,
            zc |-> << -7410, 7554, -3667, -1703, -9011, -1703, -4409, 11652, 4683,
                11652, -3043, -9239, -5775, -9239, -5775, -1986, -15397,
                -7529, -15397, -1973, -8520, 4716, -8520, -16759, 37, 4044,
                2746, 4044, -16564, 5758, -16564, -16381, -2121, -7881,
                19276, 5313, 5882, 8679, -12668, 10727, -19071, 5072, -6844,
                8256, -3506, 3784, -10545, 7988, 12714, 22129, -37518, 182,
                -9215, 17591, 0, 4470, -2884, 11775, -5924, 18408, -1930,
                6677, 6709, 10567, 18703, 4571, -17157, -20096, -9577, 7666,
                4966, 10019, -4542, 10019, -4542, 10019, -7160, 3258, 6640,
                18162 >>,
            k |-> << 2, 2, 2, 4, 2, 2, 2, 4, 2, 2, 2, 4, 4, 2, 2, 2, 4, 2, 2, 2,
                4, 2, 2, 2, 2, 4, 2, 2, 4, 2, 2, 2, 2, 2, 2, 2, 2, 2, 2, 2,
                2, 2, 2, 2, 2, 2, 2, 2, 2, 2, 2, 2, 2, 2, 2, 2, 2, 2, 2, 2,
                2, 2, 2, 2, 2, 2, 2, 2, 2, 2, 2, 6, 4, 4, 2, 2, 2, 2, 2, 2 >>])
    @@ (877 :> [u |-> << 89, 953, 301, 622, 2, 906, 602, 660, 247, 992, 236, 58, 246,
                410, 974, 241, 792, 88, 118, 129, 67, 981, 551, 440, 526,
                950, 975, 865, 695, 936, 469, 356, 427, 934, 273, 108, 786,
                664, 369, 742, 874, 209, 699, 560, 884, 26, 588, 821, 33,
                20, 577, 509, 942, 584, 17, 416, 451, 211, 61, 822, 98, 317,
                285, 635, 419, 553, 565, 400, 504, 564, 957, 886, 542, 535,
                207, 770, 252, 35, 290, 270, 243, 896, 15, 971, 532, 452,
                506, 55, 489, 268, 231, 485, 335, 741, 588, 765, 698, 53,
                177, 502, 784, 727, 960, 431, 190, 73, 855, 717, 955, 157,
                187, 809, 776, 102, 464, 74, 513, 890, 73, 518, 610, 832,
                378, 913, 303, 869, 912, 870, 252, 758, 744, 812, 326, 660,
                497, 62, 256, 300, 885, 423, 862, 591, 36, 598, 208, 56,
                677, 932, 390, 157, 706, 266, 890, 750, 436, 423, 497, 524,
                537, 519, 619, 299, 143, 161, 631, 184, 934, 736, 662, 26,
                938, 252, 231, 759 >>,
            z |-> << 9212, -798, 9212, 2054, 16543, 2054, 16543, -12089, -5242,
                3719, -5242, 3719, -5242, 3719, -20632, 7447, -20632, 378,
                -20632, 378, -20632, 378, -20632, 11436, 6393, 4087, 3866,
                4087, 3866, -517, -21638, -9602, 7043, -1343, -5482, 2045,
                6412, -11584, 13604, 5645, -2817, 6702, 5422, 9881, 12280,
                707, 12280, 534, 3340, 534, 3340, 6984, 1213, -2850, -498,
                -12942, -14429, -11558, -2944, -11558, -2944, -11558, 8814,
                -10950, 14156, 20704, -20053, 1034, 28513, 5524, 18886,
                1098, 18886, -14431, 6465, -7528, -10201, -9103, -10201,
                -9103, 4017, 332, -24155, 332, -24155, 4450, -6854, -160,
                -17536, -8887, -828, -20964, 12113, 5624, 14452, 7677,
                -2787, 15029, 92, 15029, 7039, -13193, -789, -13193, 4442,
                -3716, 4442, -3716, 5038, -3716, 5038, 5742, -2975, -854,
                -7892, 254, 9939, 24107, 338, 24107, 11297, -4022, 7374,
                -2533, 7463, -3775, 8339, -3775, 8339, 8022, 7568, -5635,
                11731, -397, -7315, 6707, -8627, 6707, -1904, 10703, 2623,
                -4691, 967, -13212, 4758, 1597, 4758, -1651, -10929, 4877,
                -10309, 5288, 2948, -3960, -19605, -806, 34542, 26018,
                14207, 23509, -14982, -7788, -1770, 4096, -11393, 8432, 985,
                8432, 7500, -8234, 7500, -8234, 7500, -6427 >>,
            zc |-> << -14844, 1828, -14844, 8131, 10563, 8131, 10563, 7715,
                -14844, -703, -14844, -703, -14844, -703, 17703, -6595,
                17703, 3548, 17703, 3548, 17703, 3548, 17703, -26145, 371,
                7633, 1735, 7633, 1735, 7305, -4655, -19007, -1177, 2577,
                -3167, -2797, 11174, 14602, -7311, 3653, 3637, -9742, 17887,
                1556, 3361, -3803, 3361, -3312, 27065, -3312, 27065, 151,
                6342, 500, -2880, -22131, -2440, -9827, -6481, -9827, -6481,
                -9827, -13925, 18490, -21413, 16870, 13089, -25358, 1789,
                782, 22898, 9960, 22898, 1733, -7005, 8203, -9291, -8155,
                -9291, -8155, -2597, 4757, 16727, 4757, 16727, -30291, 108,
                -6848, -786, -7639, -15708, -1805, -8273, 15324, 4816,
                10260, 1241, 119, -13239, 119, 8809, -2926, 5297, -2926,
                7272, -4072, 7272, -4072, -5079, -4072, -5079, 6438, 2070,
                -9472, -663, -7991, 345, 3965, -7915, 3965, 3767, 11035,
                -2160, 5345, -3964, 5639, -8003, 5639, -8003, 8465, 5931,
                10123, -12721, 21323, -50, -3465, -10546, -3465, 9646,
                -2242, 10444, 923, -4546, 4470, 1953, -3982, 1953, 6513,
                -3502, -8097, 9127, -3156, 4588, 15742, -16231, -27412,
                -3148, 16855, 27989, 3788, 8922, -4384, -1866, -10547, 4748,
                12256, 1807, 12256, -7760, -7589, -7760, -7589, -7760, 4984 >>,
            k |-> << 4, 2, 2, 4, 4, 2, 2, 2, 6, 6, 4, 4, 2, 2, 10, 2, 8, 6, 6, 4,
                4, 2, 2, 2, 2, 4, 4, 2, 2, 2, 2, 2, 2, 2, 2, 2, 2, 2, 2, 2,
                2, 2, 2, 2, 4, 2, 2, 4, 4, 2, 2, 2, 2, 2, 2, 2, 2, 6, 4, 4,
                2, 2, 2, 2, 2, 2, 2, 2, 2, 2, 4, 2, 2, 2, 2, 2, 4, 4, 2, 2,
                2, 4, 4, 2, 2, 2, 2, 2, 2, 2, 2, 2, 2, 2, 2, 2, 2, 4, 2, 2,
                2, 4, 2, 2, 4, 6, 2, 4, 4, 2, 2, 2, 2, 2, 2, 2, 2, 4, 2, 2,
                2, 2, 2, 2, 2, 4, 4, 2, 2, 2, 2, 2, 2, 2, 2, 4, 2, 2, 2, 2,
                2, 2, 2, 2, 4, 2, 2, 2, 2, 2, 2, 2, 2, 2, 2, 2, 2, 2, 2, 2,
                2, 2, 2, 2, 2, 4, 2, 2, 6, 4, 4, 2, 2, 2 >>])
    @@ (878 :> [u |-> << 131, 718, 319, 540, 601, 401, 221, 530, 368, 772, 371, 417,
                828, 956, 768, 837, 536, 854, 842, 876, 330, 807, 123, 650,
                325, 755, 354, 679, 350, 590, 31, 357, 464, 85, 83, 341,
                702, 671, 896, 422, 968, 737, 722, 509, 481, 637, 102, 114,
                70, 647, 744, 510, 224, 726, 946, 459, 317, 53, 359, 440,
                240, 617, 873, 642, 901, 535, 352, 89, 786, 143, 512, 381,
                895, 8, 446, 420, 710, 588, 927, 805 >>,
            z |-> << 4017, -9582, 4404, 22887, -15664, -13685, 1632, -22307,
                12760, -6065, -11771, 12096, 5994, 1329, 5994, 1329, 11559,
                1589, 10415, -3577, 10415, -2558, 3391, -13298, 11450,
                -7206, 13644, -11206, 10564, -4288, -859, -5390, -8546,
                12832, -2413, 12832, 10257, 7040, -1782, 4505, 732, 8944,
                732, -32039, 22442, -7877, 2010, 12811, 2010, 12811, 751,
                -15421, 7385, -19369, -599, -19369, -3532, -1545, -8516,
                -15458, 6173, 9455, 3383, 7550, 821, -21236, -6960, 421,
                -4656, 421, -23829, 8384, -21288, -229, -21288, 16702, 6849,
                7222, -1119, 3529 >>,
            zc |-> << -6764, 11633, -19466, 9209, 16141, -4831, -15137, 5085,
                -6169, 12887, -18355, -3025, 4767, 12354, 4767, 12354, 1185,
                1645, -5735, 7963, -5735, 2087, -8467, 11525, -7801, 12655,
                -11097, 13376, -17557, 827, -2829, -21495, -735, -10029,
                -6335, -10029, 12167, 3040, 9069, -749, 17949, 9542, 17949,
                15821, -3005, 2728, -5859, 7709, -5859, 7709, 16864, 611,
                -8987, -4344, 6547, -4344, -1442, -4909, -20055, -3548,
                -13656, 2977, 8862, 2679, 9255, 5127, -2500, -11627, 3748,
                -11627, 2598, -2505, -14370, -2091, -14370, -6311, 16312,
                1496, 1798, -1957 >>,
            k |-> << 2, 2, 2, 2, 2, 2, 2, 2, 2, 2, 2, 2, 4, 4, 2, 2, 2, 2, 4, 2,
                2, 2, 2, 2, 2, 2, 2, 2, 2, 2, 2, 2, 2, 4, 2, 2, 2, 2, 2, 2,
                4, 2, 2, 2, 2, 2, 4, 4, 2, 2, 2, 2, 2, 4, 2, 2, 2, 2, 2, 2,
                2, 2, 2, 2, 2, 2, 2, 4, 2, 2, 2, 2, 4, 2, 2, 2, 2, 2, 6, 4 >>])
    @@ (882 :> [u |-> << 638, 469, 502, 345, 0, 782, 367, 335, 838, 324, 913, 484,
                479, 522, 125, 363, 673, 607, 140, 800, 970, 453, 277, 167,
                897, 976, 331, 783, 648, 10, 635, 91, 978, 890, 830, 613,
                142, 593, 553, 832, 455, 225, 279, 390, 146, 472, 750, 134,
                27, 940, 159, 881, 833, 840, 10, 699, 650, 763, 228, 503, 1,
                319, 713, 660, 80, 501, 577, 0, 707, 545, 759, 336, 981,
                101, 992, 611, 121, 419, 324, 932, 227, 965 >>,
            z |-> << -4825, 2684, -21663, -5814, -14485, -5814, -14485, 9606,
                -4810, 6012, -334, -27236, 24611, -10696, -3252, 14241,
                9937, -10258, 3264, -17378, -468, -17378, -7845, 6204,
                11088, 6204, 11088, 6204, -7333, -10211, -7333, -10211,
                3879, -10211, 3879, -10211, 2776, 12247, 12433, -1673,
                -15131, -7423, -7470, -10501, -897, 16462, -5745, 10051,
                3133, 10051, 3133, 10051, 3133, 10051, 12280, 10051, 12280,
                -7577, 202, -895, 9496, 11636, 9496, -6108, 38, 27317, 3953,
                15767, 3953, 15767, -7458, -9331, -2104, -9331, -2104,
                -9331, -2104, -17731, 4835, -4997, 2564, -4997 >>,
            zc |-> << 21937, -33336, 343, 12442, -11641, 12442, -11641, -4671,
                9246, -2557, 8691, -20994, -22683, 638, -8953, -11147,
                16105, 3057, -3913, -3616, 4746, -3616, -5255, 11863, -6614,
                11863, -6614, 11863, 2425, 3231, 2425, 3231, 11323, 3231,
                11323, 3231, -10624, 21557, 1988, 12540, -2444, -9236,
                -15095, -3245, -11707, -1779, 3940, 13309, 3061, 13309,
                3061, 13309, 3061, 13309, 7007, 13309, 7007, 7349, -15619,
                6, 12681, -9837, 12681, 2328, -8358, 678, 18090, 2751,
                18090, 2751, 11807, 2737, -9889, 2737, -9889, 2737, -9889,
                -8146, -1959, 2585, 4963, 2585 >>,
            k |-> << 2, 2, 2, 4, 4, 2, 2, 2, 2, 2, 2, 2, 2, 2, 2, 2, 2, 2, 2, 4,
                2, 2, 2, 6, 4, 4, 2, 2, 4, 8, 2, 6, 4, 4, 2, 2, 2, 2, 2, 2,
                2, 2, 2, 2, 2, 2, 2, 10, 6, 8, 4, 6, 2, 4, 4, 2, 2, 2, 2, 2,
                4, 2, 2, 2, 2, 2, 4, 4, 2, 2, 2, 6, 6, 4, 4, 2, 2, 2, 2, 6,
                4, 4 >>])
    @@ (887 :> [u |-> << 109, 42, 599, 299, 796, 366, 880, 297, 329, 568, 743, 53,
                602, 429, 205, 548, 384, 457, 281, 585, 616, 580, 924, 239,
                828, 956, 909, 775, 464, 373, 951, 895, 476, 933, 966, 808,
                659, 191, 695, 311, 421, 512, 175, 995, 164, 299, 112, 835,
                206, 598, 477, 0, 246, 519, 593, 711, 925, 700, 792, 370,
                42, 936, 808, 165, 256, 675, 874, 594, 946, 300, 806, 129,
                447, 63, 408, 722, 941, 841, 651, 581, 779, 458, 682, 619 >>,
            z |-> << -16060, 1085, -16060, 9590, -5390, 8740, -3616, -10297,
                7456, 15869, -13438, 1327, -13438, -13769, 2341, -21689,
                -8137, -17676, 6330, 17995, 12726, 7492, -597, 6584, 1238,
                -1983, 1238, -1983, -22225, 4847, 7519, -573, 7519, 5524,
                -10722, 5524, -10722, 5980, -10870, -7274, 4303, -13124,
                -5103, -6540, -5103, -6540, 4435, -4457, 4435, -5674, 1290,
                25140, 1290, 25140, 16051, 4027, 2093, 9653, -5416, -4286,
                -4534, -5124, -4534, -5124, 8365, 7905, 2500, 5934, -1245,
                9401, -3101, -1514, -7107, -1379, 15843, 1948, 9790, 4362,
                9790, 14118, -2195, 19341, 9956, -5829 >>,
            zc |-> << 8000, -4984, 8000, -6471, 11949, -3073, 6808, -12180,
                -18543, 4471, 19407, -5798, 19407, -3304, -14172, 9156,
                -22266, -3409, -16215, 13124, 18489, 1419, 973, -5230, 1840,
                15192, 1840, 15192, -6316, -1358, -410, 9611, -410, 10723,
                5523, 10723, 5523, -9470, 11223, -17443, -26748, 512, -8523,
                -3385, -8523, -3385, -13131, 5108, -13131, 24604, -16407,
                5334, -16407, 5334, 7124, 1999, 4435, 6636, 12225, -1213,
                4175, -7048, 4175, -7048, -11604, 3702, 9856, 1263, 2789,
                -6116, 2565, -10685, -853, -6610, -6491, 981, 18232, 9873,
                18232, 4091, 14936, -4356, 15261, 22963 >>,
            k |-> << 4, 2, 2, 2, 2, 2, 2, 2, 2, 2, 4, 2, 2, 2, 2, 2, 2, 2, 2, 2,
                2, 2, 2, 2, 4, 4, 2, 2, 2, 2, 4, 2, 2, 4, 4, 2, 2, 2, 2, 2,
                2, 2, 4, 4, 2, 2, 4, 2, 2, 2, 4, 4, 2, 2, 2, 2, 2, 2, 2, 2,
                4, 4, 2, 2, 2, 2, 2, 2, 2, 2, 2, 2, 2, 2, 2, 2, 4, 2, 2, 2,
                2, 2, 2, 2 >>])
    @@ (895 :> [u |-> << 587, 525, 185, 898, 894, 176, 433, 524, 382, 578, 127, 87,
                460, 35, 649, 152, 891, 651, 755, 597, 819, 725, 765, 517,
                250, 440, 598, 692, 547, 508, 678, 785, 496, 968, 87, 896,
                398, 676, 78, 133, 525, 615, 448, 362, 760, 529, 184, 178,
                887, 493, 30, 745, 31, 331, 928, 666, 269, 410, 887, 197,
                10, 404, 68, 183, 830, 969, 384, 460, 215, 117, 221, 465,
                147, 478, 452, 59, 126, 237, 39, 232, 332, 144, 903, 660 >>,
            z |-> << 7324, -13522, 9735, -2591, 9735, -2591, 9735, -23386, 12526,
                -10209, -5281, -820, -5281, 959, -9695, 12421, 3015, 12421,
                5553, 12143, 5716, 9158, 1071, -16619, -3813, 20720, 16303,
                4633, 5076, 20288, 10684, -197, 5074, -2217, 16460, -2217,
                16460, -5545, 23449, 765, 23449, -9563, -20719, 12861, 1804,
                -13462, -4614, -4993, -171, -4993, -452, 5384, -452, 5384,
                2113, -12164, -6088, 9313, -1609, -6839, -205, -6839, -7677,
                4307, -7677, -871, -7677, -14753, -3511, -2773, -1883,
                -11699, -719, -27402, -6944, -7218, -3465, -7218, -8864,
                -7218, -8864, 12380, 2777, 12380 >>,
            zc |-> << 25063, 1097, -26196, -12608, -26196, -12608, -26196, 4927,
                -18673, 2156, -447, -8612, -447, -2981, 4166, 7365, 7797,
                7365, 14513, 3713, 8094, 7781, 15844, 1198, -15904, -12576,
                8329, 18658, 30124, 918, 6672, 14981, -40, 8695, -9410,
                8695, -9410, 2326, 5119, -11091, 5119, 21388, -7802, -6775,
                15953, 1260, -4519, -70, 10078, -70, -1259, -2114, -1259,
                -2114, 5422, 8803, -15633, -2157, 2063, -1516, -1050, -1516,
                -22446, -4123, -22446, 3530, -22446, -2056, -2610, -3813,
                -15097, -1153, -11785, -12479, -744, -11499, -4932, -11499,
                -4177, -11499, -4177, 8344, 6997, 8344 >>,
            k |-> << 2, 2, 6, 4, 4, 2, 2, 2, 2, 2, 4, 2, 2, 2, 2, 4, 2, 2, 2, 2,
                2, 2, 2, 2, 2, 2, 2, 2, 2, 2, 2, 2, 2, 4, 4, 2, 2, 2, 4, 2,
                2, 2, 2, 2, 2, 2, 2, 4, 2, 2, 4, 4, 2, 2, 2, 2, 2, 2, 2, 4,
                2, 2, 6, 2, 4, 2, 2, 2, 2, 2, 2, 2, 2, 2, 2, 6, 2, 4, 4, 2,
                2, 4, 2, 2 >>])
    @@ (896 :> [u |-> << 453, 636, 210, 270, 877, 551, 464, 655, 853, 689, 31, 857,
                187, 260, 166, 996, 883, 956, 596, 193, 505, 102, 598, 911,
                757, 543, 11, 385, 969, 733, 59, 996, 661, 417, 281, 850,
                920, 550, 60, 900, 255, 720, 346, 708, 686, 709, 468, 68, 5,
                685, 255, 675, 72, 197, 24, 466, 133, 75, 852, 430, 370,
                594, 748, 251, 437, 685, 826, 259, 815, 419, 36, 843, 735,
                405, 907, 735, 188, 843, 41, 877, 328, 509, 388, 959, 542,
                399, 826, 77, 169, 77, 353, 613, 25, 132, 357, 229, 686,
                687, 635, 301, 367, 0, 91, 684, 661, 598, 946, 456, 523,
                791, 124, 894, 339, 307, 647, 994, 686, 222, 797, 32, 244,
                849, 427, 419, 722, 179, 670, 107, 62, 580, 501, 935, 109,
                946, 978, 279, 551, 519, 240, 247, 223, 714, 437, 556, 849,
                664, 285, 958, 516, 436, 197, 832, 684, 129, 668, 939, 50,
                933, 31, 548, 704, 901, 461, 580, 390, 146, 264, 365, 643,
                920, 545, 837, 79, 869, 992, 432, 887, 709, 582, 963, 161,
                3, 43, 333, 411, 848, 294, 167 >>,
            z |-> << 21087, -12075, -6847, 6000, 1400, -16307, 20863, 9318, 4449,
                -3007, -5938, -3007, -5938, -7205, -12685, 1090, -12685,
                1090, -12685, 252, -9584, 2156, 7948, 1842, 2683, -2719,
                -9134, 3605, -9134, -899, -9134, -16320, -9134, -16320,
                7424, -6963, 974, -6963, 8639, -2629, 8639, -8989, 13057,
                10181, 11344, -2785, -7604, -11119, 8285, -11119, 8285,
                -5186, -306, -11036, -306, -11036, -2209, -19533, -2209,
                -19533, 12583, 14831, -8383, -4001, 18343, 9291, -5419,
                7643, -3254, -4820, -6146, 4833, -6146, 8243, 2473, -7927,
                4055, -3587, 1158, -3587, 1158, -24406, 4580, 521, -22708,
                11782, 12168, -2191, 12168, -2191, 12168, -3103, -12391,
                -3545, -12391, 7358, 11302, 10289, -14124, -9551, 2724,
                11129, 2724, 11129, 10257, 5862, -642, 14395, 14592, -3521,
                -12788, -3015, -12788, 10352, -10540, 6647, -10540, 6647,
                6123, -2368, 6123, -2368, -18321, 16255, -8181, 5322, -7253,
                633, 1240, 633, 7413, 4012, 10505, 4012, 10505, 4012, 10505,
                -16117, -7926, -7964, 7332, -5010, 17916, 11596, 4314,
                -12469, -27526, 217, -27526, -13569, 4837, 5088, -7777,
                3743, 4555, 18119, 503, 18119, 503, 18119, 5757, -878,
                23723, -18344, -10469, -4465, -7735, 14131, 6527, 885,
                12282, 9650, -200, 9650, -200, 9650, 3382, 6539, 4835,
                -9284, -1173, -9284, -1173, -9284, 11132, -4677, -8434,
                -2707 >>,
            zc |-> << -7168, 5719, -8628, -3645, 10320, 23843, -4705, 4101, 8278,
                3433, -7752, 3433, -7752, -5174, 3978, 5173, 3978, 5173,
                3978, -13977, 133, -8676, 1908, 2947, 15915, 241, 17936,
                -882, 17936, 477, 17936, -6149, 17936, -6149, -4638, 801,
                8095, 801, -9578, 4296, -9578, 12919, -9643, 11345, 10134,
                18342, -560, 8425, -11578, 8425, -11578, 2125, -4402, -996,
                -4402, -996, 11276, -10411, 11276, -10411, -17200, 5652,
                8406, -15868, -6182, 5281, 7355, -5832, 12683, -841, 15292,
                7058, 15292, -1914, 4277, 5989, -3679, 7896, -20649, 7896,
                -20649, 2111, -1107, 5619, 9605, -3632, -15777, -6309,
                -15777, -6309, -15777, 741, -6548, -9102, -6548, -10658,
                11255, 14216, 9661, -14305, -6034, 12692, -6034, 12692,
                16829, 1295, 6577, -26804, 1170, 2732, -10628, 7429, -10628,
                -13475, 7086, -6190, 7086, -6190, -4473, 11354, -4473,
                11354, -16575, -5883, 5690, -10002, 3151, 27045, -6757,
                27045, 32, -17328, 27839, -17328, 27839, -17328, 27839,
                1198, -8162, -7266, -9459, 17261, -19845, 1860, 9199, 9527,
                7294, 5895, 7294, -2855, -4407, 9176, 3861, -8242, 1744,
                4325, -4832, 4325, -4832, 4325, 2929, 9229, -11202, 13571,
                -3236, -6703, -13599, -13190, 2232, 8159, 1659, -1673, 1465,
                -1673, 1465, -1673, 6270, 16651, 857, -17430, -3214, -17430,
                -3214, -17430, -2833, 7936, -5202, -12063 >>,
            k |-> << 2, 2, 2, 2, 2, 2, 2, 2, 2, 4, 4, 2, 2, 2, 6, 4, 4, 2, 2, 2,
                2, 2, 2, 2, 2, 2, 8, 2, 6, 2, 4, 4, 2, 2, 2, 4, 2, 2, 4, 2,
                2, 2, 2, 2, 2, 2, 2, 4, 4, 2, 2, 2, 4, 4, 2, 2, 4, 4, 2, 2,
                2, 2, 2, 2, 2, 2, 2, 2, 2, 2, 4, 2, 2, 2, 2, 2, 2, 4, 4, 2,
                2, 2, 2, 2, 2, 2, 6, 4, 4, 2, 2, 2, 4, 2, 2, 2, 2, 2, 2, 2,
                4, 4, 2, 2, 2, 2, 2, 2, 2, 2, 4, 2, 2, 2, 4, 4, 2, 2, 4, 4,
                2, 2, 2, 2, 2, 2, 2, 4, 2, 2, 2, 6, 6, 4, 4, 2, 2, 2, 2, 2,
                2, 2, 2, 2, 2, 2, 4, 2, 2, 2, 2, 2, 2, 2, 2, 6, 4, 4, 2, 2,
                2, 2, 2, 2, 2, 2, 2, 2, 2, 2, 2, 6, 4, 4, 2, 2, 2, 2, 2, 6,
                4, 4, 2, 2, 2, 2, 2, 2 >>])
    @@ (897 :> [u |-> << 210, 701, 707, 596, 757, 806, 888, 457, 805, 404, 544, 753,
                803, 467, 266, 184, 778, 494, 550, 788, 807, 292, 265, 786,
                517, 923, 796, 501, 602, 965, 284, 160, 736, 135, 53, 131,
                537, 316, 235, 776, 997, 91, 934, 60, 520, 578, 201, 99,
                528, 339, 388, 722, 226, 426, 909, 360, 641, 143, 581, 982,
                382, 665, 497, 31, 763, 867, 732, 714, 650, 882, 42, 423,
                867, 749, 244, 35, 914, 905 >>,
            z |-> << 6764, 10614, 7457, 14482, 7213, 1572, -1082, 13758, -3964,
                10642, 16043, 7432, -1504, -17177, -7908, 5485, -292, 30122,
                14427, 6026, -6098, -10266, 8477, 931, 8107, 25169, 96,
                25169, 4289, 4957, -7881, 4957, -6273, 1099, -19408, 1099,
                -19408, -10896, 7494, 336, 26106, 336, 26106, 336, 26106,
                -13432, -449, 667, -20863, -11078, 14949, -9190, -3935,
                8448, -2455, 13705, -9595, 2513, 2932, -407, 15467, -276,
                -5123, 3989, 5132, 3989, 9189, 9219, 8254, 10470, -900,
                10470, 3852, -8314, -5042, 2827, -5042, 2827 >>,
            zc |-> << -9704, 10314, 16039, 5422, 6054, 1242, 9870, -1916, 12753,
                -22602, 2830, 6211, 13971, -2403, -5848, -6210, 15281,
                -3203, 2510, 5642, 9066, -9061, -6937, 14861, 344, 484,
                14475, 484, 945, -7131, -4985, -7131, 4063, -10877, 3938,
                -10877, 3938, -7583, -7170, -7175, 6865, -7175, 6865, -7175,
                6865, 3517, -335, -9345, 3722, -15930, -7494, 7478, -14574,
                -1522, 7222, -13491, 3809, -10918, 498, 1668, -11023, 21042,
                -24, 6316, 3682, 6316, 9932, 13149, 3254, -2163, -5417,
                -2163, 5690, 8090, 18561, 5986, 18561, 5986 >>,
            k |-> << 2, 2, 2, 2, 2, 2, 2, 2, 2, 2, 2, 2, 2, 2, 2, 2, 2, 2, 2, 2,
                2, 2, 2, 2, 2, 4, 2, 2, 2, 4, 2, 2, 2, 4, 4, 2, 2, 2, 2, 6,
                6, 4, 4, 2, 2, 2, 2, 2, 2, 2, 2, 2, 2, 2, 2, 2, 2, 2, 2, 2,
                2, 2, 2, 4, 2, 2, 2, 2, 2, 4, 2, 2, 2, 2, 6, 4, 4, 2 >>])
    @@ (902 :> [u |-> << 17, 171, 836, 745, 832, 954, 864, 360, 242, 941, 481, 15,
                270, 779, 666, 291, 815, 612, 93, 242, 572, 868, 345, 57,
                102, 57, 759, 260, 419, 610, 551, 170, 97, 96, 794, 97, 171,
                159, 749, 554, 569, 317, 771, 395, 933, 120, 967, 68, 461,
                57, 498, 996, 826, 140, 94, 872, 244, 342, 2, 878, 553, 364,
                595, 109, 368, 722, 594, 982, 930, 680, 774, 394, 56, 695,
                71, 0, 146, 808, 339, 163, 453, 581, 49, 557 >>,
            z |-> << 5042, 3534, 5042, 7046, -3553, -12877, -3553, -12877, -3483,
                -296, -3483, 6718, 8814, 6718, -12396, 8816, 4250, -7936,
                -2072, 4283, 10501, -3658, -4780, -5273, -7992, -5273,
                -7992, -5273, 18398, 10149, -12574, 467, -816, 467, -816,
                4858, -3371, 4858, 3518, 20657, -18133, 10811, -5306, 6596,
                -6883, -668, -6883, -668, -6883, -21, 1627, -3598, -2565,
                -3598, -7493, -3598, -7493, 1454, -20637, 1454, -20637,
                12073, -9096, -2815, 13997, 6682, 2523, 10827, 2023, 10827,
                -5210, -5949, 1444, -4449, 3342, -5571, 3342, -5571, -9784,
                -1701, 22494, -5840, 784, 20499 >>,
            zc |-> << 6922, -3453, 6922, 5199, 9300, -6971, 9300, -6971, -134,
                7018, -134, 11280, -7236, 11280, 9885, -5827, 11924, 2194,
                -3269, -15209, 2069, 8750, -1662, -15669, 8674, -15669,
                8674, -15669, -13458, 21496, 1984, -639, 597, -639, 597,
                -6637, -3251, -6637, 16015, 16336, 6880, -7271, 13725,
                -1598, -597, -7519, -597, -7519, -597, -7016, -4, 5246,
                2332, 5246, -12161, 5246, -12161, 10251, 8172, 10251, 8172,
                -17203, 2220, -8354, -8288, 15710, 494, 7120, 4824, 7120,
                13613, -1411, -3276, 2027, -3825, 10680, -3825, 10680,
                -4684, -12340, -12823, 1054, -6147, 9015 >>,
            k |-> << 4, 2, 2, 2, 4, 4, 2, 2, 4, 2, 2, 4, 2, 2, 2, 2, 2, 2, 2, 2,
                2, 2, 2, 6, 4, 4, 2, 2, 2, 2, 2, 4, 4, 2, 2, 4, 2, 2, 2, 2,
                2, 2, 2, 2, 6, 4, 4, 2, 2, 2, 2, 6, 2, 4, 4, 2, 2, 4, 4, 2,
                2, 2, 2, 2, 2, 2, 2, 4, 2, 2, 2, 2, 2, 2, 4, 4, 2, 2, 2, 2,
                2, 2, 2, 2 >>])
    @@ (905 :> [u |-> << 93, 615, 932, 289, 541, 773, 182, 72, 723, 638, 930, 610,
                580, 477, 610, 5, 447, 23, 303, 832, 42, 803, 998, 575, 92,
                510, 859, 573, 215, 86, 451, 276, 895, 898, 898, 726, 329,
                505, 577, 741, 786, 987, 912, 16, 717, 595, 259, 497, 849,
                202, 136, 571, 743, 360, 412, 208, 527, 409, 309, 61, 417,
                59, 539, 343, 924, 992, 878, 17, 730, 187, 138, 14, 879,
                510, 161, 546, 645, 401, 639, 386, 675, 9, 440, 796, 21,
                906, 480, 663, 951, 20 >>,
            z |-> << 2245, 6409, -1711, 3565, 15220, -6373, 8447, 1777, 8447,
                6012, 1704, 13413, -7032, 23960, -4055, -161, -4055, -8518,
                8718, -8518, 231, -8518, 231, -8518, 231, 11489, 2238,
                -14123, -17274, -992, -17274, 5361, 2904, -9055, 2904,
                -9055, 648, 27200, 15675, 8202, 6936, -15096, 6936, -15096,
                6936, -15096, -187, 11979, -3809, -3901, 2118, 15818, -7579,
                -11165, -13511, 1385, -24690, -16791, -3872, -1252, -6482,
                630, -20581, 5915, -8108, -3251, -8108, -3251, -8108, -3251,
                277, -12463, 277, -12463, 1661, 20755, -11407, 16974,
                -12808, 15658, 13908, -254, 13908, -431, 20907, -431, 20907,
                3787, 5141, -6046 >>,
            zc |-> << -7885, 1714, 3514, -18037, 2319, 5485, 13627, -3396, 13627,
                1934, 6622, 18361, 25775, -4805, -443, -1524, -443, 1585,
                -5158, 1585, -9038, 1585, -9038, 1585, -9038, 333, 10910,
                3660, -3737, -8479, -3737, -3031, 5110, 12033, 5110, 12033,
                -20728, 1864, 5046, 6909, 15812, 5986, 15812, 5986, 15812,
                5986, -17114, -90, 4475, -3195, -10770, 4644, 13181, -17862,
                -4055, -14578, 7567, -7944, -1684, -6627, -1218, -6957,
                5237, -2186, 5981, -2809, 5981, -2809, 5981, -2809, 10486,
                368, 10486, 368, -12216, 6557, 16975, -11953, 15651, -10160,
                -2793, -2095, -2793, 9065, -2462, 9065, -2462, 1376, -8243,
                3219 >>,
            k |-> << 2, 2, 2, 2, 2, 2, 4, 2, 2, 2, 2, 2, 2, 2, 4, 2, 2, 8, 2, 6,
                6, 4, 4, 2, 2, 2, 2, 2, 4, 2, 2, 2, 4, 4, 2, 2, 2, 2, 2, 2,
                6, 6, 4, 4, 2, 2, 2, 2, 2, 2, 2, 2, 2, 2, 2, 2, 2, 2, 2, 2,
                2, 2, 2, 2, 6, 6, 4, 4, 2, 2, 4, 4, 2, 2, 2, 2, 2, 2, 2, 2,
                4, 2, 2, 4, 4, 2, 2, 2, 6, 6 >>])
    @@ (908 :> [u |-> << 282, 735, 692, 449, 30, 62, 642, 721, 908, 419, 597, 47,
                929, 718, 735, 611, 433, 533, 4, 190, 18, 548, 912, 787,
                713, 544, 84, 902, 384, 625, 762, 492, 879, 639, 581, 498,
                89, 47, 811, 475, 374, 881, 984, 283, 942, 769, 543, 983,
                86, 271, 846, 32, 63, 845, 993, 196, 651, 428, 475, 750, 61,
                458, 413, 816, 554, 765, 532, 630, 536, 855, 649, 499, 392,
                117, 220, 397, 609, 591, 292, 252, 899, 695, 652, 817, 54,
                910, 444, 272 >>,
            z |-> << 9776, 8913, -4858, -4728, 13447, 1783, 13447, 4741, -1651,
                18087, -5405, 9763, 1738, 9763, 6883, -11866, 12460, -1525,
                366, 8550, 366, 8550, 3742, 6901, 3742, -8402, 15271, -2317,
                15271, 13259, -454, 10473, 3174, 10680, -525, -8903, -1077,
                -22929, -1077, -22929, 8895, 2204, 3469, 2204, 3469, 2474,
                3469, 7197, -2292, 7197, -8899, 5554, -8899, 5554, -8899,
                5554, -8899, -8966, 16473, -23147, -671, -23147, 12533,
                2263, 15345, 1922, 22248, 6220, 11546, 3963, -7, -24798,
                -9229, -2733, -4959, 16022, 14338, -16257, -10136, 4253,
                3022, 10279, 10658, -1168, -16929, -1168, -16929, -8899 >>,
            zc |-> << -9033, 10895, 18550, -508, 8665, -5463, 8665, 2571, 8387,
                -14940, 1162, 9027, 3423, 9027, 14588, 19993, -24676, 103,
                -3615, 1009, -3615, 1009, 17846, 9298, 17846, 903, -14018,
                8082, -14018, 6348, 16031, -205, 8619, 18357, 26938, -34,
                13656, -4499, 13656, -4499, -2921, -1079, 312, -1079, 312,
                15345, 312, -4757, -4142, -4757, 18932, -11136, 18932,
                -11136, 18932, -11136, 18932, -26013, -1612, -11146, -7067,
                -11146, -3429, 13126, 3154, 15718, 5531, 21988, 1200, 9410,
                21974, -10, -2593, -3739, -13510, -14960, 17156, 7203,
                -8487, -2639, 6156, 13210, 5109, 8578, -4172, 8578, -4172,
                -12383 >>,
            k |-> << 2, 2, 2, 2, 4, 2, 2, 2, 2, 2, 2, 4, 2, 2, 2, 2, 2, 2, 4, 4,
                2, 2, 4, 2, 2, 2, 4, 2, 2, 2, 2, 2, 2, 2, 2, 2, 4, 4, 2, 2,
                2, 4, 6, 2, 4, 2, 2, 4, 2, 2, 8, 6, 6, 4, 4, 2, 2, 2, 2, 4,
                2, 2, 2, 2, 2, 2, 2, 2, 2, 2, 2, 2, 2, 2, 2, 2, 2, 2, 2, 2,
                2, 2, 2, 4, 4, 2, 2, 2 >>])
    @@ (910 :> [u |-> << 129, 852, 290, 812, 591, 862, 342, 717, 632, 307, 292, 44,
                729, 130, 34, 41, 908, 965, 88, 942, 283, 819, 669, 987,
                356, 901, 293, 499, 400, 548, 846, 641, 21, 838, 551, 680,
                962, 728, 917, 902, 34, 623, 816, 388, 516, 696, 353, 288,
                28, 4, 381, 620, 735, 677, 532, 928, 283, 671, 110, 960,
                822, 732, 203, 822, 303, 956, 835, 459, 688, 378, 491, 402,
                811, 838, 595, 914, 560, 142, 621, 572, 890, 416, 782, 738,
                272, 671, 944, 941 >>,
            z |-> << 8848, -4541, 8848, 3683, 10458, -3868, 12772, 8554, -14357,
                -11080, -6357, -1050, -6357, -1050, 8411, -1050, 8411,
                -1050, 8411, -1050, 8411, 5335, 7517, -2917, 7517, -2917,
                -35, -25436, 10856, 11812, 4056, -818, 19055, 1842, 19055,
                1648, 992, 3910, 992, 11581, 992, 11581, -4178, 3606, 19214,
                -10090, -13395, 14186, 14867, 14186, 14867, 14186, 8744,
                3614, 7763, -1816, 9563, -7362, 5612, -8378, 5612, -8378,
                5333, -5497, 1334, 19065, -1501, 19065, -9678, -1582,
                -25485, 12478, 4243, 3207, 7834, 1220, -11190, 3418, 11521,
                9426, -1972, 13962, 7089, -8906, 9039, 4091, 16402, 1273 >>,
            zc |-> << -5933, 7640, -5933, 12557, 2647, 8901, -9248, 14016, 9921,
                -10260, 3947, 2143, 3947, 2143, -5709, 2143, -5709, 2143,
                -5709, 2143, -5709, 10052, -2680, 5671, -2680, 5671, -18802,
                -98, -22039, 1664, 9952, 242, 5437, 12147, 5437, 642, -3753,
                2145, -3753, 4495, -3753, 4495, 11903, -24161, 1622, 13526,
                -9307, 7287, -14563, 7287, -14563, 7287, 11617, 19881, 584,
                3591, -12062, 3251, 7786, 6558, 7786, 6558, -4899, 9032,
                -574, -4088, 12427, -4088, 15040, -23709, -2129, -3892,
                3900, 11410, 1799, 8315, 1906, -10050, 19295, 1750, 9272,
                -4107, 8391, 9355, -11996, 1575, 6952, 6366 >>,
            k |-> << 4, 2, 2, 2, 2, 2, 2, 2, 2, 2, 4, 10, 2, 8, 8, 6, 6, 4, 4, 2,
                2, 2, 4, 4, 2, 2, 2, 2, 2, 2, 2, 2, 4, 2, 2, 2, 6, 2, 4, 4,
                2, 2, 2, 2, 2, 2, 2, 6, 4, 4, 2, 2, 2, 2, 2, 2, 2, 2, 4, 4,
                2, 2, 2, 2, 2, 4, 2, 2, 2, 2, 2, 2, 2, 2, 2, 2, 2, 2, 2, 2,
                2, 2, 2, 2, 2, 2, 4, 2 >>])
    @@ (915 :> [u |-> << 908, 865, 236, 619, 559, 318, 21, 921, 754, 282, 332, 582,
                131, 158, 155, 660, 458, 147, 329, 922, 511, 284, 439, 688,
                104, 50, 985, 716, 309, 66, 320, 753, 651, 179, 651, 468,
                516, 50, 571, 569, 926, 212, 426, 524, 424, 608, 430, 832,
                47, 747, 523, 252, 436, 503, 787, 758, 21, 866, 494, 679,
                478, 699, 145, 316, 451, 872, 52, 53, 981, 815, 965, 744,
                31, 311, 328, 913, 620, 805, 435, 653, 690, 220, 157, 18,
                250, 721, 594, 113, 795, 653, 352, 985 >>,
            z |-> << 6130, -3791, 6130, 10189, -18648, 1263, -8223, 1263, -8223,
                -9447, 8745, -10321, 4432, -2479, 4432, -5318, -11617,
                -4303, 5651, 221, -18305, -4861, 18315, -6564, -4301, -9787,
                -4301, -9787, -4301, -1946, 11267, 7442, -10615, 5012,
                -4482, 14902, -6505, 965, 17722, 7535, 8692, -3573, 8692,
                -25822, 18987, -12539, 12161, 1606, -16617, 1606, -16617,
                -4052, 1803, 14893, 6792, -160, 20214, -160, 20214, -2440,
                18992, -7927, -4375, -5060, 10578, -11072, 6134, -11072,
                6134, -11072, 6134, -11072, 6134, -11072, 6134, 2159, 12065,
                -2830, 19368, 13194, -10332, -5432, 8461, 6741, 8461, 6741,
                -9285, 2016, 5882, -12804, -4614, -9380 >>,
            zc |-> << -13461, 5256, -13461, 20577, 6101, 2091, 9620, 2091, 9620,
                -12247, -17796, 2309, -9520, -2463, -9520, 20342, -1380,
                -8890, -2283, 8197, 967, -17253, -5896, 3132, -1894, 11130,
                -1894, 11130, -1894, -4697, -7974, 12465, 5015, -10619,
                21204, -28821, 239, -6058, 18153, 1235, -25912, -14011,
                -25912, 8455, -13129, 19631, -2533, 16637, 1601, 16637,
                1601, -15858, -28676, 207, 7529, 11165, -591, 11165, -591,
                20006, -2087, 4465, -8429, -18996, -1389, -12157, -2539,
                -12157, -2539, -12157, -2539, -12157, -2539, -12157, -2539,
                7394, 4778, 13448, -8128, 10595, 7046, -4428, -9531, 15720,
                -9531, 15720, 2279, -2637, 11311, 13296, 10562, -19189 >>,
            k |-> << 4, 2, 2, 2, 2, 4, 4, 2, 2, 2, 2, 2, 4, 2, 2, 2, 2, 2, 2, 2,
                2, 2, 2, 2, 6, 4, 4, 2, 2, 2, 2, 2, 2, 2, 2, 2, 2, 2, 2, 2,
                4, 2, 2, 2, 2, 2, 2, 4, 4, 2, 2, 2, 2, 2, 2, 4, 4, 2, 2, 2,
                2, 2, 2, 2, 2, 10, 10, 8, 8, 6, 6, 4, 4, 2, 2, 2, 2, 2, 2,
                2, 2, 2, 4, 4, 2, 2, 2, 2, 2, 2, 4, 4 >>])
    @@ (928 :> [u |-> << 586, 703, 35, 357, 821, 246, 141, 703, 546, 960, 549, 490,
                423, 989, 221, 159, 199, 236, 861, 6, 718, 477, 817, 985,
                97, 852, 778, 202, 552, 838, 683, 725, 180, 339, 799, 921,
                973, 102, 195, 921, 109, 986, 918, 699, 106, 887, 843, 395,
                966, 548, 916, 878, 116, 372, 105, 600, 14, 71, 688, 898,
                69, 230, 309, 655, 968, 287, 695, 891, 465, 797, 275, 862,
                848, 683, 974, 183, 524, 282, 72, 657, 518, 408, 9, 387,
                662, 28, 802, 361, 6, 290, 909, 763, 364, 737 >>,
            z |-> << 16630, 10817, -979, 10817, -5524, -5922, 4353, 4169, 5545,
                590, -5620, -27153, 1865, -4113, -5550, -4113, -6259, 5425,
                -1868, 13407, -1868, 13407, -6589, 4035, -6589, 4035, -6589,
                2472, 12158, 4878, 11413, -8109, -5192, 10953, 2356, -6295,
                2356, -6295, 2356, -6295, 2356, -6295, 2356, -6295, -3348,
                4119, -3348, 4119, 521, 8350, -2899, -8223, -2899, -8223,
                2229, -1906, 6395, 2077, 6395, -7430, 10665, -7430, 10665,
                2166, 6554, 10054, 6554, -872, 14219, -6530, 6809, 1028,
                4555, 1028, -18054, 1028, -18054, -3634, 2114, 2503, -25401,
                -1079, -848, 15871, -848, 5151, -5321, 5151, 1777, 5151,
                1777, -6614, 13503, -3398 >>,
            zc |-> << 7095, -4805, -3184, -4805, 7027, -4185, -7671, 18240, 559,
                5519, 29814, -3293, -291, -4667, -4535, -4667, -7142, -3951,
                18021, -958, 18021, -958, 6179, 5105, 6179, 5105, 6179,
                -13982, 1889, 8982, 9321, 5706, -10333, -5879, 4934, 3199,
                4934, 3199, 4934, 3199, 4934, 3199, 4934, 3199, 11036, -918,
                11036, -918, 5009, 975, -8739, -2653, -8739, -2653, -8774,
                394, 3025, -4713, 3025, -10527, -13042, -10527, -13042, 720,
                3275, -10910, 3275, 9794, -1665, 8668, -4213, -13437, 8643,
                -13437, 2009, -13437, 2009, -1852, -5728, 21274, 5159, -201,
                292, -10960, 292, -2637, 11632, -2637, 2762, -2637, 2762,
                12884, -7672, -1560 >>,
            k |-> << 2, 4, 2, 2, 2, 2, 2, 2, 2, 2, 2, 2, 2, 4, 2, 2, 2, 2, 4, 4,
                2, 2, 6, 4, 4, 2, 2, 2, 2, 2, 2, 2, 2, 2, 10, 10, 8, 8, 6,
                6, 4, 4, 2, 2, 4, 4, 2, 2, 2, 2, 4, 4, 2, 2, 2, 2, 4, 2, 2,
                4, 4, 2, 2, 2, 4, 2, 2, 2, 2, 2, 2, 6, 2, 4, 4, 2, 2, 2, 2,
                2, 2, 2, 4, 2, 2, 6, 2, 4, 4, 2, 2, 2, 2, 4 >>])
    @@ (933 :> [u |-> << 874, 346, 636, 587, 155, 841, 299, 111, 777, 732, 214, 815,
                4, 260, 765, 325, 260, 265, 889, 752, 419, 334, 541, 656,
                714, 238, 365, 616, 451, 668, 806, 388, 373, 620, 224, 231,
                123, 716, 216, 641, 923, 935, 983, 802, 914, 94, 99, 920,
                379, 704, 231, 503, 745, 237, 902, 914, 610, 56, 529, 641,
                44, 559, 111, 768, 765, 164, 164, 688, 445, 987, 760, 941,
                216, 278, 780, 977, 866, 806, 350, 974, 792, 48, 13, 921,
                247, 736, 276, 604, 513, 580, 476, 366, 380, 749, 397, 594,
                738, 457, 770, 825, 93, 472, 196, 396, 646, 494, 27, 102,
                109, 998, 729, 402, 403, 506, 269, 183, 785, 430, 73, 480,
                86, 101, 354, 223, 118, 78, 282, 717, 915, 122, 220, 798,
                702, 323, 101, 693, 849, 945, 899, 27, 266, 181, 84, 835,
                724, 470, 65, 636, 540, 340, 344, 820, 907, 205, 785, 0,
                695, 988, 466, 646, 752, 977, 494, 832, 647, 867, 205, 748,
                472, 314, 486, 595, 745, 785, 972, 997, 849, 96, 109, 499,
                928, 812, 371, 848, 362, 729, 126, 97, 12, 245 >>,
            z |-> << -3494, 12522, 11442, -11318, 2424, -4880, -6499, 2494, 7291,
                -8567, 5949, 8600, -7378, 8600, -7378, -11694, -8833, 5264,
                2947, -4845, -17954, 5011, 20535, 12852, -9673, -6668,
                13348, -9027, 19648, 10457, -4459, -15663, 14151, -13057,
                -7148, -4583, 3758, -9231, 6033, 6372, 14868, -2015, 14868,
                -2015, 14868, -2015, 14868, -2015, 14868, -9969, 230, 16843,
                -8372, 3339, -5811, 2013, -5811, 449, 21824, -4160, 759,
                -9715, 2728, 7443, -6199, -3248, 5026, -5351, 2722, 9089,
                -7051, 9089, -7051, 9089, 2743, -5424, 2743, -5424, 1292,
                -1368, 8301, -1368, 8301, -1368, 8301, -9024, 7089, 3187,
                26593, -7534, -22505, -13505, 13888, -5977, 15326, 15159,
                -2959, 15318, 6260, -13993, -619, -13993, -4292, 16535,
                -878, -4723, -6502, -16026, -6502, -16026, -6502, -16026,
                1646, -17588, -8000, 5363, -3435, -7563, -369, -8697,
                -12150, -2789, -12150, -3932, 9873, -2108, 9873, 4453, 6561,
                -2979, 6561, 6423, -10359, -6775, 3039, 8304, -7836, 5160,
                -7836, 5160, -7836, 5160, -2321, 5160, -2321, -7445, 1841,
                6390, -20423, -12540, 10472, 6195, 21366, 6195, 21366, -201,
                21366, -201, 21366, 12678, 12756, -46, 12756, 4557, 8959,
                -3040, 6580, -1855, -19597, -1422, 25446, 14925, 8067, 7852,
                -13, 7852, -13, 7852, -13, 7852, 10255, -4753, 10255, -3961,
                13548, -6181, -3804, -2391, -3804, -2391 >>,
            zc |-> << 8507, -14087, 17864, 2875, -2444, 8304, -3361, -3489, 8699,
                6981, -5383, -7741, 11253, -7741, 11253, -8500, -9032,
                -3168, 4545, 15161, -8748, -20108, 5421, 9378, 7946, -12983,
                -15348, 21649, -5655, 5763, 12287, -13774, -14830, 5721,
                -7342, -3269, -6524, 7049, -12077, 2131, -8754, 7030, -8754,
                7030, -8754, 7030, -8754, 7030, -8754, 7605, -15775, 268,
                7833, -2182, 1446, 7563, 1446, -6841, 4489, 1293, -5783,
                1496, -3940, 7543, 4900, -3252, -8927, 18580, -303, -7190,
                -9027, -7190, -9027, -7190, 3282, 11135, 3282, 11135, -406,
                2283, -8879, 2283, -8879, 2283, -8879, 9510, -15224, 24770,
                4456, 25677, -3963, -15119, -6636, 14527, -16580, 6020,
                16746, -2387, 5207, -1283, -9029, -1283, -12599, -11698,
                22143, -58, 15351, -16140, 15351, -16140, 15351, -16140,
                -25570, 475, -5832, -5942, 14178, -1227, -7959, -416, -6382,
                -7645, -6382, -2846, -9844, -4093, -9844, 2333, -6140,
                -4029, -6140, 9463, 11883, -3001, -6274, 4586, -5748, 7695,
                -5748, 7695, -5748, 7695, 17639, 7695, 17639, -507, -5870,
                21508, 5169, -12855, -5098, -6388, -4872, -6388, -4872,
                2928, -4872, 2928, -4872, 7366, -196, 4302, -196, 10314,
                3580, 3798, -7789, 16529, -2954, -19855, -3550, 5773, 6953,
                -9, -9938, -9, -9938, -9, -9938, -9, -3779, 11583, -3779,
                10005, -8126, 3804, -764, 9587, -764, 9587 >>,
            k |-> << 2, 2, 2, 2, 2, 2, 2, 2, 2, 2, 2, 4, 4, 2, 2, 2, 2, 2, 2, 2,
                2, 2, 2, 2, 2, 2, 2, 2, 2, 2, 2, 2, 2, 2, 2, 2, 2, 2, 2, 2,
                10, 8, 8, 6, 6, 4, 4, 2, 2, 2, 2, 2, 2, 2, 4, 2, 2, 2, 2, 2,
                2, 2, 2, 2, 2, 2, 2, 2, 2, 6, 4, 4, 2, 2, 4, 4, 2, 2, 2, 6,
                6, 4, 4, 2, 2, 2, 2, 2, 2, 2, 2, 2, 2, 2, 2, 2, 2, 2, 2, 4,
                2, 2, 2, 2, 2, 2, 6, 6, 4, 4, 2, 2, 2, 2, 2, 2, 2, 2, 2, 2,
                4, 2, 2, 2, 4, 2, 2, 2, 4, 2, 2, 2, 2, 2, 2, 2, 6, 8, 4, 6,
                2, 4, 4, 2, 2, 2, 2, 2, 2, 2, 2, 4, 8, 2, 6, 4, 4, 2, 2, 2,
                4, 2, 2, 2, 2, 2, 2, 2, 2, 2, 2, 2, 2, 8, 6, 6, 4, 4, 2, 2,
                4, 2, 2, 2, 2, 2, 8, 6, 6, 4 >>])
    @@ (937 :> [u |-> << 268, 84, 963, 11, 914, 474, 93, 98, 341, 81, 76, 586, 803,
                392, 418, 914, 164, 967, 298, 108, 946, 303, 966, 401, 746,
                659, 926, 378, 597, 772, 917, 508, 43, 735, 863, 585, 937,
                743, 97, 153, 970, 16, 593, 631, 988, 43, 867, 165, 855,
                904, 469, 325, 686, 909, 807, 453, 215, 38, 998, 626, 618,
                254, 913, 140, 122, 803, 998, 977, 642, 760, 372, 205, 277,
                141, 159, 734, 792, 476, 110, 593, 193, 443, 70, 773, 689,
                644, 273, 483, 457, 468, 393, 628 >>,
            z |-> << -3907, -9040, -525, -9040, -525, -9040, -6205, -2815, -6205,
                13037, 1540, 13037, -4417, -13846, 8063, 14783, -6322,
                14783, -6322, 14783, -1261, 14783, -907, 14783, 7926, 5731,
                -1897, 13479, 13936, 889, 168, -6001, 2473, 6376, 2473,
                6676, 17302, -4179, 17302, 482, 17302, 482, 17302, 2259,
                -1054, 2259, -1054, 2259, -20046, -690, -20046, 11948, 5939,
                -14632, -2083, -14632, -14011, 14057, -14011, 14057, -14011,
                3423, 2239, 325, 2239, 325, 12694, 325, 12694, -6492,
                -12242, -6655, -6978, -1390, 4931, 8400, -1196, -9958, 2201,
                -12772, -2513, -7488, 10449, 7285, 10449, -13276, -1290,
                -28857, -17961, -23510, 16153, 10225 >>,
            zc |-> << -2172, -561, 8620, -561, 8620, -561, -2347, -7134, -2347,
                3735, -7495, 3735, 12519, -18274, -1578, -5908, -3257,
                -5908, -3257, -5908, 2864, -5908, 4295, -5908, 12266, 2139,
                6654, -16888, 4964, 580, 8486, 109, 10526, 4127, 10526,
                1304, 12348, 2530, 12348, -2482, 12348, -2482, 12348, -2128,
                1157, -2128, 1157, -2128, -3515, 9111, -3515, -11231, 2699,
                -2411, 13638, -2411, 6779, 15002, 6779, 15002, 6779, -2035,
                -2789, 1093, -2789, 1093, 6930, 1093, 6930, 13278, -5293,
                -8783, -4335, -1462, -7184, 6731, 14570, -613, -9180, 3891,
                -13525, -992, 13674, 10500, 13674, 8488, -17724, -11199,
                -23968, -7045, -13357, 3768 >>,
            k |-> << 2, 6, 4, 4, 2, 2, 4, 2, 2, 4, 2, 2, 2, 2, 2, 10, 4, 8, 2, 6,
                2, 4, 2, 2, 2, 2, 2, 2, 2, 2, 2, 2, 4, 2, 2, 2, 8, 2, 6, 4,
                4, 2, 2, 6, 4, 4, 2, 2, 4, 2, 2, 2, 2, 4, 2, 2, 6, 4, 4, 2,
                2, 2, 4, 6, 2, 4, 4, 2, 2, 2, 2, 2, 2, 2, 2, 2, 2, 2, 2, 2,
                2, 2, 4, 2, 2, 2, 2, 2, 2, 2, 2, 2 >>])
    @@ (945 :> [u |-> << 477, 510, 339, 908, 974, 936, 391, 313, 99, 218, 849, 667,
                63, 230, 524, 345, 922, 706, 140, 26, 733, 475, 7, 80, 915,
                768, 761, 937, 325, 342, 992, 53, 129, 618, 845, 604, 833,
                78, 666, 856, 980, 569, 489, 544, 398, 791, 2, 404, 790,
                311, 511, 237, 120, 275, 398, 512, 93, 438, 963, 62, 61,
                370, 676, 218, 303, 766, 753, 737, 989, 146, 260, 922, 145,
                569, 835, 390, 322, 25, 832, 910, 538, 119, 972, 850, 485,
                992, 667, 123, 727, 75, 80, 73, 528, 781, 739, 529, 105,
                826, 600, 456, 222, 803, 358, 342, 804, 422, 13, 214, 961,
                573, 510, 586, 174, 886, 402, 316, 553, 884, 694, 367, 657,
                371, 368, 330, 467, 55, 457, 402, 341, 468, 370, 689, 380,
                776, 72, 172, 846, 421, 222, 801, 119, 572, 925, 389, 996,
                236, 472, 27, 959, 653, 496, 105, 985, 583, 635, 592, 484,
                395, 753, 234, 502, 329, 341, 305, 661, 782, 209, 438, 712,
                158, 10, 185, 407, 685, 808, 98, 409, 945, 441, 373 >>,
            z |-> << 15076, -21278, 6721, -1572, -15866, -1572, -15866, -6376,
                -1689, 5136, 4372, -4824, -21302, 1408, -21302, 6101, 2174,
                -7526, -1789, -2334, -1789, -2334, 1170, 7501, 1170, 7501,
                -11617, -1803, -11617, 10606, 3054, 10606, 3054, 10606,
                3314, 11421, 8869, 2299, 8869, -4177, 487, -4177, 30079,
                -22452, 13105, 13335, -6607, 13335, -6607, 1155, -16036,
                -4650, -3598, -6902, 3204, -9077, -1312, 5156, -1698, 14685,
                -1698, 14685, -10831, -7028, 10353, 7636, 8253, -4474, 3018,
                -4474, 3018, 12017, 2211, 12017, -3663, -15891, -10318, 826,
                -10318, 826, -10318, -483, 2458, -483, 2458, 3700, -8047,
                3700, -3406, 523, 15028, 523, 15028, 7135, 2094, -9655,
                -9721, 3644, -9721, -15024, 6542, -5354, -13801, 10904,
                -3345, -2374, 822, 3996, 822, 3996, 26212, -12143, -16560,
                -2326, -16560, 5495, 9978, 3493, -9761, 14399, -11990,
                -14281, -14530, -3920, -6729, -632, -22845, -16935, -4187,
                -22341, 14579, -9552, 13053, 3130, -2585, 3130, -2585,
                -14253, 6539, -2664, 1903, 7537, -1801, -1641, -4674, -1641,
                -4674, -533, 1115, -533, -9731, 18192, 421, 18192, 11868,
                -4266, -24652, 14331, -8049, 177, -20766, -11939, -12859,
                10559, 11358, -6569, -3004, 17336, -7922, -3661, 16806,
                -3661, 16806, 9820, 6068, -1938, 6068, -849, -20545, -11676 >>,
            zc |-> << -31299, 1411, -2632, 6341, -9187, 6341, -9187, -2973, -2405,
                -4134, 9093, 1857, 3358, -15598, 3358, -2229, 4459, 4314,
                17315, -114, 17315, -114, 1810, 7705, 1810, 7705, -12893,
                4510, -12893, 3640, -9546, 3640, -9546, 3640, 10928, 3588,
                4156, -5809, 4156, 27705, 3369, 27705, -7027, 9929, -4550,
                -4372, 10155, -4372, 10155, -19680, 677, -3212, -6079,
                -15338, -25013, 289, -8746, -679, -5769, -10719, -5769,
                -10719, 6808, -10081, -7613, 8032, 8789, -6606, -1710,
                -6606, -1710, 2499, -11207, 2499, 11197, -9836, 1055, 8733,
                1055, 8733, 1055, 11878, -71, 11878, -71, -6130, 3569,
                -6130, 1823, -7900, 1509, -7900, 1509, 8396, 16965, 722,
                22647, 11809, 22647, -2342, -5979, 11489, -12389, -5632,
                13202, -377, 5141, 27296, 5141, 27296, 3266, 3234, -8752,
                9245, -8752, -18801, 1396, 6883, 14326, -12123, 14678,
                -13984, -11284, -20251, -496, -6665, -9878, -10436, -20849,
                -5493, -9929, 15135, -5652, -2960, 11384, -2960, 11384,
                -4038, -6019, 2114, -9921, 1291, 6922, -15868, -269, -15868,
                -269, 21711, 3335, 21711, -93, 11226, 2440, 11226, 17455,
                25537, -3629, -5928, 7672, -15902, 361, -12786, -10497,
                -12681, 6508, 6392, -14121, -5040, 4932, -12475, -8354,
                -12475, -8354, 5907, -1237, -8584, -1237, 6512, -9400, -4763 >>,
            k |-> << 2, 2, 2, 4, 4, 2, 2, 2, 2, 2, 2, 2, 4, 2, 2, 2, 2, 2, 4, 4,
                2, 2, 4, 4, 2, 2, 4, 2, 2, 6, 4, 4, 2, 2, 2, 2, 4, 2, 2, 4,
                2, 2, 2, 2, 2, 4, 4, 2, 2, 2, 2, 2, 2, 2, 2, 2, 2, 2, 4, 4,
                2, 2, 2, 2, 2, 2, 2, 4, 4, 2, 2, 4, 2, 2, 2, 2, 6, 4, 4, 2,
                2, 4, 4, 2, 2, 4, 2, 2, 2, 4, 4, 2, 2, 2, 2, 2, 4, 2, 2, 2,
                2, 2, 2, 2, 2, 2, 4, 4, 2, 2, 2, 2, 4, 2, 2, 2, 2, 2, 2, 2,
                2, 2, 2, 2, 2, 2, 2, 2, 2, 2, 2, 2, 2, 4, 4, 2, 2, 2, 2, 2,
                2, 2, 2, 4, 4, 2, 2, 4, 2, 2, 2, 4, 2, 2, 2, 2, 2, 2, 2, 2,
                2, 2, 2, 2, 2, 2, 2, 2, 2, 4, 4, 2, 2, 2, 4, 2, 2, 2, 2, 2 >>])
    @@ (948 :> [u |-> << 262, 176, 262, 272, 542, 55, 191, 419, 699, 940, 239, 306,
                609, 292, 930, 187, 150, 781, 240, 145, 797, 234, 13, 187,
                403, 967, 588, 128, 559, 350, 74, 235, 569, 932, 100, 852,
                801, 198, 430, 813, 187, 579, 805, 643, 289, 240, 693, 974,
                200, 72, 902, 706, 44, 805, 554, 709, 193, 693, 722, 901, 9,
                858, 248, 800, 192, 722, 856, 103, 411, 594, 701, 558, 621,
                781, 738, 446, 745, 926, 958, 87, 886, 709, 866, 341, 578,
                681 >>,
            z |-> << -7559, -5554, -8939, 3186, -6683, 17030, -3393, 17030, 3350,
                8865, -7820, 8865, -15393, 3834, 4106, -3777, 4106, -6987,
                -5806, 3609, -6348, -3844, 4190, -3844, 4190, 824, -10090,
                1673, -19824, -6059, 7161, 3930, 7161, 3552, -5648, 3552,
                -5648, -3128, 12971, -4904, 3251, 13121, 5333, -13548,
                -9868, 7899, 2877, -153, 2877, -153, 2877, -153, 17718,
                2427, 17718, -9018, 6056, 10971, 5094, -4185, 7555, -4185,
                7555, -5562, 6157, 7080, 16976, -1978, 16976, 16294, 5161,
                20657, 12845, 7131, -3671, 16228, 2182, 7143, 3404, 7143,
                3404, 7143, -3774, 9017, 17701, 10674 >>,
            zc |-> << -5554, -7551, -9337, -17256, 632, -6894, -12975, -6894,
                1516, -15681, -10553, -15681, 8107, -1849, -5097, -3372,
                -5097, 7576, -4263, -4301, 7089, -12459, -863, -12459, -863,
                4343, 2410, -10532, 7838, -2126, 1142, -15045, 1142, 4157,
                5647, 4157, 5647, -13496, -2888, 4919, -12825, 3404, 11327,
                9268, -8010, -10560, 5622, 69, 5622, 69, 5622, 69, 4616,
                13598, 4616, 6159, -9596, 9540, 2819, 5950, -6337, 5950,
                -6337, 5434, -8513, 4417, -15909, -8883, -15909, 7612,
                17897, 9895, 5545, 8402, 16505, -3514, 1255, 4091, 6278,
                4091, 6278, 4091, 8708, -18276, 7655, 6888 >>,
            k |-> << 2, 2, 2, 2, 2, 4, 2, 2, 2, 4, 2, 2, 2, 2, 4, 2, 2, 2, 2, 2,
                2, 4, 4, 2, 2, 2, 2, 2, 2, 2, 4, 2, 2, 4, 4, 2, 2, 2, 2, 2,
                2, 2, 2, 2, 2, 2, 6, 6, 4, 4, 2, 2, 4, 2, 2, 2, 2, 2, 2, 4,
                4, 2, 2, 2, 2, 2, 4, 2, 2, 2, 2, 2, 2, 2, 2, 2, 2, 6, 4, 4,
                2, 2, 2, 2, 2, 2 >>])
    @@ (949 :> [u |-> << 52, 252, 224, 24, 856, 215, 436, 687, 920, 785, 336, 1, 750,
                623, 768, 72, 44, 620, 723, 189, 153, 886, 167, 433, 635,
                843, 163, 729, 480, 377, 738, 51, 962, 90, 310, 794, 794,
                738, 327, 602, 455, 268, 132, 678, 699, 655, 339, 960, 715,
                497, 719, 833, 605, 648, 906, 707, 833, 266, 488, 455, 177,
                45, 460, 90, 383, 975, 439, 54, 217, 172, 427, 363, 83, 962,
                942, 482, 401, 17, 542, 97, 968, 346, 221, 762, 976, 187 >>,
            z |-> << -3764, -8131, -3764, -3202, -3764, -3202, 18215, 5238, 6745,
                -6438, 6745, 13172, 6745, 13172, 1254, 14506, 1254, 14506,
                -8389, -4004, -2450, 19624, -2450, 19624, 10253, -2774,
                5096, -1507, -23334, 14047, 10028, -2702, 10028, -2702,
                10028, 6051, 6632, -8556, 9733, -9707, -17047, -6339, 3913,
                11776, 10151, -12886, 3015, 18151, -177, 18151, 7924, 3599,
                16391, 7126, 2742, 8344, -5186, -858, -29881, -12978, -8774,
                -518, -8774, -2183, 2852, -519, -6480, -2726, -5774, -2726,
                -19160, -6913, -276, -24989, -276, -24989, -2358, 307,
                -9152, -11797, -723, -11797, 7083, -4213, 15966, -4213 >>,
            zc |-> << 4723, -7319, 4723, -14338, 4723, -14338, -6156, 2342, 13662,
                11219, 13662, 6086, 13662, 6086, -4751, 7793, -4751, 7793,
                6038, -3595, -12205, -9670, -12205, -9670, 4050, 2827,
                -7482, 17551, -3763, -7179, -6464, -5826, -6464, -5826,
                -6464, 6051, 8199, 11781, -16424, 22484, -3261, -3984,
                -8063, 10544, 13023, 12518, -1048, -172, 18342, -172, 5210,
                11394, 11627, 2604, 5384, 5176, 7423, -17427, -7642, -1808,
                -840, -6001, -840, -7700, -697, 4096, -876, -12342, -4978,
                -12342, -10186, -2258, 6967, -4447, 6967, -4447, -480,
                -3506, 963, -6479, 2214, -6479, -7507, -12146, -13433,
                -12146 >>,
            k |-> << 6, 2, 4, 4, 2, 2, 2, 2, 6, 2, 4, 4, 2, 2, 4, 4, 2, 2, 2, 2,
                4, 4, 2, 2, 2, 2, 2, 2, 2, 2, 6, 4, 4, 2, 2, 2, 2, 2, 2, 2,
                2, 2, 2, 2, 2, 2, 2, 4, 2, 2, 2, 2, 2, 2, 2, 2, 2, 2, 2, 2,
                4, 2, 2, 2, 2, 2, 2, 4, 2, 2, 2, 2, 4, 4, 2, 2, 2, 2, 2, 4,
                2, 2, 2, 4, 4, 2 >>])
    @@ (950 :> [u |-> << 823, 128, 66, 668, 287, 358, 35, 734, 193, 26, 860, 190,
                853, 312, 440, 348, 972, 195, 187, 72, 210, 246, 735, 507,
                485, 725, 736, 505, 943, 816, 65, 851, 332, 816, 942, 790,
                264, 142, 473, 287, 846, 705, 152, 864, 166, 933, 55, 965,
                897, 570, 491, 577, 261, 880, 616, 921, 504, 378, 598, 87,
                120, 236, 206, 153, 540, 267, 950, 401, 646, 339, 806, 762,
                272, 343, 661, 763, 147, 137, 782, 447, 422, 404, 551, 582,
                744, 420, 582, 932, 96, 151, 113, 583, 253, 143, 750, 492,
                534, 773, 349, 357, 443, 341, 380, 179, 575, 28, 701, 55,
                648, 45, 955, 336, 301, 749, 774, 515, 314, 975, 194, 430,
                267, 28, 402, 79, 485, 657, 925, 455, 714, 107, 608, 641,
                236, 35, 23, 958, 803, 181, 179, 730, 539, 472, 612, 955,
                173, 47, 77, 88, 471, 952, 344, 535, 184, 647, 700, 652,
                389, 916, 814, 176, 840, 567, 762, 147, 624, 824, 798, 362,
                50, 656, 187, 739, 921, 283, 934, 712, 462, 295, 862, 144 >>,
            z |-> << -1914, -12231, 1935, -12231, -9058, -3321, -2950, -8080,
                -2950, 3752, -2950, 3752, -4431, -5825, -19723, 1759, -6758,
                -5287, -6758, 8274, -6758, 8274, 576, -32493, 17789, 9439,
                424, 6936, 10225, -4302, 10225, -4302, 10225, -6774, -6562,
                -6774, -6562, -856, -18295, 7772, 4738, -7975, 1611, -1480,
                1611, -3335, 1611, -3335, 1611, -3335, 27117, -15790, 5559,
                2799, 7053, 95, -23756, 13573, -7889, -7243, -3213, -7243,
                -4739, 1380, -17089, 16900, -1212, 16900, -13487, 10741,
                6020, -7900, -8721, 12846, 11802, -5693, -2724, 3562, -2724,
                -21419, -18382, 11757, 21663, 15419, -5061, 17410, 7024,
                -15319, 2045, -15319, 2045, -15319, -6244, 4284, -466,
                31980, 15327, -6631, -12900, -7992, -19640, -11521, -11557,
                2953, -4245, 1622, -2875, 1622, -3986, -12597, -1234,
                -12597, 10508, 8112, 871, -19826, -3018, -16301, -3018,
                -16301, -7500, -797, -7500, -295, 21373, 5863, -818, 17793,
                -5852, 2410, 16133, -12623, -5192, -4524, -5192, -4524,
                -5192, -4524, 5685, 2949, -17393, 23535, 4936, -615, 6263,
                -615, 6263, -615, 6263, -1374, 4804, -13371, 5077, 13463,
                10024, -11586, 7458, 3630, -4598, 3630, 2343, 15149, -5742,
                3581, 11271, 4795, -5415, -4730, 1455, -10699, 5955, 3087,
                -2137, 3091, 1604, -3160, -18439, 7466, 4838, 2749 >>,
            zc |-> << 1667, 9712, -4969, 9712, -13669, -1009, 3432, 6172, 3432,
                -3289, 3432, -3289, 8333, -18398, -7745, -564, -7720, -5153,
                -7720, -8891, -7720, -8891, 17335, 17632, -1138, 8982,
                17275, 91, -5401, 9043, -5401, 9043, -5401, 8361, -4320,
                8361, -4320, -11485, -2302, -4755, 7999, 4715, 9125, 1614,
                9125, 27780, 9125, 27780, 9125, 27780, -2951, 5113, -3495,
                9169, 1941, 8251, 951, -16744, 1885, -6498, -4625, -6498,
                -4021, -11940, 2943, -11413, 5522, -11413, 12289, -5634,
                7027, 9109, -12695, -12415, 7240, 4258, 14631, -4572, 14631,
                -14518, -14917, -21725, 13643, 5181, 15495, -16909, 1337,
                5192, -9473, 5192, -9473, 5192, -4317, -6101, 16636, -6575,
                1912, 12024, -13602, -20198, -6987, -15382, -4292, -12585,
                677, -4836, 1303, -4836, 1306, -10370, 3439, -10370, -8372,
                7372, 15465, 1651, -13343, -4840, -13343, -4840, -1738,
                -3858, -1738, -8330, -2025, 2168, 7866, -3665, 3199, -8735,
                12332, 6788, 4944, -4498, 4944, -4498, 4944, -4498, -7906,
                17192, 25195, -5728, 1215, -8745, -401, -8745, -401, -8745,
                -401, 3997, -20830, 1517, -10885, 9898, 13190, 16036, -1970,
                -3445, 4475, -3445, 11845, 3884, 4278, -10167, 4315, 5203,
                11739, -1451, -4171, 5372, -7757, 1758, 4155, -1541, 3272,
                18042, -3364, -4210, 10786, -3037 >>,
            k |-> << 2, 4, 2, 2, 2, 2, 6, 2, 4, 4, 2, 2, 2, 2, 2, 2, 6, 2, 4, 4,
                2, 2, 2, 2, 2, 2, 2, 2, 6, 4, 4, 2, 2, 4, 4, 2, 2, 2, 2, 2,
                2, 2, 8, 2, 6, 6, 4, 4, 2, 2, 2, 2, 2, 2, 2, 2, 2, 2, 2, 4,
                2, 2, 2, 2, 2, 4, 2, 2, 2, 2, 2, 2, 2, 2, 2, 2, 4, 2, 2, 2,
                2, 2, 2, 2, 2, 2, 2, 6, 4, 4, 2, 2, 2, 2, 2, 2, 2, 2, 2, 2,
                2, 2, 2, 2, 2, 4, 2, 2, 2, 4, 2, 2, 2, 2, 2, 2, 4, 4, 2, 2,
                4, 2, 2, 2, 2, 2, 2, 2, 2, 2, 2, 2, 6, 6, 4, 4, 2, 2, 2, 2,
                2, 2, 2, 6, 6, 4, 4, 2, 2, 2, 2, 2, 2, 2, 2, 2, 2, 4, 2, 2,
                2, 2, 2, 2, 2, 2, 2, 2, 2, 2, 2, 2, 2, 2, 2, 2, 2, 2, 4, 2 >>])
    @@ (986 :> [u |-> << 652, 574, 664, 814, 501, 224, 241, 627, 627, 517, 641, 202,
                355, 246, 100, 572, 464, 929, 525, 136, 700, 64, 626, 742,
                931, 426, 243, 720, 122, 895, 752, 726, 670, 643, 670, 142,
                557, 630, 240, 302, 123, 730, 100, 615, 0, 368, 361, 58,
                746, 643, 91, 277, 575, 68, 928, 642, 615, 213, 777, 834,
                15, 254, 594, 37, 981, 838, 279, 991, 556, 114, 264, 797,
                294, 45 >>,
            z |-> << 9097, 18386, 10350, 54, -15437, -7240, 6566, 14266, 3169,
                22231, -11660, -5614, -12739, -3927, 1627, -11808, 7667,
                459, -11234, 4176, -3726, 1751, 13762, 1793, -1220, -15255,
                8159, -6333, 8335, 2725, 8335, 9047, 11562, 13773, -8713,
                1810, 20459, -13144, -7912, -7138, 3692, -4883, 2371,
                -14201, -5323, -14201, -5323, -7181, 7547, -7181, -2586,
                5559, -7190, 12601, 2008, 12601, -12874, 6623, 5759, 5741,
                -4712, 5741, -4712, -5034, -9875, -5034, -9875, 233, -9875,
                -3321, 8258, -6477, -1025, -1313 >>,
            zc |-> << 18690, 8280, 5424, 13604, 70, -7712, -13297, 14279, 23074,
                2754, 5543, -11556, -7257, -2493, -8956, 24285, -630, 7720,
                790, -7553, 1719, -6002, 7220, 1006, 7198, -4351, -9487,
                3698, 9264, 4273, 9264, 12027, 13775, 11591, 4144, -11200,
                9032, 6630, -10394, -3750, -6014, 2821, -8237, -13536,
                -1667, -13536, -1667, 2525, 12955, 2525, -4741, -16468,
                1253, 15548, 6032, 15548, 5200, -6834, 4775, -14942, 963,
                -14942, 963, 7715, 1451, 7715, 1451, 2024, 1451, -5448,
                -6529, 9381, -463, -4560 >>,
            k |-> << 2, 2, 2, 2, 2, 2, 2, 2, 2, 2, 2, 2, 2, 2, 2, 2, 2, 2, 2, 2,
                2, 2, 2, 2, 2, 2, 2, 2, 4, 2, 2, 2, 2, 2, 2, 2, 2, 2, 2, 2,
                2, 2, 2, 4, 4, 2, 2, 4, 2, 2, 2, 2, 2, 4, 2, 2, 2, 2, 2, 4,
                4, 2, 2, 4, 6, 2, 4, 2, 2, 2, 2, 2, 2, 2 >>])
    @@ (993 :> [u |-> << 247, 167, 462, 133, 341, 419, 642, 929, 468, 924, 104, 247,
                207, 571, 649, 253, 535, 3, 158, 404, 534, 580, 60, 782,
                902, 246, 280, 411, 44, 423, 24, 516, 371, 675, 149, 241,
                331, 805, 501, 413, 18, 291, 280, 790, 275, 875, 37, 893,
                554, 135, 725, 367, 582, 309, 942, 457, 44, 384, 751, 208,
                361, 432, 255, 340, 805, 230, 206, 289, 595, 361, 650, 485,
                374, 535, 802, 378, 220, 381, 193, 678, 890, 617, 594, 542,
                194, 785, 853, 871, 120, 341, 433, 435, 629, 773, 425, 931,
                900, 871, 228, 350, 802, 267, 90, 559, 313, 448, 88, 874,
                784, 529, 787, 271, 677, 223, 775, 234, 135, 721, 320, 633,
                951, 802, 114, 652, 516, 495, 660, 594, 857, 38, 59, 994,
                93, 556, 230, 934, 981, 981, 973, 57, 639, 176, 68, 943,
                539, 514, 158, 38, 555, 480, 756, 233, 25, 334, 556, 845,
                140, 367, 191, 970, 114, 127, 287, 49, 292, 783, 549, 158,
                476, 326, 372, 177, 358, 753, 883, 325, 920, 788, 630, 343,
                539, 469, 525, 963, 704, 860, 78, 342, 820, 356 >>,
            z |-> << -6770, -1440, -11011, -3772, -9255, 18374, 6002, -565, 8031,
                -7705, -2737, -7705, 3400, 18933, -12680, 2358, -1376, 8472,
                -3173, 8472, 24309, -6624, -2398, 2187, -2398, -8273, -6461,
                -5385, -935, -3796, 156, -23032, 14706, -8817, -4415, -7565,
                10525, 64, -26499, -2849, 8986, -10281, 8986, -6779, 6267,
                1324, -10931, 1324, -10931, 4137, -8145, 11358, -17226,
                3508, -646, -5977, -1235, 13991, -7755, -5702, -9468,
                -15899, -8038, 10803, -5988, -7036, -6663, 7258, -17180,
                13904, -2161, -23307, 6340, 13971, -4880, -12902, -5534,
                -12088, 5905, 7094, 2604, 13708, 10168, -13787, 5785, 4808,
                -3396, -7962, -3396, -7962, -18163, 19928, 12816, -3957,
                7166, -3417, -6684, -3417, -6684, 11249, -6343, -4250, 1257,
                -18445, -5236, -8595, 1544, 2998, 1544, 14742, -6923, 9097,
                -10897, 7006, -7171, -5214, 4158, -9457, 10683, 4750, 3192,
                -2252, 3192, 2400, -8604, 21309, 10054, 10627, 1228, -15096,
                1228, -15096, 1228, -15096, -10880, 1647, -10880, 1647,
                -10880, 1647, -10880, 605, 10674, 605, 10674, -12308, -9831,
                642, -9831, 16271, -7925, 6594, 11803, 6594, 11803, -908,
                -3579, -11602, -1029, -3894, -1029, -3894, -1029, -728,
                9590, 2551, -12056, -852, -20303, -10879, -11233, -4738,
                12885, 4833, -3431, 5619, -14572, 5565, -14572, 5191,
                -18634, 20312, 5472, 10425, 7552, 10425, -2281, 10425,
                -4863, -12183 >>,
            zc |-> << -5153, -12614, -1140, -8730, -18119, -10396, 1997, 7721,
                -595, -6647, -4289, -6647, -13840, 9076, 7708, -16538, 97,
                -23778, -11302, -23778, 10270, 1218, 3803, 1534, 3803,
                -9553, -16042, -1046, -5575, -609, -4427, 2996, -10760,
                4428, -5975, -11651, -5794, 14046, 426, -510, -6772, -9767,
                -6772, 8780, -3749, 9498, 1647, 9498, 1647, -6671, 13862,
                -18347, 7433, -1508, 6804, -552, -4874, -6418, 6696, -11952,
                -19504, -4391, -12282, -5649, 6796, -6463, -9274, -15993,
                11836, -12787, 21744, -2790, -22318, 1641, 12114, -5638,
                -13013, -4684, -10134, 3241, 8634, 17042, 22933, 1898,
                -6184, 3882, -8142, -19085, -8142, -19085, -18587, -9936,
                6076, 14553, -1233, 4679, -12126, 4679, -12126, -5561, 8258,
                -2409, -8588, 5945, -18787, -1084, 14859, 3942, 14859, 1518,
                8721, -11686, 6985, -7037, 7447, -3803, -6844, 11641,
                -14412, 1403, -8053, 1768, -8053, 21590, 35605, -545, 17158,
                2795, -8802, 3170, -8802, 3170, -8802, 3170, 4691, -5227,
                4691, -5227, 4691, -5227, 4691, 6808, 29629, 6808, 29629,
                511, 27543, -5338, 27543, -1258, 7619, -19407, 1924, -19407,
                1924, 873, -9705, -4980, -485, -6821, -485, -6821, -485,
                -1582, -7011, 14639, 1745, -12282, -2774, -14790, -4437,
                -10835, -7175, 3196, 7521, -2335, 12134, 12327, 12134,
                -20633, 23985, -24511, 299, -5108, 4288, -5108, -6116,
                -5108, 10838, -16106 >>,
            k |-> << 2, 2, 2, 2, 2, 2, 2, 2, 2, 4, 2, 2, 2, 2, 2, 2, 2, 4, 2, 2,
                2, 2, 4, 2, 2, 2, 2, 2, 2, 2, 2, 2, 2, 2, 2, 2, 2, 2, 2, 2,
                4, 2, 2, 2, 2, 4, 4, 2, 2, 2, 2, 2, 2, 2, 2, 2, 2, 2, 2, 2,
                2, 2, 2, 2, 2, 2, 2, 2, 2, 2, 2, 2, 2, 2, 2, 2, 2, 2, 2, 2,
                2, 2, 2, 2, 2, 2, 4, 4, 2, 2, 2, 2, 2, 2, 2, 4, 4, 2, 2, 2,
                2, 2, 2, 2, 2, 2, 4, 2, 2, 2, 2, 2, 2, 2, 2, 2, 2, 2, 2, 2,
                4, 2, 2, 2, 2, 2, 2, 2, 6, 6, 4, 4, 2, 2, 8, 6, 6, 4, 4, 2,
                2, 4, 4, 2, 2, 2, 4, 2, 2, 2, 2, 4, 4, 2, 2, 2, 2, 2, 6, 4,
                4, 2, 2, 2, 2, 2, 2, 2, 2, 2, 2, 2, 2, 2, 2, 2, 4, 2, 2, 2,
                2, 2, 2, 6, 2, 4, 2, 2, 2, 2 >>])
    @@ (994 :> [u |-> << 389, 694, 302, 857, 806, 726, 824, 815, 784, 362, 976, 822,
                117, 295, 188, 861, 792, 511, 853, 641, 17, 472, 391, 114,
                33, 10, 339, 190, 359, 758, 752, 568, 51, 68, 954, 313, 247,
                439, 353, 708, 136, 117, 823, 753, 875, 540, 359, 251, 64,
                230, 470, 502, 975, 18, 941, 352, 632, 632, 88, 966, 755,
                807, 732, 623, 190, 173, 504, 653, 219, 498, 605, 606, 475,
                161, 962, 37, 661, 980, 565, 48, 265, 388, 792, 773 >>,
            z |-> << 15571, -10930, 7865, 3166, 6189, 7938, 4419, 5414, -5875,
                1825, -3546, -9039, -3546, -9039, 3258, 3387, 559, 11747,
                3868, -23676, -210, -23676, -9085, -5141, -10660, -5141,
                -10660, -5141, 12801, 7982, 4204, -6136, -970, -10960, -970,
                -10960, -3768, -19836, 13451, -7323, 5448, 5204, 5448, 5204,
                1138, -21319, -13047, -1687, 2762, -1687, 2762, 4472, -1692,
                12834, -1692, 12834, 14062, -7254, 7282, 6133, 7282, 6133,
                7507, -11811, -4690, 165, 21717, -11717, -97, 24939, 15606,
                -5553, -12420, 932, -5994, 932, -5994, 474, -5994, 12805,
                -6933, 12805, 6444, 6676 >>,
            zc |-> << -8862, 10786, -4338, 3696, 8379, 5544, 4547, 5989, 12197,
                -526, -6622, -5941, -6622, -5941, -2812, 4183, 14615, 372,
                9682, -6050, -3640, -6050, -2569, -11312, -5533, -11312,
                -5533, -11312, -6974, 8173, 15562, 931, 2361, -8127, 2361,
                -8127, -15764, -8172, -9457, 4197, 6950, 3520, 6950, 3520,
                10546, 6150, -7372, -15564, -33576, -15564, -33576, 23,
                5063, -14347, 5063, -14347, 13959, 2345, 6031, 8109, 6031,
                8109, 14121, 4720, -4445, -13034, 586, 6406, -15186, -426,
                15411, 23998, -908, -2666, 866, -2666, 866, 3490, 866,
                -4861, -14642, -4861, 6901, -6055 >>,
            k |-> << 2, 2, 2, 2, 2, 2, 2, 2, 2, 2, 4, 4, 2, 2, 2, 2, 2, 2, 2, 4,
                2, 2, 2, 6, 4, 4, 2, 2, 2, 2, 2, 2, 4, 4, 2, 2, 2, 2, 2, 2,
                4, 4, 2, 2, 2, 2, 2, 4, 4, 2, 2, 2, 4, 4, 2, 2, 2, 2, 4, 4,
                2, 2, 2, 2, 2, 2, 2, 2, 2, 2, 2, 2, 2, 4, 6, 2, 4, 2, 2, 4,
                2, 2, 2, 4 >>])
    @@ (996 :> [u |-> << 197, 315, 927, 267, 326, 425, 504, 525, 575, 322, 957, 194,
                454, 59, 941, 708, 466, 149, 195, 175, 187, 973, 106, 370,
                406, 505, 714, 25, 30, 637, 412, 292, 585, 632, 665, 55,
                837, 808, 393, 911, 166, 970, 509, 101, 860, 318, 606, 526,
                41, 661, 300, 669, 135, 220, 730, 898, 653, 780, 748, 552,
                777, 679, 877, 359, 257, 41, 666, 30, 258, 281, 522, 186,
                467, 734, 2, 205, 847, 688, 324, 327 >>,
            z |-> << -6126, 4868, -1567, -8845, -7763, 1750, 33903, 25740,
                -17964, 2594, -6914, -2038, -6914, -2921, 1334, -2921,
                -11785, -3567, -4993, -4491, -2715, -12452, -2715, -12452,
                1429, 18385, 836, -11368, 836, -11368, -16463, 6819, 18085,
                14440, -4315, -4273, 4027, -4273, 7806, 97, -9500, 97,
                -9500, 9448, -4170, 9448, 5900, -5839, 1123, -12677, 10442,
                -8452, -3527, 7224, 4997, 2862, 11712, 7103, 3415, 14859,
                7004, 7638, -3251, -13141, -1257, 1071, -1257, 1818, -8774,
                1818, -13584, -1384, 17132, 4662, 4630, 4662, 4630, -11118,
                -11836, -10475 >>,
            zc |-> << -10010, -2105, 2888, -11828, -18147, -27549, 6378, 8563,
                7621, -1008, -713, -13714, -713, 18314, 2815, 18314, -1120,
                -4109, -4688, -4657, -8230, -17358, -8230, -17358, -25877,
                441, -2849, 17846, -2849, 17846, -6976, -16583, 11590,
                11573, 1610, 12354, 4413, 12354, -2023, 4881, 223, 4881,
                223, -16019, 8281, -16019, 23877, 337, -3179, 10307, -12259,
                3927, -4606, -8769, 2889, 7417, 6408, 8021, 16085, 2831,
                10802, 3637, 8704, -7635, 445, -2952, 445, -18041, -9701,
                -18041, 954, -13506, -2349, -3958, 8546, -3958, 8546, 11947,
                -11981, -6017 >>,
            k |-> << 2, 2, 2, 2, 2, 2, 2, 2, 2, 2, 4, 2, 2, 4, 2, 2, 2, 2, 2, 2,
                4, 4, 2, 2, 2, 2, 4, 4, 2, 2, 2, 2, 2, 2, 2, 4, 2, 2, 2, 4,
                4, 2, 2, 4, 2, 2, 2, 2, 2, 2, 2, 2, 2, 2, 2, 2, 2, 2, 2, 2,
                2, 2, 2, 2, 4, 2, 2, 4, 2, 2, 2, 2, 2, 4, 4, 2, 2, 2, 2, 2 >>])
    @@ (1002 :> [u |-> << 128, 461, 416, 602, 183, 417, 134, 656, 806, 138, 350, 614,
                551, 692, 45, 352, 41, 150, 338, 163, 760, 346, 261, 185,
                904, 207, 346, 382, 51, 870, 660, 854, 10, 800, 385, 465,
                238, 300, 41, 580, 394, 911, 172, 347, 838, 284, 609, 454,
                449, 202, 92, 751, 887, 812, 811, 454, 881, 736, 810, 247,
                364, 746, 821, 354, 123, 879, 505, 408, 884, 882, 953, 936,
                353, 583 >>,
            z |-> << -1127, -23580, 17850, -12122, -3263, -10467, 3759, 10876,
                -3500, -3778, 12009, 9611, 18540, -2058, -1307, -3722,
                -9737, -4290, -9737, 4903, -7179, -12676, -7772, -5987,
                -576, -5987, -11832, -5297, 9123, 3664, 9123, -4715, -6958,
                -4715, -6958, -15874, -7872, -380, 933, -18291, 7802, 9953,
                -4806, 9953, -5027, 7733, -9250, -20910, -14002, 4714, 2173,
                4714, 859, 5013, -1970, 10178, 3452, 7923, -5953, -7053,
                13313, 7284, -4858, -8662, -25954, 164, -25954, 9443, 10390,
                -1828, 10390, -1828, 10390, -16085 >>,
            zc |-> << -10766, -10924, -14570, 3929, -12599, -2348, -8781, 5553,
                2967, -9138, -15690, 21462, 4940, 871, -4031, -1198, -4675,
                -9276, -4675, -6326, 12214, -8170, -5885, -11394, 796,
                -11394, -15487, -1386, 4127, 8473, 4127, 12403, -22888,
                12403, -22888, -2115, -10285, -166, -5292, 13944, -2008,
                -4466, -10353, -4466, 7899, -15182, 22100, -18914, -2391,
                3058, -3524, 3058, 1067, 5026, 13469, -1214, 5576, 6029,
                7328, -13170, -7300, 5582, 10769, -3340, 1669, 10501, 1669,
                -2261, -18086, 5459, -18086, 5459, -18086, 6031 >>,
            k |-> << 2, 2, 2, 2, 2, 2, 2, 2, 2, 2, 2, 2, 2, 2, 2, 2, 4, 2, 2, 2,
                2, 2, 2, 4, 2, 2, 2, 2, 4, 2, 2, 4, 4, 2, 2, 2, 2, 2, 2, 2,
                2, 4, 2, 2, 2, 2, 2, 2, 2, 4, 2, 2, 2, 2, 2, 2, 2, 2, 2, 2,
                2, 2, 2, 2, 4, 2, 2, 2, 6, 4, 4, 2, 2, 2 >>])
    @@ (1007 :> [u |-> << 548, 797, 6, 715, 533, 264, 705, 526, 742, 568, 776, 172,
                287, 515, 488, 956, 784, 10, 323, 351, 819, 695, 795, 83,
                972, 985, 716, 172, 456, 374, 962, 177, 810, 495, 185, 313,
                742, 92, 532, 100, 843, 980, 453, 243, 214, 841, 716, 846,
                535, 51, 171, 235, 426, 837, 727, 241, 221, 559, 828, 485,
                698, 845, 598, 583, 394, 160, 606, 154, 454, 802, 719, 533,
                118, 124, 539, 501, 430, 565, 711, 870 >>,
            z |-> << 14059, 2812, -17065, 2812, -17065, 9018, 2393, 16863, 4490,
                14563, -5983, -5405, 1346, -21494, 5993, 10726, -11318,
                10726, -11318, 10726, 5610, 9770, -8180, -1692, -8180,
                -1692, -8180, -1692, -21773, 3944, -214, 4612, -214, -13608,
                -5705, 11095, -3927, 702, -9396, -358, -15882, -358, -15882,
                -7660, 5248, 4943, 7630, 1224, -6513, -4147, -5167, -4147,
                11893, 5080, -9146, -7667, 3140, 12523, -582, 19149, 8256,
                3142, 15042, -18002, -11152, 3498, -10887, -1572, 13878,
                6349, 2694, -10296, 908, 1118, 908, -28119, 17723, 17247,
                6942, -3384 >>,
            zc |-> << 2282, 17990, 2444, 17990, 2444, -10311, 18598, 1845, 15961,
                3585, 5050, -8338, -18423, 28970, -151, -4984, -13461,
                -4984, -13461, -4984, 9148, 6479, 5415, -12749, 5415,
                -12749, 5415, -12749, -7574, -1065, 13795, -4787, 13795,
                -209, -9609, -8536, 2338, -8937, 754, 3683, -2899, 3683,
                -2899, -6884, -4387, 7787, 4775, 11981, 514, -14896, -6408,
                -14896, -2602, 7515, 8053, -7130, -14678, 2273, 12951,
                -1423, 4735, 11046, 17779, 14185, -3470, -11127, 3365,
                -11924, -2090, 8756, 17841, 893, 31816, -10558, 31816, 460,
                -18662, 5369, 3960, 4551 >>,
            k |-> << 2, 4, 4, 2, 2, 2, 2, 2, 2, 2, 2, 2, 2, 2, 2, 6, 4, 4, 2, 2,
                2, 2, 6, 6, 4, 4, 2, 2, 2, 2, 4, 2, 2, 2, 2, 2, 2, 2, 2, 4,
                4, 2, 2, 2, 2, 2, 2, 2, 2, 4, 2, 2, 2, 2, 2, 2, 2, 2, 2, 2,
                2, 2, 2, 2, 2, 2, 2, 2, 2, 2, 2, 2, 4, 2, 2, 2, 2, 2, 2, 2 >>])
    @@ (1013 :> [u |-> << 557, 55, 263, 859, 420, 22, 27, 283, 220, 709, 517, 549,
                768, 957, 247, 294, 419, 224, 594, 457, 3, 997, 460, 66, 84,
                925, 481, 745, 227, 523, 380, 775, 179, 809, 835, 222, 955,
                647, 148, 90, 65, 899, 824, 22, 531, 427, 901, 85, 851, 290,
                573, 514, 156, 996, 908, 413, 262, 830, 17, 819, 449, 278,
                687, 947, 808, 717, 639, 418, 195, 150, 299, 912, 492, 218,
                473, 857, 583, 553, 699, 703, 889, 105, 301, 125, 310, 846,
                589, 6, 217, 317 >>,
            z |-> << -6542, -2399, 6494, -2399, -3523, -9287, 7165, -9287, 7165,
                1582, 28212, 15289, -8286, -6610, -8286, -6610, -14314,
                4763, -10292, -1288, -7417, -60, -7417, -351, 16765, -351,
                16765, -8250, 1333, -23346, 13112, -6202, 4707, 4445, -4733,
                -9582, 1293, -9582, -24970, 276, -24970, 276, -24970, 276,
                -24970, 8889, -4599, 5990, -4599, 5990, 5208, -12225, -1759,
                -15507, -1759, -15507, 7350, -2074, -17320, -2074, -17320,
                9549, 3186, 8749, 6128, 8749, -10723, -13141, -4139, -4610,
                5246, -150, -15129, -1419, 11496, 2531, 13728, 18161, 10716,
                6374, -7180, -3165, -7180, -3780, 8531, 2893, -6838, 10812,
                -6838, 10812 >>,
            zc |-> << 839, 10802, -4264, 10802, -589, -7193, -9585, -7193, -9585,
                18560, 10070, 2845, -10184, -16857, -10184, -16857, -4181,
                -13926, 22917, -110, -673, 765, -673, 7990, -1274, 7990,
                -1274, 7436, -15461, 4612, -5664, 5326, -4887, 4093, 5726,
                4021, 3983, 4021, 10731, -4230, 10731, -4230, 10731, -4230,
                10731, -1606, 7720, -17012, 7720, -17012, 27051, 504, 8303,
                -5642, 8303, -5642, -5286, 13011, -3994, 13011, -3994,
                -11255, 1336, 13697, 8670, 13697, 18396, -3500, -3599,
                -8027, -2554, 8746, -381, -15012, -857, 10813, 21388, 4895,
                10497, 3331, -3809, -6286, -3809, -7467, -4671, 11215,
                -10560, -13745, -10560, -13745 >>,
            k |-> << 2, 4, 2, 2, 2, 4, 4, 2, 2, 2, 2, 2, 4, 4, 2, 2, 2, 2, 2, 2,
                4, 2, 2, 4, 4, 2, 2, 2, 2, 2, 2, 2, 2, 2, 2, 4, 2, 2, 8, 6,
                6, 4, 4, 2, 2, 2, 4, 4, 2, 2, 2, 2, 4, 4, 2, 2, 2, 4, 4, 2,
                2, 2, 2, 4, 2, 2, 2, 2, 2, 2, 2, 2, 2, 2, 2, 2, 2, 2, 2, 2,
                4, 2, 2, 2, 2, 2, 4, 4, 2, 2 >>])
    @@ (1017 :> [u |-> << 112, 920, 473, 659, 783, 512, 699, 390, 804, 623, 628, 131,
                717, 820, 853, 773, 939, 81, 853, 460, 800, 69, 560, 377,
                702, 60, 631, 450, 997, 936, 613, 73, 745, 782, 766, 890,
                185, 645, 905, 807, 353, 62, 87, 850, 458, 338, 902, 29,
                622, 542, 545, 465, 114, 11, 312, 102, 962, 334, 240, 787,
                985, 566, 657, 985, 535, 987, 192, 797, 197, 411, 307, 702,
                110, 159, 27, 802, 937, 616, 126, 514, 669, 525, 779, 748,
                950, 619, 540, 731, 109, 66, 780, 722, 962, 4, 704, 12, 516,
                446, 536, 980, 663, 968, 60, 386, 194, 17, 227, 720, 949,
                169, 370, 717, 752, 503, 906, 374, 542, 233, 686, 326, 749,
                70, 724, 142, 582, 283, 267, 413, 842, 369, 118, 4, 119,
                327, 521, 997, 182, 919, 103, 103, 782, 357, 282, 173, 534,
                645, 861, 201, 617, 449, 454, 865, 708, 749, 123, 569, 701,
                356, 820, 870, 283, 621, 662, 8, 714, 611, 647, 33, 642,
                214, 847, 558, 251, 112, 989, 367, 644, 318, 253, 336, 529,
                963, 77, 236, 155, 895 >>,
            z |-> << 20971, -530, 20971, 11456, 671, 19134, -8584, 12401, 4882,
                14605, -9414, 4018, 8342, 3180, 4101, 14020, -1308, 14020,
                -1308, 14020, -20406, 1047, -20406, 14830, -3310, 1683,
                -7933, 355, -6836, 1619, -6836, 1264, 8117, 6912, 3908,
                7259, 5083, 7259, -5349, -5343, -5349, -1389, -20278, -1389,
                -20278, 6993, 7573, 855, 7573, 21223, -17766, -10083, -6487,
                -11755, -6487, -11755, -911, -11755, 7491, 19062, 385,
                19062, 2975, 237, 2975, -5771, 5500, -5771, -3812, -16835,
                11062, -6397, 1624, -9475, 1624, -9475, 1624, -9475, 410,
                20709, 3082, 15133, 7159, 7633, 1357, 7633, 17090, -5341,
                7173, 107, 7173, 107, -28225, 107, -28225, 107, -28225,
                16152, 3882, -12262, 1716, -12262, -1556, -12262, 7479,
                -4270, 7479, -4270, 14181, -4270, 14181, 9632, 227, 9094,
                -2365, 7411, -15493, 7499, -11207, 11586, -1322, 1617,
                -6976, 2492, -16421, -9872, -5835, 11447, -3980, -8794,
                -3506, 2540, -3506, 2540, 1409, 1867, -6086, 1867, -6086,
                1867, -6086, -13549, -8205, 1347, 21395, 9245, -3218, 4885,
                -9153, -19102, 10948, 4102, 10060, -5312, 1883, 17455,
                -9746, 10852, 2171, -3955, 8220, 15186, 7868, 15875, 7868,
                15875, -2807, 915, -11999, 5020, 1959, -15956, -4842, 14226,
                -13728, 14226, -13728, -11278, -8005, 3784, 5452, -5985,
                -663, -5985, -8264, -3053 >>,
            zc |-> << -3558, 8259, -3558, 6437, 15056, 1213, 15537, -4479, 11996,
                14109, 3278, -6797, 5657, 2888, 5299, -1865, 11579, -1865,
                11579, -1865, 10168, -7411, 10168, -8949, 1523, -5640,
                21123, -35, 1825, 6212, 1825, -2193, 7069, 7330, 2661, 2597,
                -11007, 2597, -1793, 11188, -1793, 11730, -5192, 11730,
                -5192, -2815, 21990, -3286, 21990, 19600, 23491, -902,
                -3055, -7477, -3055, -7477, 2550, -7477, -6761, 8081, 2795,
                8081, 220, 3199, 220, 5671, -5678, 5671, -13027, -7751,
                -10497, 3332, 6109, 2952, 6109, 2952, 6109, 2952, -10796,
                1733, 20476, 1379, 8058, 22212, 5135, 22212, 3015, 3173,
                9061, -3101, 9061, -3101, 8862, -3101, 8862, -3101, 8862,
                -23583, 296, -4546, 598, -4546, -6034, -4546, -9259, -10910,
                -9259, -10910, -8414, -10910, -8414, 8305, 16517, 78, 7682,
                -21845, 2466, -10752, 12023, -8057, 767, -3099, 4379,
                -10854, 6234, -9180, -15698, -2891, 10425, -3015, -7713,
                -20375, -7713, -20375, 61, -2624, 12095, -2624, 12095,
                -2624, 12095, -8862, -5460, -12903, 5009, 3719, 3904,
                -12405, 21500, -20834, -1372, 7192, 8418, 3517, -10148,
                6064, 13682, -4849, 1880, 6773, -14581, 11355, 15097, 12082,
                15097, 12082, 885, -3003, 5972, -4126, 11664, 3745, -3109,
                -13112, 10904, -13112, 10904, -8309, -12090, -20664, 352,
                -4568, -1065, -4568, -3771, 7147 >>,
            k |-> << 4, 2, 2, 2, 2, 2, 2, 2, 2, 2, 2, 2, 2, 2, 2, 6, 4, 4, 2, 2,
                4, 2, 2, 2, 2, 2, 2, 2, 4, 2, 2, 2, 2, 2, 2, 4, 2, 2, 4, 2,
                2, 4, 4, 2, 2, 2, 4, 2, 2, 2, 2, 2, 4, 6, 2, 4, 2, 2, 2, 4,
                2, 2, 4, 2, 2, 4, 2, 2, 2, 2, 2, 2, 6, 6, 4, 4, 2, 2, 2, 2,
                2, 2, 2, 4, 2, 2, 2, 2, 4, 8, 2, 6, 6, 4, 4, 2, 2, 2, 2, 6,
                2, 4, 2, 2, 4, 6, 2, 4, 4, 2, 2, 2, 2, 2, 2, 2, 2, 2, 2, 2,
                2, 2, 2, 2, 2, 2, 2, 2, 2, 2, 4, 4, 2, 2, 2, 6, 6, 4, 4, 2,
                2, 2, 2, 2, 2, 2, 2, 2, 2, 2, 2, 2, 2, 2, 2, 2, 2, 2, 2, 2,
                2, 2, 4, 4, 2, 2, 2, 2, 2, 2, 2, 2, 2, 4, 4, 2, 2, 2, 2, 2,
                2, 4, 2, 2, 4, 2 >>])
    @@ (1022 :> [u |-> << 136, 980, 323, 191, 21, 869, 385, 349, 299, 411, 517, 375,
                865, 124, 239, 570, 595, 711, 758, 738, 177, 321, 100, 363,
                469, 861, 529, 88, 427, 967, 308, 326, 126, 292, 643, 672,
                635, 987, 686, 629, 682, 166, 158, 686, 918, 389, 447, 579,
                348, 108, 71, 510, 217, 840, 597, 184, 88, 742, 576, 797,
                331, 784, 572, 157, 710, 61, 451, 165, 330, 483, 292, 951,
                179, 525, 683, 995, 767, 777, 707, 823, 244, 74, 323, 646,
                872, 132, 844, 809, 998, 205, 999, 657, 140, 702, 524, 189,
                250, 276, 149, 512, 666, 297, 875, 381, 369, 928, 171, 77,
                788, 25, 613, 520, 94, 939, 21, 197, 801, 285, 345, 871,
                575, 680, 120, 610, 290, 325, 682, 766, 588, 132, 584, 477,
                917, 215, 7, 339, 514, 577, 149, 339, 505, 62, 217, 870,
                268, 959, 876, 221, 91, 999, 7, 254, 873, 205, 262, 843,
                811, 953, 56, 51, 578, 967, 705, 164, 420, 839, 545, 933,
                893, 87, 321, 840, 8, 701, 867, 653, 873, 424, 882, 139,
                808, 322, 262, 975, 967, 967, 735, 537 >>,
            z |-> << -10150, -3011, -10150, -3011, -15680, -3011, -15680, -13270,
                -7323, 5120, -23288, 9628, 4132, -3404, 4132, 19246, 15966,
                9819, 8034, -7537, -5339, -6695, -2677, -4847, 11297, 933,
                -8754, -1473, 4680, -8011, -10919, -8011, -3866, 9412,
                13766, 11207, 10131, 14655, 10131, 14655, -9206, -3093,
                4796, 5428, -1942, -10177, 21517, -18347, -7809, -15077,
                200, -15077, 5385, 3248, -12293, 4956, 2159, 4956, 13520,
                -6080, 11048, 3605, -11663, 4877, -3012, -777, -12390,
                -4857, -2005, -18681, 1402, 19741, 1062, 19741, 7343, 7250,
                7343, 7250, 8649, -5440, -1479, -2200, 11252, 8802, 3677,
                -9005, 3677, -9005, 4299, -9005, 4299, -9005, 4299, 2304,
                -13716, -5971, -8425, -7251, 425, 20869, -12395, 6982,
                -2933, -15113, 6336, 729, 4317, 729, 4317, 729, 4317, -9135,
                -6363, 5601, -6363, 5601, -6363, -9348, 8604, 2098, 17852,
                -7521, 2708, -15291, -9963, 11923, 10901, 4788, -10291,
                2378, -6871, 8463, 26745, 1934, 26745, 1934, 26745, -11271,
                -4264, 727, -7310, -3895, 4210, -3895, -3033, -1732, -3033,
                -1732, -2766, 5600, -2766, 5600, -2766, -6627, 6979, 3671,
                4506, 1064, 4506, 1064, 4506, -2799, -8334, -2799, 11677,
                1615, 7346, -2604, 9110, -2604, 9110, 7351, 3675, 7351,
                3675, 8533, -2053, 9802, -5810, 2961, -5810, -11566, 2731,
                18000, 2731, 18000, 2731, 18000 >>,
            zc |-> << -5803, 9689, -5803, 9689, -11926, 9689, -11926, -9972,
                -16611, -25664, 3312, -3269, -15166, -4920, -15166, 14291,
                7196, 8036, 8710, 5573, -9656, -2994, -7797, -22021, -943,
                11299, 635, -8354, -727, -3724, -12046, -3724, -6953,
                -13608, 11445, 14285, 14624, 10389, 14624, 10389, 5029,
                -3018, -8799, 2416, 7364, -21458, -14179, 9609, -3025, 584,
                -7834, 584, -4479, 11303, 3805, 15705, -3674, 15705, 3470,
                10714, -6554, 14131, 2470, -7958, 1443, -7033, -1796, -9559,
                -20635, -1489, -643, 2759, -13261, 2759, 7080, 9719, 7080,
                9719, 5533, 6882, -890, -5292, -13595, 3463, 4095, 3950,
                4095, 3950, -7644, 3950, -7644, 3950, -7644, 18810, 1094,
                -7416, -9436, -4616, -11895, 1569, 10190, -3769, 9303,
                -13746, -1926, -3061, 23870, -3061, 23870, -3061, 23870,
                461, 8960, -5624, 8960, -5624, 8960, -12975, -3569, 10295,
                7486, 3580, -9309, 8049, -11942, -11420, 7472, 14416, 2480,
                -10365, 25516, -460, 5087, -21194, 5087, -21194, 5087, 2480,
                -9282, -21283, 92, 6235, -3215, 6235, 4099, -1182, 4099,
                -1182, 3507, -3680, 3507, -3680, 3507, -8223, -4822, 4045,
                758, -6059, 758, -6059, 758, -11857, 5106, -11857, -2723,
                12176, 763, -6028, -4769, -6028, -4769, 4034, 8787, 4034,
                8787, 3511, 10212, -1926, 10090, -3459, 10090, -8652, 16986,
                3192, 16986, 3192, 16986, 3192 >>,
            k |-> << 4, 6, 2, 4, 4, 2, 2, 2, 2, 2, 2, 2, 4, 2, 2, 2, 2, 2, 2, 2,
                2, 2, 2, 2, 2, 2, 2, 2, 2, 4, 2, 2, 2, 2, 2, 2, 4, 4, 2, 2,
                2, 2, 2, 2, 2, 2, 2, 2, 2, 4, 2, 2, 2, 2, 2, 4, 2, 2, 2, 2,
                2, 2, 2, 2, 2, 2, 2, 2, 2, 2, 2, 4, 2, 2, 4, 4, 2, 2, 2, 2,
                2, 2, 2, 2, 4, 8, 2, 6, 6, 4, 4, 2, 2, 2, 2, 2, 2, 2, 2, 2,
                2, 2, 2, 2, 2, 6, 6, 4, 4, 2, 2, 2, 6, 4, 4, 2, 2, 2, 2, 2,
                2, 2, 2, 2, 2, 2, 2, 2, 2, 2, 2, 2, 6, 4, 4, 2, 2, 2, 2, 2,
                2, 4, 2, 2, 4, 4, 2, 2, 6, 4, 4, 2, 2, 2, 2, 2, 6, 4, 4, 2,
                2, 4, 2, 2, 2, 2, 2, 4, 4, 2, 2, 4, 4, 2, 2, 2, 2, 2, 4, 2,
                2, 2, 6, 6, 4, 4, 2, 2 >>])
    @@ (1030 :> [u |-> << 455, 394, 222, 616, 958, 774, 778, 381, 289, 199, 59, 535,
                54, 664, 235, 926, 268, 153, 740, 918, 913, 216, 475, 596,
                163, 578, 512, 71, 865, 926, 619, 222, 306, 499, 291, 206,
                589, 915, 515, 505, 583, 112, 776, 877, 151, 756, 794, 424,
                706, 262, 219, 542, 922, 687, 874, 284, 848, 699, 751, 971,
                190, 659, 829, 480, 94, 845, 510, 275, 419, 652, 172, 705,
                794, 397, 227, 601, 969, 959 >>,
            z |-> << -22338, -13518, 5522, 4581, -5542, 7076, -5542, -14856,
                -9117, -6706, 567, -6706, 1587, -11700, -7096, -1623, -7096,
                4713, 3248, -1298, 24629, -1298, 24629, -11479, 2753, 4418,
                -7826, 1872, -13027, 1872, -13027, -7137, -18, -18703,
                -9351, 4103, 7847, 327, 12707, 26652, -9418, 2562, 4135,
                7471, 4514, 7471, -3476, 17052, -10277, -8446, 2277, 8050,
                2278, 7517, -3812, 7588, 4649, 10424, 5496, 10061, 5496,
                10061, -765, -9132, -17875, 378, -17875, -5810, 18259,
                -10346, 5399, 9439, -4519, -13784, 5148, 3874, -27183, -83 >>,
            zc |-> << -9546, -5128, -13151, 1164, 13026, 6955, 13026, -8364,
                -6401, 538, -6996, 538, -4300, 7275, -4752, 2988, -4752,
                -6778, 1868, -14946, -6307, -14946, -6307, 3282, -11839,
                26775, 236, 6688, 5603, 6688, 5603, -10249, -19489, -16,
                -6651, -13368, 1698, 8556, 34536, 1860, 2035, -3584, 3034,
                6507, -6117, 6507, 13653, -6210, 8907, -7160, -14869, 820,
                5122, 3771, 6628, -4688, 8114, 8291, -10701, 4857, -10701,
                4857, 12862, -442, 856, 12162, 856, -16211, -9628, 4819,
                -8594, 6596, 12995, -5181, -13812, 836, -29559, 5807 >>,
            k |-> << 2, 2, 2, 2, 4, 2, 2, 2, 2, 4, 2, 2, 2, 2, 4, 2, 2, 2, 2, 4,
                4, 2, 2, 2, 2, 2, 2, 4, 4, 2, 2, 2, 2, 2, 2, 2, 2, 2, 2, 2,
                2, 2, 2, 4, 2, 2, 2, 2, 2, 2, 2, 2, 2, 2, 2, 2, 2, 2, 4, 4,
                2, 2, 2, 2, 4, 2, 2, 2, 2, 2, 2, 2, 2, 2, 2, 2, 4, 2 >>])

\* a seed call that leaves the generator as it is
SeedState_ignored(s) == rng

\* np.random.seed(s)
SeedState(s) == [seed |-> s, pos |-> 0, gauss |-> None]
\* the generator in state r, with the stream of its seed at hand (.mt)
Load(r) ==
    [seed |-> r.seed, pos |-> r.pos, gauss |-> r.gauss, mt |-> MT19937[r.seed]]
\* the state of the generator g
Store(g) == [seed |-> g.seed, pos |-> g.pos, gauss |-> g.gauss]
\* np.random.random() of the generator g, in 1e-3: a value of [0, 1)
Random1000(g) == g.mt.u[g.pos + 1]
\* the generator after np.random.random()
AfterRandom(g) == [g EXCEPT !.pos = @ + 1]
\* the standard normal deviate np.random.normal draws from g, in 1e-4
Gauss(g) == IF IsNone(g.gauss) THEN g.mt.z[g.pos + 1] ELSE Val(g.gauss)
\* the generator after np.random.normal()
AfterNormal(g) ==
    IF IsNone(g.gauss)
    THEN [g EXCEPT !.pos = @ + g.mt.k[@ + 1],
                   !.gauss = Some(g.mt.zc[g.pos + 1])]
    ELSE [g EXCEPT !.gauss = None]
\* np.random.normal(0, sigma) of g, in the units of sigma (sigma >= 0)
Normal(g, sigma) == MulDiv(sigma, Gauss(g), 10000)

(***************************************************************************)
(* Python's salted string hash: StringHash[hs][s] is hash(s) % 3000 in a   *)
(* process started with PYTHONHASHSEED = hs (CPython 3.11, 64 bit); the    *)
(* program uses hash(s) % 1000 and hash(s) % 3 only.                       *)
(***************************************************************************)
Symbols == {"BTC", "ETH"}
Timeframes == {"1m", "5m", "15m", "30m", "1h", "2h", "4h", "6h", "8h", "12h",
               "1d", "3d", "1w", "10s"}

StringHash ==
    (0 :> ("" :> 0 @@ "1m" :> 1684 @@ "5m" :> 2813 @@ "15m" :> 578 @@
            "30m" :> 1815 @@ "1h" :> 1330 @@ "2h" :> 488 @@ "4h" :> 269 @@
            "6h" :> 1891 @@ "8h" :> 139 @@ "12h" :> 2788 @@ "1d" :> 22 @@
            "3d" :> 713 @@ "1w" :> 2018 @@ "10s" :> 1747 @@
            "BTC1m" :> 526 @@ "BTC5m" :> 1845 @@ "BTC15m" :> 2988 @@
            "BTC30m" :> 1789 @@ "BTC1h" :> 1114 @@ "BTC2h" :> 2600 @@
            "BTC4h" :> 565 @@ "BTC6h" :> 74 @@ "BTC8h" :> 1545 @@
            "BTC12h" :> 1412 @@ "BTC1d" :> 1241 @@ "BTC3d" :> 394 @@
            "BTC1w" :> 763 @@ "BTC10s" :> 2381 @@ "ETH1m" :> 70 @@
            "ETH5m" :> 907 @@ "ETH15m" :> 146 @@ "ETH30m" :> 1566 @@
            "ETH1h" :> 2544 @@ "ETH2h" :> 394 @@ "ETH4h" :> 2038 @@
            "ETH6h" :> 2840 @@ "ETH8h" :> 795 @@ "ETH12h" :> 721 @@
            "ETH1d" :> 261 @@ "ETH3d" :> 1428 @@ "ETH1w" :> 268 @@
            "ETH10s" :> 2390))
    @@ (1 :> ("" :> 0 @@ "1m" :> 1016 @@ "5m" :> 1382 @@ "15m" :> 2244 @@
            "30m" :> 217 @@ "1h" :> 2147 @@ "2h" :> 2373 @@ "4h" :> 313 @@
            "6h" :> 2489 @@ "8h" :> 453 @@ "12h" :> 2975 @@ "1d" :> 697 @@
            "3d" :> 2822 @@ "1w" :> 2908 @@ "10s" :> 153 @@
            "BTC1m" :> 2574 @@ "BTC5m" :> 2960 @@ "BTC15m" :> 178 @@
            "BTC30m" :> 2044 @@ "BTC1h" :> 564 @@ "BTC2h" :> 2540 @@
            "BTC4h" :> 1391 @@ "BTC6h" :> 1249 @@ "BTC8h" :> 1873 @@
            "BTC12h" :> 2203 @@ "BTC1d" :> 2954 @@ "BTC3d" :> 2048 @@
            "BTC1w" :> 866 @@ "BTC10s" :> 594 @@ "ETH1m" :> 714 @@
            "ETH5m" :> 1672 @@ "ETH15m" :> 2634 @@ "ETH30m" :> 1836 @@
            "ETH1h" :> 2311 @@ "ETH2h" :> 1692 @@ "ETH4h" :> 758 @@
            "ETH6h" :> 302 @@ "ETH8h" :> 2952 @@ "ETH12h" :> 2362 @@
            "ETH1d" :> 657 @@ "ETH3d" :> 1873 @@ "ETH1w" :> 382 @@
            "ETH10s" :> 1381))
    @@ (2 :> ("" :> 0 @@ "1m" :> 47 @@ "5m" :> 2661 @@ "15m" :> 2442 @@
            "30m" :> 622 @@ "1h" :> 1531 @@ "2h" :> 68 @@ "4h" :> 273 @@
            "6h" :> 1215 @@ "8h" :> 169 @@ "12h" :> 593 @@ "1d" :> 1178 @@
            "3d" :> 951 @@ "1w" :> 465 @@ "10s" :> 537 @@
            "BTC1m" :> 2022 @@ "BTC5m" :> 1369 @@ "BTC15m" :> 2107 @@
            "BTC30m" :> 2174 @@ "BTC1h" :> 243 @@ "BTC2h" :> 2044 @@
            "BTC4h" :> 1700 @@ "BTC6h" :> 267 @@ "BTC8h" :> 2895 @@
            "BTC12h" :> 445 @@ "BTC1d" :> 2265 @@ "BTC3d" :> 683 @@
            "BTC1w" :> 2382 @@ "BTC10s" :> 1738 @@ "ETH1m" :> 1628 @@
            "ETH5m" :> 188 @@ "ETH15m" :> 944 @@ "ETH30m" :> 1120 @@
            "ETH1h" :> 860 @@ "ETH2h" :> 171 @@ "ETH4h" :> 863 @@
            "ETH6h" :> 66 @@ "ETH8h" :> 1026 @@ "ETH12h" :> 1754 @@
            "ETH1d" :> 2868 @@ "ETH3d" :> 1108 @@ "ETH1w" :> 2223 @@
            "ETH10s" :> 855))
    @@ (3 :> ("" :> 0 @@ "1m" :> 736 @@ "5m" :> 611 @@ "15m" :> 1233 @@
            "30m" :> 631 @@ "1h" :> 344 @@ "2h" :> 606 @@ "4h" :> 233 @@
            "6h" :> 835 @@ "8h" :> 1264 @@ "12h" :> 854 @@ "1d" :> 1903 @@
            "3d" :> 451 @@ "1w" :> 2980 @@ "10s" :> 371 @@
            "BTC1m" :> 2136 @@ "BTC5m" :> 469 @@ "BTC15m" :> 2287 @@
            "BTC30m" :> 681 @@ "BTC1h" :> 1135 @@ "BTC2h" :> 1071 @@
            "BTC4h" :> 1055 @@ "BTC6h" :> 2195 @@ "BTC8h" :> 140 @@
            "BTC12h" :> 2032 @@ "BTC1d" :> 1457 @@ "BTC3d" :> 465 @@
            "BTC1w" :> 1464 @@ "BTC10s" :> 965 @@ "ETH1m" :> 2853 @@
            "ETH5m" :> 971 @@ "ETH15m" :> 2463 @@ "ETH30m" :> 2527 @@
            "ETH1h" :> 1811 @@ "ETH2h" :> 1831 @@ "ETH4h" :> 2906 @@
            "ETH6h" :> 781 @@ "ETH8h" :> 2345 @@ "ETH12h" :> 231 @@
            "ETH1d" :> 1886 @@ "ETH3d" :> 2552 @@ "ETH1w" :> 2628 @@
            "ETH10s" :> 1507))
    @@ (633 :> ("" :> 0 @@ "1m" :> 966 @@ "5m" :> 2209 @@ "15m" :> 721 @@
            "30m" :> 439 @@ "1h" :> 101 @@ "2h" :> 312 @@ "4h" :> 1542 @@
            "6h" :> 1846 @@ "8h" :> 1051 @@ "12h" :> 2891 @@
            "1d" :> 168 @@ "3d" :> 222 @@ "1w" :> 1764 @@ "10s" :> 2272 @@
            "BTC1m" :> 2605 @@ "BTC5m" :> 1768 @@ "BTC15m" :> 1273 @@
            "BTC30m" :> 2288 @@ "BTC1h" :> 2919 @@ "BTC2h" :> 2012 @@
            "BTC4h" :> 1055 @@ "BTC6h" :> 2806 @@ "BTC8h" :> 300 @@
            "BTC12h" :> 2253 @@ "BTC1d" :> 1537 @@ "BTC3d" :> 1584 @@
            "BTC1w" :> 1070 @@ "BTC10s" :> 1622 @@ "ETH1m" :> 1847 @@
            "ETH5m" :> 2494 @@ "ETH15m" :> 2161 @@ "ETH30m" :> 540 @@
            "ETH1h" :> 829 @@ "ETH2h" :> 778 @@ "ETH4h" :> 2072 @@
            "ETH6h" :> 1942 @@ "ETH8h" :> 1457 @@ "ETH12h" :> 2801 @@
            "ETH1d" :> 359 @@ "ETH3d" :> 1916 @@ "ETH1w" :> 277 @@
            "ETH10s" :> 1270))

\* hash(s) under salt hs, up to a multiple of 3000
hash(hs, s) == StringHash[hs][s]

(***************************************************************************)
(* utils.py                                                                *)
(***************************************************************************)
\* a lookup that takes an unknown label for one minute
get_timeframe_minutes_default_1(timeframe) ==
    CASE timeframe = "15m" -> 15
      [] timeframe = "30m" -> 30
      [] timeframe = "1h" -> 60
      [] timeframe = "2h" -> 120
      [] timeframe = "4h" -> 240
      [] timeframe = "12h" -> 720
      [] timeframe = "1d" -> 1440
      [] timeframe = "3d" -> 4320
      [] timeframe = "1w" -> 10080
      [] OTHER -> 1

get_timeframe_minutes(timeframe) ==
    CASE timeframe = "15m" -> 15
      [] timeframe = "30m" -> 30
      [] timeframe = "1h" -> 60
      [] timeframe = "2h" -> 120
      [] timeframe = "4h" -> 240
      [] timeframe = "12h" -> 720
      [] timeframe = "1d" -> 1440
      [] timeframe = "3d" -> 4320
      [] timeframe = "1w" -> 10080
      [] OTHER -> 60

\* int(a / b) for b > 0: the quotient truncated toward zero
IntDiv(a, b) == IF a >= 0 THEN a \div b ELSE -((-a) \div b)

calculate_periods_from_days(days, tf_mins) ==
    LET total_minutes == days * 24 * 60
    IN IntDiv(total_minutes, tf_mins)

calculate_periods_from_date_range(start_date, end_date, tf_mins) ==
    LET time_diff == end_date - start_date
        total_minutes == IntDiv(time_diff, 60)
    IN IntDiv(total_minutes, tf_mins)

apply_performance_caps(p, tf_mins, limit) ==
    LET p1 == IF ~IsNone(limit) /\ Val(limit) > 0 /\ Val(limit) < p
              THEN Val(limit) ELSE p
    IN IF IsNone(limit) /\ tf_mins < 60 /\ p1 > 2000 THEN 2000
       ELSE IF IsNone(limit) /\ p1 > 10000 THEN 10000
       ELSE p1

Clip(x, lo, hi) == IF x < lo THEN lo ELSE IF x > hi THEN hi ELSE x

\* a clip that bounds the prices from above only
validate_and_clip_prices_upper_only(ps) ==
    [i \in 1 .. Len(ps) |-> Min2(ps[i], 1000000)]

validate_and_clip_prices(ps) == [i \in 1 .. Len(ps) |-> Clip(ps[i], 1, 1000000)]

\* timestamps that mark the end of each period
generate_timestamps_at_end(n, tf_mins, start_date) ==
    [k \in 1 .. n |-> start_date + (tf_mins * k) * 60]

generate_timestamps(n, tf_mins, start_date) ==
    [k \in 1 .. n |-> start_date + (tf_mins * (k - 1)) * 60]

(***************************************************************************)
(* models.py.  Every loop "for i in range(periods)" threads a record       *)
(*   st = [out |-> values so far, cur |-> the recurrence variable,         *)
(*         rng |-> the generator, n |-> draws made so far]                 *)
(* through the loop body; i is the 0-based period index.                   *)
(***************************************************************************)
DrawRandom(st) == [st EXCEPT !.rng = AfterRandom(st.rng), !.n = st.n + 1]
DrawNormal(st) == [st EXCEPT !.rng = AfterNormal(st.rng), !.n = st.n + 1]
Emit(st, v) == [st EXCEPT !.out = Append(st.out, v)]

\* the loop body with the bull branch as the fallback of any other tag
trend_step_default_bull(st, i, env) ==
    LET n == env.periods
        u == Random1000(st.rng)
    IN CASE env.scenario = "bear" ->
              LET base_decline == -((6000 * i) \div n)
                  noise == u - 500
                  cyclical_rally == (4 * Sin1000(6 * i, n)) \div 5
              IN Emit(DrawRandom(st), base_decline + noise + cyclical_rally)
         [] env.scenario = "sideways" ->
              LET cyclical_movement == (3 * Sin1000(12 * i, n)) \div 2
                  noise == ((u - 500) * 4) \div 5
                  minor_trend == Sin1000(3 * i, n) \div 2
              IN Emit(DrawRandom(st), cyclical_movement + noise + minor_trend)
         [] OTHER ->
              LET base_growth == (8000 * i) \div n
                  noise == u - 500
                  cyclical_pullback == Sin1000(8 * i, n) \div 2
              IN Emit(DrawRandom(st), base_growth + noise + cyclical_pullback)

\* the loop body that draws its jitter whatever the tag
trend_step_always_draws(st, i, env) ==
    LET n == env.periods
        u == Random1000(st.rng)
    IN CASE env.scenario = "bull" ->
              LET base_growth == (8000 * i) \div n
                  noise == u - 500
                  cyclical_pullback == Sin1000(8 * i, n) \div 2
              IN Emit(DrawRandom(st), base_growth + noise + cyclical_pullback)
         [] env.scenario = "bear" ->
              LET base_decline == -((6000 * i) \div n)
                  noise == u - 500
                  cyclical_rally == (4 * Sin1000(6 * i, n)) \div 5
              IN Emit(DrawRandom(st), base_decline + noise + cyclical_rally)
         [] env.scenario = "sideways" ->
              LET cyclical_movement == (3 * Sin1000(12 * i, n)) \div 2
                  noise == ((u - 500) * 4) \div 5
                  minor_trend == Sin1000(3 * i, n) \div 2
              IN Emit(DrawRandom(st), cyclical_movement + noise + minor_trend)
         [] OTHER -> Emit(DrawRandom(st), 0)

\* body of the loop of generate_market_trend, one branch per scenario
trend_step(st, i, env) ==
    LET n == env.periods
        u == Random1000(st.rng)
    IN CASE env.scenario = "bull" ->
              LET base_growth == (8000 * i) \div n
                  noise == u - 500
                  cyclical_pullback == Sin1000(8 * i, n) \div 2
              IN Emit(DrawRandom(st), base_growth + noise + cyclical_pullback)
         [] env.scenario = "bear" ->
              LET base_decline == -((6000 * i) \div n)
                  noise == u - 500
                  cyclical_rally == (4 * Sin1000(6 * i, n)) \div 5
              IN Emit(DrawRandom(st), base_decline + noise + cyclical_rally)
         [] env.scenario = "sideways" ->
              LET cyclical_movement == (3 * Sin1000(12 * i, n)) \div 2
                  noise == ((u - 500) * 4) \div 5
                  minor_trend == Sin1000(3 * i, n) \div 2
              IN Emit(DrawRandom(st), cyclical_movement + noise + minor_trend)
         [] OTHER -> Emit(st, 0)

base_volatility(timeframe) ==
    CASE timeframe = "15m" -> 80
      [] timeframe = "30m" -> 120
      [] timeframe = "1h" -> 150
      [] timeframe = "2h" -> 200
      [] timeframe = "4h" -> 250
      [] timeframe = "12h" -> 350
      [] timeframe = "1d" -> 450
      [] timeframe = "3d" -> 650
      [] timeframe = "1w" -> 850
      [] OTHER -> 200

\* the clustering update of current_vol pulling away from the excess
update_current_vol_reverting_below(vol, shock, base) ==
    LET alpha_term == (shock * shock) \div 100000
        beta_term == (8 * (vol - base)) \div 10
        v0 == base + alpha_term - beta_term
        v1 == Max2(v0, (3 * base) \div 10)
    IN Min2(v1, 3 * base)

\* the clustering update of current_vol without its ceiling
update_current_vol_no_ceiling(vol, shock, base) ==
    LET alpha_term == (shock * shock) \div 100000
        beta_term == (8 * (vol - base)) \div 10
        v0 == base + alpha_term + beta_term
    IN Max2(v0, (3 * base) \div 10)

\* the clustering update of current_vol with its floor and ceiling
update_current_vol(vol, shock, base) ==
    LET alpha_term == (shock * shock) \div 100000
        beta_term == (8 * (vol - base)) \div 10
        v0 == base + alpha_term + beta_term
        v1 == Max2(v0, (3 * base) \div 10)
    IN Min2(v1, 3 * base)

\* 1 + 0.3 * sin(progress * pi * 15), in 1e-3
cyclical_factor(i, n) == 1000 + (3 * Sin1000(15 * i, n)) \div 10

\* body of the loop of generate_volatility_cycles
volatility_step(st, i, env) ==
    LET base == base_volatility(env.timeframe)
        shock == Normal(st.rng, 3000)
        vol == update_current_vol(st.cur, shock, base)
        cyclical_vol == cyclical_factor(i, env.periods)
    IN [Emit(DrawNormal(st), (vol * cyclical_vol) \div 1000) EXCEPT !.cur = vol]

\* body of the loop of calculate_price_series
price_step(st, i, env) ==
    LET target_price == MulDiv(env.base_price, 10000 + env.trend[i + 1], 10000)
        volatility == env.vol[i + 1]
        price_shock == Normal(st.rng, volatility)
        price_change == (target_price - st.cur) \div 10
                        + MulDiv(st.cur, price_shock, 10000)
        current_price == st.cur + price_change
    IN [Emit(DrawNormal(st), current_price) EXCEPT !.cur = current_price]

base_volume == 1000000
\* the unit the model counts volume in
VolumeUnit == base_volume \div 10

\* 0.5 + random() * 1.5, in 1e-3, with a sign slip
random_factor_slip(u) == (3 * u) \div 2 - 500

\* 0.5 + random() * 1.5, in 1e-3
random_factor(u) == 500 + (3 * u) \div 2

\* body of the loop of generate_realistic_volume; the result is a lower
\* approximation of the program's volume, in VolumeUnit shares
volume_step(st, i, env) ==
    LET volatility_factor == 10000 + 5 * env.vol[i + 1]
        rf == random_factor(Random1000(st.rng))
        cyclical == cyclical_factor(i, env.periods)
        \* base_volume * volatility_factor * random_factor * cyclical_factor
        flat == MulDiv(volatility_factor * rf, cyclical,
                       (10000 * 1000) \div (base_volume \div 1000))
        \* (price_change_factor - 1) applied to it
        extra == IF i > 0
                 THEN MulDiv(Abs(env.prices[i + 1] - env.prices[i]),
                             (10 * flat) \div VolumeUnit, env.prices[i])
                 ELSE 0
    IN Emit(DrawRandom(st), flat \div VolumeUnit + extra)

(***************************************************************************)
(* utils.generate_ohlc_data.  st.out holds the candles <<o, h, l, c>>      *)
(* before clipping; st.cur is closes[i - 1].                               *)
(***************************************************************************)
\* a candle whose high and low are derived from the close alone
candle_close_only(open_price, close_price, high_variation, low_variation) ==
    << open_price,
       close_price + MulDiv(close_price, high_variation, 10000),
       close_price - MulDiv(close_price, low_variation, 10000),
       close_price >>

\* a candle that takes the two candidates as they are
candle_candidates_only(open_price, close_price, high_variation, low_variation) ==
    LET hi == Max2(open_price, close_price)
        lo == Min2(open_price, close_price)
    IN << open_price,
          hi + MulDiv(hi, high_variation, 10000),
          lo - MulDiv(lo, low_variation, 10000),
          close_price >>

\* high and low of one candle around its open and close
candle(open_price, close_price, high_variation, low_variation) ==
    LET hi == Max2(open_price, close_price)
        lo == Min2(open_price, close_price)
        high_price == hi + MulDiv(hi, high_variation, 10000)
        low_price == lo - MulDiv(lo, low_variation, 10000)
    IN << open_price,
          Max3(open_price, high_price, close_price),
          Min3(open_price, low_price, close_price),
          close_price >>

\* the loop body with a gap shock drawn for every period, the first included
ohlc_step_gap_always(st, i, env) ==
    LET s1 == DrawNormal(st)
        gap_factor == Normal(st.rng, (env.vol[i + 1] * 2) \div 10)
        prev_close == IF i = 0 THEN env.prices[1] ELSE st.cur
        open_price == prev_close + MulDiv(prev_close, gap_factor, 10000)
        close_price == env.prices[i + 1]
        intrabar_volatility == env.vol[i + 1] \div 2
        high_variation == Abs(Normal(s1.rng, intrabar_volatility))
        s2 == DrawNormal(s1)
        low_variation == Abs(Normal(s2.rng, intrabar_volatility))
        s3 == DrawNormal(s2)
    IN [Emit(s3, candle(open_price, close_price, high_variation, low_variation))
          EXCEPT !.cur = close_price]

\* the loop body that carries the open, not the close, to the next period
ohlc_step_prev_open(st, i, env) ==
    LET s1 == IF i = 0 THEN st ELSE DrawNormal(st)
        gap_factor == Normal(st.rng, (env.vol[i + 1] * 2) \div 10)
        open_price == IF i = 0 THEN env.prices[1]
                      ELSE st.cur + MulDiv(st.cur, gap_factor, 10000)
        close_price == env.prices[i + 1]
        intrabar_volatility == env.vol[i + 1] \div 2
        high_variation == Abs(Normal(s1.rng, intrabar_volatility))
        s2 == DrawNormal(s1)
        low_variation == Abs(Normal(s2.rng, intrabar_volatility))
        s3 == DrawNormal(s2)
    IN [Emit(s3, candle(open_price, close_price, high_variation, low_variation))
          EXCEPT !.cur = open_price]

ohlc_step(st, i, env) ==
    LET s1 == IF i = 0 THEN st ELSE DrawNormal(st)
        gap_factor == Normal(st.rng, (env.vol[i + 1] * 2) \div 10)
        open_price == IF i = 0 THEN env.prices[1]
                      ELSE st.cur + MulDiv(st.cur, gap_factor, 10000)
        close_price == env.prices[i + 1]
        intrabar_volatility == env.vol[i + 1] \div 2
        high_variation == Abs(Normal(s1.rng, intrabar_volatility))
        s2 == DrawNormal(s1)
        low_variation == Abs(Normal(s2.rng, intrabar_volatility))
        s3 == DrawNormal(s2)
    IN [Emit(s3, candle(open_price, close_price, high_variation, low_variation))
          EXCEPT !.cur = close_price]

Step(stage, st, i, env) ==
    CASE stage = "trend" -> trend_step(st, i, env)
      [] stage = "volatility" -> volatility_step(st, i, env)
      [] stage = "prices" -> price_step(st, i, env)
      [] stage = "volumes" -> volume_step(st, i, env)
      [] stage = "ohlc" -> ohlc_step(st, i, env)

\* for i in range(lo, hi): st = Step(st, i), by halving the range
RECURSIVE Loop(_, _, _, _, _)
Loop(stage, st, lo, hi, env) ==
    IF hi <= lo \/ Len(st.out) < 0 THEN st
    ELSE IF hi = lo + 1 THEN Step(stage, st, lo, env)
    ELSE LET mid == (lo + hi) \div 2
         IN Loop(stage, Loop(stage, st, lo, mid, env), mid, hi, env)

\* a new array: np.zeros, np.clip or astype, named by the place that made it
Alloc(h, site, val) == Append(h, [site |-> site, val |-> val])

Begin(cur, r) == [out |-> <<>>, cur |-> cur, rng |-> Load(r), n |-> 0]

\* each returns the loop's final record: .out is the function's result,
\* .rng the generator state it leaves
generate_market_trend(scen, n, r) ==
    Loop("trend", Begin(0, r), 0, n, [scenario |-> scen, periods |-> n])

generate_volatility_cycles(n, timeframe, r) ==
    Loop("volatility", Begin(base_volatility(timeframe), r), 0, n,
         [timeframe |-> timeframe, periods |-> n])

calculate_price_series(base_price, trend, vol, n, r) ==
    Loop("prices", Begin(base_price, r), 0, n,
         [base_price |-> base_price, trend |-> trend, vol |-> vol])

generate_realistic_volume(n, ps, vol, r) ==
    Loop("volumes", Begin(0, r), 0, n,
         [periods |-> n, prices |-> ps, vol |-> vol])

\* a column returned without the final clip
Column_unclipped(candles, k) == [i \in 1 .. Len(candles) |-> candles[i][k]]

\* one of the arrays opens, highs, lows, closes filled by the loop
Filled(candles, k) == [i \in 1 .. Len(candles) |-> candles[i][k]]

\* one column of the returned dict: np.clip(values, 1, 1_000_000)
Column(candles, k) == [i \in 1 .. Len(candles) |-> Clip(candles[i][k], 1, 1000000)]

generate_ohlc_data(ps, vol, vols, n, r) ==
    LET st == Loop("ohlc", Begin(0, r), 0, n, [prices |-> ps, vol |-> vol])
    IN [out |-> [open |-> Column(st.out, 1), high |-> Column(st.out, 2),
                 low |-> Column(st.out, 3), close |-> Column(st.out, 4),
                 volume |-> vols],
        candles |-> st.out,
        rng |-> st.rng,
        n |-> st.n]

(***************************************************************************)
(* core.generate_mock_data                                                 *)
(***************************************************************************)
HasRange(a) == ~IsNone(a.start_date) /\ ~IsNone(a.end_date)

\* the validation with days checked before the date range is looked at
validation_error_days_first(a) ==
    IF a.days <= 0 THEN "Days parameter must be positive"
    ELSE IF a.days > 365
         THEN "Days parameter cannot exceed 365 for performance reasons"
         ELSE IF HasRange(a) /\ Val(a.start_date) >= Val(a.end_date)
              THEN "start_date must be before end_date" ELSE ""

\* the validation with days = 0 let through
validation_error_zero_days(a) ==
    IF HasRange(a)
    THEN IF Val(a.start_date) >= Val(a.end_date)
         THEN "start_date must be before end_date" ELSE ""
    ELSE IF a.days < 0 THEN "Days parameter must be positive"
         ELSE IF a.days > 365
              THEN "Days parameter cannot exceed 365 for performance reasons"
              ELSE ""

\* the ValueError raised by the validation, "" when none is
validation_error(a) ==
    IF HasRange(a)
    THEN IF Val(a.start_date) >= Val(a.end_date)
         THEN "start_date must be before end_date" ELSE ""
    ELSE IF a.days <= 0 THEN "Days parameter must be positive"
         ELSE IF a.days > 365
              THEN "Days parameter cannot exceed 365 for performance reasons"
              ELSE ""

\* periods before the caps
uncapped_periods(a) ==
    IF HasRange(a)
    THEN calculate_periods_from_date_range(Val(a.start_date), Val(a.end_date),
                                           get_timeframe_minutes(a.timeframe))
    ELSE calculate_periods_from_days(a.days, get_timeframe_minutes(a.timeframe))

\* periods after "Apply performance caps and handle limit"
resolved_periods(a) ==
    apply_performance_caps(uncapped_periods(a),
                           get_timeframe_minutes(a.timeframe), a.limit)

\* the start that takes a start_date given without an end_date
resolved_start_date_when_given(a) ==
    IF ~IsNone(a.start_date) THEN Val(a.start_date) ELSE 0 - a.days * 86400

\* reference_date - timedelta(days=days), or the given start_date
resolved_start_date(a) ==
    IF HasRange(a) THEN Val(a.start_date) ELSE 0 - a.days * 86400

\* 42 + hash(timeframe) % 1000
seed_of(hs, timeframe) == 42 + (hash(hs, timeframe) % 1000)

\* the scenario passed to the models
resolve_scenario(hs, a) ==
    IF a.scenario = "auto"
    THEN LET scenario_seed == hash(hs, a.symbol \o a.timeframe) % 3
         IN << "bull", "bear", "sideways" >>[scenario_seed + 1]
    ELSE a.scenario

base_price == 50000

NoTable == [index |-> <<>>, open |-> <<>>, high |-> <<>>, low |-> <<>>,
            close |-> <<>>, volume |-> <<>>]
NoData == [open |-> <<>>, high |-> <<>>, low |-> <<>>, close |-> <<>>,
           volume |-> <<>>]
NoArgs == [symbol |-> "", timeframe |-> "", limit |-> None, days |-> 0,
           start_date |-> None, end_date |-> None, scenario |-> ""]
NoCaps == [periods |-> 0, timeframe_mins |-> 0, limit |-> None, result |-> None]

ClearLocals ==
    /\ trend_multipliers' = <<>>
    /\ volatility_cycles' = <<>>
    /\ prices' = <<>>
    /\ volumes' = <<>>
    /\ data' = NoData
    /\ table' = NoTable
    /\ draws' = 0
    /\ current_vol' = 0
    /\ heap' = <<>>

\* the call with the reseeding moved ahead of the validation
Call_seed_first(a, maxp) ==
    /\ pc = "idle"
    /\ validation_error(a) = "" => resolved_periods(a) <= maxp
    /\ args' = a
    /\ timeframe_mins' = get_timeframe_minutes(a.timeframe)
    /\ error' = validation_error(a)
    /\ ClearLocals
    /\ rng' = SeedState(seed_of(hashseed, a.timeframe))
    /\ IF validation_error(a) # ""
       THEN /\ pc' = "raised"
            /\ periods' = 0
            /\ actual_start_date' = 0
       ELSE /\ pc' = "resolved"
            /\ periods' = resolved_periods(a)
            /\ actual_start_date' = resolved_start_date(a)
    /\ scenario' = a.scenario
    /\ UNCHANGED <<hashseed, kept, caps>>

\* lines 63-94: entry, validation, period count; maxp bounds the table length
Call(a, maxp) ==
    /\ pc = "idle"
    /\ validation_error(a) = "" => resolved_periods(a) <= maxp
    /\ args' = a
    /\ timeframe_mins' = get_timeframe_minutes(a.timeframe)
    /\ error' = validation_error(a)
    /\ ClearLocals
    /\ IF validation_error(a) # ""
       THEN /\ pc' = "raised"
            /\ periods' = 0
            /\ actual_start_date' = 0
       ELSE /\ pc' = "resolved"
            /\ periods' = resolved_periods(a)
            /\ actual_start_date' = resolved_start_date(a)
    /\ scenario' = a.scenario
    /\ UNCHANGED <<hashseed, rng, kept, caps>>

\* the step with the seed taken from symbol and timeframe
Seed_by_symbol ==
    /\ pc = "resolved"
    /\ rng' = SeedState(seed_of(hashseed, args.symbol \o args.timeframe))
    /\ scenario' = resolve_scenario(hashseed, args)
    /\ pc' = "seeded"
    /\ UNCHANGED <<hashseed, args, timeframe_mins, periods, actual_start_date,
                   trend_multipliers, volatility_cycles, prices, volumes, data,
                   table, error, draws, kept, caps, current_vol, heap>>

\* the step with the generator left in the caller's state
Seed_keeping_state ==
    /\ pc = "resolved"
    /\ scenario' = resolve_scenario(hashseed, args)
    /\ pc' = "seeded"
    /\ UNCHANGED <<hashseed, rng, args, timeframe_mins, periods,
                   actual_start_date, trend_multipliers, volatility_cycles,
                   prices, volumes, data, table, error, draws, kept, caps,
                   current_vol,
                   heap>>

\* lines 96-104: reseed, resolve "auto"
Seed ==
    /\ pc = "resolved"
    /\ rng' = SeedState(seed_of(hashseed, args.timeframe))
    /\ scenario' = resolve_scenario(hashseed, args)
    /\ pc' = "seeded"
    /\ UNCHANGED <<hashseed, args, timeframe_mins, periods, actual_start_date,
                   trend_multipliers, volatility_cycles, prices, volumes, data,
                   table, error, draws, kept, caps, current_vol,
                   heap>>

\* line 107
Trend ==
    /\ pc = "seeded"
    /\ LET st == generate_market_trend(scenario, periods, rng)
       IN /\ trend_multipliers' = st.out
          /\ heap' = Alloc(heap, "trend", st.out)
          /\ rng' = Store(st.rng)
          /\ draws' = draws + st.n
    /\ pc' = "trend"
    /\ UNCHANGED <<hashseed, args, timeframe_mins, periods, actual_start_date,
                   scenario, volatility_cycles, prices, volumes, data, table,
                   error, kept, caps, current_vol>>

\* line 110
Volatility ==
    /\ pc = "trend"
    /\ LET st == generate_volatility_cycles(periods, args.timeframe, rng)
       IN /\ volatility_cycles' = st.out
          /\ heap' = Alloc(heap, "volatility", st.out)
          /\ current_vol' = st.cur
          /\ rng' = Store(st.rng)
          /\ draws' = draws + st.n
    /\ pc' = "volatility"
    /\ UNCHANGED <<hashseed, args, timeframe_mins, periods, actual_start_date,
                   scenario, trend_multipliers, prices, volumes, data, table,
                   error, kept, caps>>

\* lines 113-115
Prices ==
    /\ pc = "volatility"
    /\ LET st == calculate_price_series(base_price, trend_multipliers,
                                        volatility_cycles, periods, rng)
       IN /\ prices' = st.out
          /\ heap' = Alloc(heap, "prices", st.out)
          /\ rng' = Store(st.rng)
          /\ draws' = draws + st.n
    /\ pc' = "prices"
    /\ UNCHANGED <<hashseed, args, timeframe_mins, periods, actual_start_date,
                   scenario, trend_multipliers, volatility_cycles, volumes,
                   data, table, error, kept, caps, current_vol>>

\* the clip written into the array it was given (np.clip with out=prices)
ClipPrices_in_place ==
    /\ pc = "prices"
    /\ prices' = validate_and_clip_prices(prices)
    /\ heap' = [k \in 1 .. Len(heap) |->
                   IF heap[k].site = "prices"
                   THEN [heap[k] EXCEPT !.val = validate_and_clip_prices(prices)]
                   ELSE heap[k]]
    /\ pc' = "clipped"
    /\ UNCHANGED <<hashseed, rng, args, timeframe_mins, periods,
                   actual_start_date, scenario, trend_multipliers,
                   volatility_cycles, volumes, data, table, error, draws, kept,
                   caps, current_vol>>

\* line 118
ClipPrices ==
    /\ pc = "prices"
    /\ prices' = validate_and_clip_prices(prices)
    /\ heap' = Alloc(heap, "clipped", validate_and_clip_prices(prices))
    /\ pc' = "clipped"
    /\ UNCHANGED <<hashseed, rng, args, timeframe_mins, periods,
                   actual_start_date, scenario, trend_multipliers,
                   volatility_cycles, volumes, data, table, error, draws, kept,
                   caps, current_vol>>

\* line 121
Volume ==
    /\ pc = "clipped"
    /\ LET st == generate_realistic_volume(periods, prices, volatility_cycles, rng)
       IN /\ volumes' = st.out
          /\ heap' = Alloc(Alloc(heap, "volumes", st.out), "volumes_int", st.out)
          /\ rng' = Store(st.rng)
          /\ draws' = draws + st.n
    /\ pc' = "volumes"
    /\ UNCHANGED <<hashseed, args, timeframe_mins, periods, actual_start_date,
                   scenario, trend_multipliers, volatility_cycles, prices, data,
                   table, error, kept, caps, current_vol>>

\* the four arrays of utils.py lines 23-26 and the five of lines 57-61
AllocOhlc(h, st) ==
    LET h1 == Alloc(h, "opens", Filled(st.candles, 1))
        h2 == Alloc(h1, "highs", Filled(st.candles, 2))
        h3 == Alloc(h2, "lows", Filled(st.candles, 3))
        h4 == Alloc(h3, "closes", Filled(st.candles, 4))
        h5 == Alloc(h4, "open", st.out.open)
        h6 == Alloc(h5, "high", st.out.high)
        h7 == Alloc(h6, "low", st.out.low)
        h8 == Alloc(h7, "close", st.out.close)
    IN Alloc(h8, "volume", st.out.volume)

\* line 124
Ohlc ==
    /\ pc = "volumes"
    /\ LET st == generate_ohlc_data(prices, volatility_cycles, volumes, periods, rng)
       IN /\ data' = st.out
          /\ heap' = AllocOhlc(heap, st)
          /\ rng' = Store(st.rng)
          /\ draws' = draws + st.n
    /\ pc' = "ohlc"
    /\ UNCHANGED <<hashseed, args, timeframe_mins, periods, actual_start_date,
                   scenario, trend_multipliers, volatility_cycles, prices,
                   volumes, table, error, kept, caps, current_vol>>

\* lines 127-133: the index, and the DataFrame returned
Return ==
    /\ pc = "ohlc"
    /\ LET timestamps == generate_timestamps(periods, timeframe_mins,
                                             actual_start_date)
       IN table' = [index |-> timestamps, open |-> data.open,
                    high |-> data.high, low |-> data.low,
                    close |-> data.close, volume |-> data.volume]
    /\ pc' = "returned"
    /\ UNCHANGED <<hashseed, rng, args, timeframe_mins, periods,
                   actual_start_date, scenario, trend_multipliers,
                   volatility_cycles, prices, volumes, data, error, draws, kept,
                   caps, current_vol,
                   heap>>

Stages == Seed \/ Trend \/ Volatility \/ Prices \/ ClipPrices \/ Volume
          \/ Ohlc \/ Return

(***************************************************************************)
(* The caller (src/tests).                                                 *)
(***************************************************************************)
test_seed == 42

\* the seeds the caller passes to np.random.seed
CallerSeeds == {test_seed, test_seed + 1}

\* the most calls of np.random.random() the caller makes after seeding
MaxCallerDraws == 7

\* the generator states a caller leaves: seeded, then some calls of
\* random(), then possibly one of normal()
RngStates ==
    LET plain == {[seed |-> s, pos |-> p, gauss |-> None] :
                     s \in CallerSeeds, p \in 0 .. MaxCallerDraws}
    IN plain \cup {Store(AfterNormal(Load(r))) : r \in plain}

\* np.random.seed(test_seed) between calls
ResetRandomState ==
    /\ pc = "idle"
    /\ rng' = SeedState(test_seed)
    /\ UNCHANGED <<hashseed, pc, args, timeframe_mins, periods,
                   actual_start_date, scenario, trend_multipliers,
                   volatility_cycles, prices, volumes, data, table, error,
                   draws, kept, caps, current_vol,
                   heap>>

\* the call is over (table returned or ValueError raised): its frame is gone
\* and the caller is back in control
Resume ==
    /\ pc \in {"returned", "raised"}
    /\ pc' = "idle"
    /\ args' = NoArgs
    /\ timeframe_mins' = 0
    /\ periods' = 0
    /\ actual_start_date' = 0
    /\ scenario' = ""
    /\ error' = ""
    /\ ClearLocals
    /\ UNCHANGED <<hashseed, rng, kept, caps>>

\* data1 = generate_mock_data(...): the caller holds on to a returned table
Keep ==
    /\ pc = "returned"
    /\ kept = <<>>
    /\ kept' = << [args |-> args, table |-> table, scenario |-> scenario] >>
    /\ UNCHANGED <<hashseed, rng, pc, args, timeframe_mins, periods,
                   actual_start_date, scenario, trend_multipliers,
                   volatility_cycles, prices, volumes, data, table, error,
                   draws, caps, current_vol,
                   heap>>

\* the interpreter exits and the program is run again: the new process has
\* its own string-hash salt and generator state; a table kept from the
\* earlier run stays with whoever compares the runs
Restart ==
    /\ pc = "idle"
    /\ hashseed' \in 0 .. MaxHashSeed
    /\ rng' \in RngStates
    /\ UNCHANGED <<pc, args, timeframe_mins, periods,
                   actual_start_date, scenario, trend_multipliers,
                   volatility_cycles, prices, volumes, data, table, error,
                   draws, kept, caps, current_vol,
                   heap>>

(***************************************************************************)
(* Arguments of the calls explored.                                        *)
(***************************************************************************)
Scenarios == {"bull", "bear", "sideways", "auto", "crash"}

Args(symbols, timeframes, limits, dayss, starts, ends, scenarios) ==
    [symbol : symbols, timeframe : timeframes, limit : limits, days : dayss,
     start_date : starts, end_date : ends, scenario : scenarios]

\* every timeframe and scenario, tables of 1 .. MaxPeriods rows
ArgsModels ==
    Args({"BTC"}, Timeframes, {Some(1), Some(MaxPeriods)}, {30}, {None}, {None},
         Scenarios)
    \cup Args({"ETH"}, Timeframes, {Some(MaxPeriods)}, {30}, {None}, {None},
              {"auto"})

\* the time arguments: valid and invalid days, limits, date ranges
ArgsTime ==
    Args({"BTC"}, {"1h", "1d", "1w"}, {None, Some(0), Some(2)},
         {-1, 0, 1, 365, 366},
         {None, Some(0), Some(86400)},
         {None, Some(0), Some(86490), Some(3 * 86400)}, {"bull"})

Init ==
    /\ hashseed \in 0 .. MaxHashSeed
    /\ rng \in RngStates
    /\ pc = "idle"
    /\ args = NoArgs
    /\ timeframe_mins = 0
    /\ periods = 0
    /\ actual_start_date = 0
    /\ scenario = ""
    /\ trend_multipliers = <<>>
    /\ volatility_cycles = <<>>
    /\ current_vol = 0
    /\ prices = <<>>
    /\ volumes = <<>>
    /\ data = NoData
    /\ table = NoTable
    /\ error = ""
    /\ draws = 0
    /\ heap = <<>>
    /\ kept = <<>>
    /\ caps = NoCaps

Generate == \E a \in ArgsModels \cup ArgsTime : Call(a, MaxPeriods)

Next == Generate \/ Stages \/ Resume \/ ResetRandomState

Spec == Init /\ [][Next]_vars

(***************************************************************************)
(* SpecRepeat: a caller that keeps one returned table and goes on calling  *)
(* (tests/test_api_contract.py, test_reproducibility_contract).            *)
(***************************************************************************)
ArgsRepeat ==
    Args({"BTC"}, {"5m", "1h", "1w"}, {Some(1), Some(MaxPeriods)}, {30}, {None},
         {None}, {"bull", "sideways", "auto"})

GenerateRepeat == \E a \in ArgsRepeat : Call(a, MaxPeriods)

NextRepeat == GenerateRepeat \/ Stages \/ Resume \/ ResetRandomState \/ Keep

SpecRepeat == Init /\ [][NextRepeat]_vars

(***************************************************************************)
(* SpecAuto: calls with scenario="auto" that differ in symbol, timeframe,  *)
(* limit, days and dates, next to one kept earlier call of this run of the *)
(* program or of an earlier run.                                           *)
(***************************************************************************)
ArgsAuto ==
    Args(Symbols, {"1h", "1d"}, {Some(1), Some(MaxPeriods)}, {1, 30},
         {None, Some(0)}, {Some(3 * 86400)}, {"auto"})

GenerateAuto == \E a \in ArgsAuto : Call(a, MaxPeriods)

NextAuto ==
    GenerateAuto \/ Stages \/ Resume \/ ResetRandomState \/ Keep \/ Restart

SpecAuto == Init /\ [][NextAuto]_vars

(***************************************************************************)
(* SpecDays: calls with and without a date range over valid and invalid    *)
(* days, next to one kept earlier call.                                    *)
(***************************************************************************)
ArgsDays ==
    Args({"BTC"}, {"1d", "1w"}, {None, Some(2)}, {-1, 0, 1, 30, 366},
         {None, Some(0)}, {Some(3 * 86400)}, {"bull"})

GenerateDays == \E a \in ArgsDays : Call(a, MaxPeriods)

NextDays == GenerateDays \/ Stages \/ Resume \/ ResetRandomState \/ Keep

SpecDays == Init /\ [][NextDays]_vars

(***************************************************************************)
(* SpecSymbol: calls that differ in symbol and scenario, next to one kept  *)
(* earlier call.                                                           *)
(***************************************************************************)
ArgsSymbol ==
    Args(Symbols, {"1h", "1w"}, {Some(MaxPeriods)}, {30}, {None}, {None},
         {"bull", "bear", "sideways", "auto"})

GenerateSymbol == \E a \in ArgsSymbol : Call(a, MaxPeriods)

NextSymbol == GenerateSymbol \/ Stages \/ Resume \/ ResetRandomState \/ Keep

SpecSymbol == Init /\ [][NextSymbol]_vars

(***************************************************************************)
(* SpecRange: weekly tables over a date range of 60 weeks, in a process    *)
(* whose salt seeds the weekly stream with 806; on that stream the price   *)
(* path integrator leaves the clip range.                                  *)
(***************************************************************************)
RangeSalt == 633
RangeRows == 60

ArgsRange ==
    Args(Symbols, {"1w"}, {None, Some(RangeRows - 2)}, {30}, {Some(0)},
         {Some(RangeRows * 7 * 86400)}, Scenarios)

InitRange ==
    /\ hashseed = RangeSalt
    /\ rng \in RngStates
    /\ pc = "idle"
    /\ args = NoArgs
    /\ timeframe_mins = 0
    /\ periods = 0
    /\ actual_start_date = 0
    /\ scenario = ""
    /\ trend_multipliers = <<>>
    /\ volatility_cycles = <<>>
    /\ current_vol = 0
    /\ prices = <<>>
    /\ volumes = <<>>
    /\ data = NoData
    /\ table = NoTable
    /\ error = ""
    /\ draws = 0
    /\ heap = <<>>
    /\ kept = <<>>
    /\ caps = NoCaps

GenerateRange == \E a \in ArgsRange : Call(a, RangeRows)

NextRange == GenerateRange \/ Stages \/ Resume \/ ResetRandomState

SpecRange == InitRange /\ [][NextRange]_vars

(***************************************************************************)
(* SpecContract: the calls of the length contract, limit=N with the        *)
(* default days, tables of up to ContractRows rows.                        *)
(***************************************************************************)
ContractRows == 1000

\* the labels listed in the docstring of generate_mock_data
SupportedTimeframes == Timeframes \ {"10s"}

ArgsContract ==
    Args({"BTC"}, {"1h"}, {Some(1), Some(50), Some(100), Some(ContractRows)},
         {30}, {None}, {None}, {"bull"})
    \cup Args({"BTC"}, SupportedTimeframes, {Some(20)}, {30}, {None}, {None},
              {"bull"})

GenerateContract == \E a \in ArgsContract : Call(a, ContractRows)

NextContract == GenerateContract \/ Stages \/ Resume \/ ResetRandomState

SpecContract == Init /\ [][NextContract]_vars

(***************************************************************************)
(* SpecCaps: apply_performance_caps applied to drawn inputs.               *)
(***************************************************************************)
CapsPeriods == {0, 1, 20, 1999, 2000, 2001, 10000, 10001, 35040}
CapsTimeframes == {15, 30, 60, 1440}
CapsLimits == {None} \cup {Some(l) : l \in {-1, 0, 1, 20, 2000, 2001, 10000,
                                             10001, 35040, 50000}}

InitCaps ==
    /\ hashseed = 0
    /\ rng = SeedState(test_seed)
    /\ pc = "idle"
    /\ args = NoArgs
    /\ timeframe_mins = 0
    /\ periods = 0
    /\ actual_start_date = 0
    /\ scenario = ""
    /\ trend_multipliers = <<>>
    /\ volatility_cycles = <<>>
    /\ current_vol = 0
    /\ prices = <<>>
    /\ volumes = <<>>
    /\ data = NoData
    /\ table = NoTable
    /\ error = ""
    /\ draws = 0
    /\ heap = <<>>
    /\ kept = <<>>
    /\ caps \in [periods : CapsPeriods, timeframe_mins : CapsTimeframes,
                 limit : CapsLimits, result : {None}]

ApplyCaps ==
    /\ IsNone(caps.result)
    /\ caps' = [caps EXCEPT !.result =
                   Some(apply_performance_caps(caps.periods, caps.timeframe_mins,
                                               caps.limit))]
    /\ UNCHANGED <<hashseed, rng, pc, args, timeframe_mins, periods,
                   actual_start_date, scenario, trend_multipliers,
                   volatility_cycles, prices, volumes, data, table, error,
                   draws, kept, current_vol,
                   heap>>

NextCaps == ApplyCaps

SpecCaps == InitCaps /\ [][NextCaps]_vars

(***************************************************************************)
(* SpecEntry: lines 63-94 of generate_mock_data (validation and period     *)
(* count) for calls over long horizons; the stages that fill the           *)
(* resolved number of rows are left out.                                   *)
(***************************************************************************)
ArgsEntry ==
    Args({"BTC"}, {"15m", "1h", "1d"},
         {None, Some(-1), Some(0), Some(1999), Some(2000), Some(50000)},
         {30, 365}, {None, Some(0)}, {None, Some(400 * 86400)}, {"bull"})

GenerateEntry == \E a \in ArgsEntry : Call(a, uncapped_periods(a))

NextEntry == GenerateEntry

SpecEntry == Init /\ [][NextEntry]_vars

(***************************************************************************)
(* SpecVol: generate_volatility_cycles(periods, timeframe) on drawn        *)
(* inputs, one iteration of its loop per step.                             *)
(***************************************************************************)
InitVol ==
    /\ hashseed = 0
    /\ rng \in RngStates
    /\ pc = "in_volatility"
    /\ \E tf \in Timeframes :
          /\ args = [NoArgs EXCEPT !.timeframe = tf]
          /\ current_vol = base_volatility(tf)
    /\ timeframe_mins = 0
    /\ periods \in 1 .. MaxVolPeriods
    /\ actual_start_date = 0
    /\ scenario = ""
    /\ trend_multipliers = <<>>
    /\ volatility_cycles = <<>>
    /\ prices = <<>>
    /\ volumes = <<>>
    /\ data = NoData
    /\ table = NoTable
    /\ error = ""
    /\ draws = 0
    /\ heap = Alloc(<<>>, "volatility", <<>>)
    /\ kept = <<>>
    /\ caps = NoCaps

\* one pass through the body of "for i in range(periods)"
VolatilityPeriod ==
    /\ pc = "in_volatility"
    /\ Len(volatility_cycles) < periods
    /\ LET st == volatility_step([out |-> volatility_cycles, cur |-> current_vol,
                                  rng |-> Load(rng), n |-> draws],
                                 Len(volatility_cycles),
                                 [timeframe |-> args.timeframe,
                                  periods |-> periods])
       IN /\ volatility_cycles' = st.out
          /\ heap' = [heap EXCEPT ![1].val = st.out]
          /\ current_vol' = st.cur
          /\ rng' = Store(st.rng)
          /\ draws' = st.n
    /\ UNCHANGED <<hashseed, pc, args, timeframe_mins, periods,
                   actual_start_date, scenario, trend_multipliers, prices,
                   volumes, data, table, error, kept, caps>>

NextVol == VolatilityPeriod

SpecVol == InitVol /\ [][NextVol]_vars

(***************************************************************************)
(* SpecOhlc: generate_ohlc_data(prices, volatility_cycles, volumes,        *)
(* periods) on drawn inputs, non-positive prices and volatilities above 1  *)
(* included.                                                               *)
(***************************************************************************)
OhlcPrices == {-50000, 0, 1, 50000}
OhlcVolatilities == {0, 200, 30000}

InitOhlc ==
    /\ hashseed = 0
    /\ rng \in RngStates
    /\ pc = "volumes"
    /\ args = NoArgs
    /\ timeframe_mins = 0
    /\ periods \in 1 .. MaxOhlcPeriods
    /\ actual_start_date = 0
    /\ scenario = ""
    /\ trend_multipliers = <<>>
    /\ \E v \in OhlcVolatilities : volatility_cycles = [i \in 1 .. periods |-> v]
    /\ current_vol = 0
    /\ prices \in [1 .. periods -> OhlcPrices]
    /\ volumes = [i \in 1 .. periods |-> 1]
    /\ data = NoData
    /\ table = NoTable
    /\ error = ""
    /\ draws = 0
    /\ heap = <<>>
    /\ kept = <<>>
    /\ caps = NoCaps

NextOhlc == Ohlc

SpecOhlc == InitOhlc /\ [][NextOhlc]_vars

(***************************************************************************)
(* Properties.                                                             *)
(***************************************************************************)
Rows == 1 .. Len(table.index)
PriceColumns == {"open", "high", "low", "close"}

\* C1: every row of a returned table has high >= open, high >= close,
\* high >= low, low <= open and low <= close (on the clipped values).
C1_OhlcInvariant ==
    pc = "returned" =>
        \A i \in Rows :
            /\ table.high[i] >= table.open[i]
            /\ table.high[i] >= table.close[i]
            /\ table.high[i] >= table.low[i]
            /\ table.low[i] <= table.open[i]
            /\ table.low[i] <= table.close[i]

\* a returned table with a gapped candle whose low was clipped
C1_Witness ==
    /\ pc = "returned"
    /\ \E i \in Rows : /\ i > 1
                       /\ table.low[i] = 1
                       /\ table.open[i] > table.close[i]
                       /\ table.high[i] > table.open[i]

\* C2: every open, high, low and close of a returned table lies in
\* [1, 1000000].
C2_PriceRange ==
    pc = "returned" =>
        \A i \in Rows : \A c \in PriceColumns :
            table[c][i] >= 1 /\ table[c][i] <= 1000000

\* a returned table in which the clip was hit: a candle whose open the
\* synthesis computed below 1 is returned with open 1
C2_Witness ==
    /\ pc = "returned"
    /\ \E i \in Rows : /\ \E k \in 1 .. Len(heap) :
                              heap[k].site = "opens" /\ heap[k].val[i] < 1
                       /\ table.open[i] = 1
                       /\ table.high[i] > 1

\* C3: every volume of a returned table is an integer greater than 0.
C3_VolumePositive ==
    pc = "returned" =>
        \A i \in Rows : table.volume[i] \in Int /\ table.volume[i] > 0

\* a returned table whose volume responded to a price change
C3_Witness ==
    /\ pc = "returned"
    /\ \E i \in Rows : /\ i > 1
                       /\ table.close[i] # table.close[i - 1]
                       /\ table.volume[i] > 0

\* the minute count a timeframe label stands for
timeframe_label_minutes(label) ==
    CASE label = "1m" -> 1 [] label = "5m" -> 5 [] label = "15m" -> 15
      [] label = "30m" -> 30 [] label = "1h" -> 60 [] label = "2h" -> 120
      [] label = "4h" -> 240 [] label = "6h" -> 360 [] label = "8h" -> 480
      [] label = "12h" -> 720 [] label = "1d" -> 1440 [] label = "3d" -> 4320
      [] label = "1w" -> 10080

\* C4: limit=N with the default days and timeframe 1h returns exactly N
\* rows, for N in {1, 50, 100, 1000}.
C4_LengthContract ==
    (/\ pc = "returned"
     /\ args.timeframe = "1h" /\ args.days = 30 /\ ~HasRange(args)
     /\ args.limit \in {Some(1), Some(50), Some(100), Some(1000)})
    => Len(table.index) = Val(args.limit)

\* C5: limit=20 with the default days returns exactly 20 rows for every
\* timeframe label of the documented set.
C5_TimeframeLength ==
    (/\ pc = "returned"
     /\ args.timeframe \in SupportedTimeframes
     /\ args.days = 30 /\ ~HasRange(args) /\ args.limit = Some(20))
    => Len(table.index) = 20

\* C6: in a returned table the timestamps are strictly increasing and
\* consecutive ones differ by the minute count of the requested label.
C6_TimeframeSpacing ==
    (pc = "returned" /\ args.timeframe \in SupportedTimeframes) =>
        \A i \in Rows :
            i > 1 => /\ table.index[i] > table.index[i - 1]
                     /\ table.index[i] - table.index[i - 1]
                            = 60 * timeframe_label_minutes(args.timeframe)

\* C7: a call with the arguments of a kept table returns an identical table,
\* whatever the generator state before it and whatever ran in between.
C7_Determinism ==
    (pc = "returned" /\ kept # <<>> /\ kept[1].args = args)
    => table = kept[1].table

\* a second call with the kept arguments has returned a table of several rows
C7_Witness ==
    /\ pc = "returned"
    /\ kept # <<>>
    /\ kept[1].args = args
    /\ Len(table.index) > 1
    /\ rng # SeedState(test_seed)

\* the inputs the contract rejects
Rejected(a) ==
    \/ ~HasRange(a) /\ a.days <= 0
    \/ ~HasRange(a) /\ a.days > 365
    \/ HasRange(a) /\ Val(a.start_date) >= Val(a.end_date)

\* C8: a call raises a validation error exactly when no complete date range
\* is given and days <= 0 or days > 365, or both dates are given with
\* start_date >= end_date.
C8_ValidationErrors ==
    pc # "idle" => /\ (pc = "raised") <=> Rejected(args)
                   /\ (error # "") <=> Rejected(args)

\* a call with one date only and too many days has been rejected
C8_Witness ==
    /\ pc = "raised"
    /\ ~IsNone(args.start_date)
    /\ IsNone(args.end_date)
    /\ args.days > 365

Untouched ==
    /\ heap = <<>>
    /\ trend_multipliers = <<>>
    /\ volatility_cycles = <<>>
    /\ current_vol = 0
    /\ prices = <<>>
    /\ volumes = <<>>
    /\ data = NoData
    /\ table = NoTable
    /\ draws = 0

InCall == pc \notin {"idle", "raised", "returned"}

\* the position that follows each position of a call in progress
NextPosition ==
    [p \in {"resolved", "seeded", "trend", "volatility", "prices", "clipped",
            "volumes", "ohlc"} |->
        CASE p = "resolved" -> "seeded" [] p = "seeded" -> "trend"
          [] p = "trend" -> "volatility" [] p = "volatility" -> "prices"
          [] p = "prices" -> "clipped" [] p = "clipped" -> "volumes"
          [] p = "volumes" -> "ohlc" [] p = "ohlc" -> "returned"]

\* C9: a call that fails validation fails at entry, leaves the generator as
\* it was, has drawn nothing and produced no row; any other call only moves
\* on from stage to stage and returns a table whose columns and index have
\* the resolved period count.
C9_FailFastOrComplete ==
    /\ [][pc' = "raised" => pc = "idle" /\ rng' = rng]_vars
    /\ [](pc = "raised" => Untouched)
    /\ [][InCall => pc' = NextPosition[pc]]_vars
    /\ [](pc = "returned" =>
            /\ error = ""
            /\ Len(table.index) = periods
            /\ \A c \in PriceColumns \cup {"volume"} : Len(table[c]) = periods)

\* a failed call next to a generator state that no seeding produces here
C9_Witness ==
    /\ pc = "raised"
    /\ rng # SeedState(test_seed)
    /\ rng # SeedState(seed_of(hashseed, args.timeframe))

\* the three-way rule of the interface contract
three_way_rule(p, tf_mins, limit) ==
    IF ~IsNone(limit) /\ 0 < Val(limit) /\ Val(limit) < p THEN Val(limit)
    ELSE IF tf_mins < 60 /\ p > 2000 THEN 2000
    ELSE IF p > 10000 THEN 10000
    ELSE p

\* C10: the resolved period count equals the three-way rule, for every
\* period count, timeframe minute count and limit.
C10_ThreeWayRule ==
    ~IsNone(caps.result) =>
        Val(caps.result) = three_way_rule(caps.periods, caps.timeframe_mins,
                                          caps.limit)

\* the positions of a call after the scenario was resolved
PastSeed == {"seeded", "trend", "volatility", "prices", "clipped", "volumes",
             "ohlc", "returned"}

\* C11: with scenario="auto" the scenario handed to the trend model is one
\* of bull, bear, sideways, and is a function of (symbol, timeframe) only:
\* it equals the one resolved by any earlier call with the same symbol and
\* timeframe, in this run of the program or an earlier one, whatever the
\* generator state, limit, days and dates of the two calls.
C11_AutoScenario ==
    (pc \in PastSeed /\ args.scenario = "auto") =>
        /\ scenario \in {"bull", "bear", "sideways"}
        /\ (/\ kept # <<>>
            /\ kept[1].args.scenario = "auto"
            /\ kept[1].args.symbol = args.symbol
            /\ kept[1].args.timeframe = args.timeframe)
           => scenario = kept[1].scenario

\* C12: a non-empty table returned for a date range starts at start_date
\* and has every timestamp in [start_date, end_date], also when the limit
\* cut the period count.
C12_DateRangeTimestamps ==
    (pc = "returned" /\ HasRange(args) /\ Len(table.index) > 0) =>
        /\ table.index[1] = Val(args.start_date)
        /\ \A i \in Rows : /\ Val(args.start_date) <= table.index[i]
                           /\ table.index[i] <= Val(args.end_date)

\* a table of several rows returned for a date range that the limit cut
C12_Witness ==
    /\ pc = "returned"
    /\ HasRange(args)
    /\ Val(args.start_date) # 0
    /\ ~IsNone(args.limit)
    /\ Len(table.index) > 1
    /\ Len(table.index) < uncapped_periods(args)

\* C13: every element of the volatility signal, the value stored after the
\* cyclical factor, lies in [0.3 * base, 3.0 * base] for the base constant
\* of the timeframe.
C13_VolatilityBounds ==
    pc = "in_volatility" =>
        \A k \in 1 .. Len(volatility_cycles) :
            /\ 10 * volatility_cycles[k] >= 3 * base_volatility(args.timeframe)
            /\ volatility_cycles[k] <= 3 * base_volatility(args.timeframe)

\* C17: after the update and clamp of every period current_vol lies in
\* [0.3 * base, 3.0 * base].
C17_CurrentVolClamped ==
    (pc = "in_volatility" /\ Len(volatility_cycles) > 0) =>
        /\ 10 * current_vol >= 3 * base_volatility(args.timeframe)
        /\ current_vol <= 3 * base_volatility(args.timeframe)

\* in the middle of the loop the ceiling holds current_vol while the
\* period's output value is above it
C17_Witness ==
    /\ pc = "in_volatility"
    /\ Len(volatility_cycles) > 1
    /\ Len(volatility_cycles) < periods
    /\ current_vol = 3 * base_volatility(args.timeframe)
    /\ volatility_cycles[Len(volatility_cycles)] > current_vol

\* the labels of the volatility lookup table
VolatilityLabels == {"15m", "30m", "1h", "2h", "4h", "12h", "1d", "3d", "1w"}

\* C18: for a label outside the lookup table the volatility model starts
\* from the base constant of the 1-hour timeframe.
C18_UnknownLabelBase ==
    (/\ pc = "in_volatility"
     /\ Len(volatility_cycles) = 0
     /\ args.timeframe \notin VolatilityLabels)
    => current_vol = base_volatility("1h")

\* C14: a call with both dates raises no error about days, and returns the
\* table of any earlier call that differs from it in days only, also for
\* days <= 0 and days > 365.
C14_DaysIgnored ==
    HasRange(args) =>
        /\ error \notin {"Days parameter must be positive",
                         "Days parameter cannot exceed 365 for performance reasons"}
        /\ (/\ pc = "returned"
            /\ kept # <<>>
            /\ [kept[1].args EXCEPT !.days = args.days] = args)
           => table = kept[1].table

\* a table of several rows returned for a date range and days > 365, with
\* the table of the same call for days = 0 kept
C14_Witness ==
    /\ pc = "returned"
    /\ HasRange(args)
    /\ args.days > 365
    /\ kept # <<>>
    /\ kept[1].args.days = 0
    /\ [kept[1].args EXCEPT !.days = args.days] = args
    /\ Len(table.index) > 1

\* C15: a call that passes validation with a documented timeframe label
\* returns a table of at least one row.
C15_AtLeastOneRow ==
    (pc = "returned" /\ args.timeframe \in SupportedTimeframes) =>
        Len(table.index) >= 1

\* the minute counts of the enumerated labels
enumerated_minutes ==
    [l \in {"15m", "30m", "1h", "2h", "4h", "12h", "1d", "3d", "1w"} |->
        CASE l = "15m" -> 15 [] l = "30m" -> 30 [] l = "1h" -> 60
          [] l = "2h" -> 120 [] l = "4h" -> 240 [] l = "12h" -> 720
          [] l = "1d" -> 1440 [] l = "3d" -> 4320 [] l = "1w" -> 10080]

\* C16: the minute count the call works with is the one of the enumerated
\* label, and 60 for every other label; the lookup raises no error.
C16_TimeframeMinutes ==
    pc \in {"resolved", "raised"} \cup PastSeed =>
        /\ timeframe_mins =
               IF args.timeframe \in DOMAIN enumerated_minutes
               THEN enumerated_minutes[args.timeframe] ELSE 60
        /\ error \in {"", "Days parameter must be positive",
                      "Days parameter cannot exceed 365 for performance reasons",
                      "start_date must be before end_date"}

\* a table returned for a label that is not enumerated, spaced by an hour
C16_Witness ==
    /\ pc = "returned"
    /\ args.timeframe = "10s"
    /\ timeframe_mins = 60
    /\ Len(table.index) > 1
    /\ table.index[2] - table.index[1] = 3600

\* the number of draws each stage makes for n periods
StageDraws(stage, scen, n) ==
    CASE stage = "trend" -> IF scen \in {"bull", "bear", "sideways"} THEN n ELSE 0
      [] stage = "volatility" -> n
      [] stage = "prices" -> n
      [] stage = "volumes" -> n
      [] stage = "ohlc" -> IF n > 0 THEN 3 * n - 1 ELSE 0

\* the draws made by the time a position is reached
DrawsAt(p, scen, n) ==
    LET t == StageDraws("trend", scen, n)
        v == t + StageDraws("volatility", scen, n)
        c == v + StageDraws("prices", scen, n)
        m == c + StageDraws("volumes", scen, n)
        o == m + StageDraws("ohlc", scen, n)
    IN CASE p = "seeded" -> 0 [] p = "trend" -> t [] p = "volatility" -> v
         [] p = "prices" -> c [] p = "clipped" -> c [] p = "volumes" -> m
         [] p = "ohlc" -> o [] p = "returned" -> o

\* the state after c calls of random() from state r
Randoms(r, c) == [r EXCEPT !.pos = @ + c]

\* the state after c calls of normal() from state r
RECURSIVE Normals(_, _)
Normals(r, c) ==
    IF c <= 0 \/ r.pos < 0 THEN r
    ELSE IF c = 1 THEN Store(AfterNormal(Load(r)))
    ELSE Normals(Normals(r, c \div 2), c - c \div 2)

\* the generator state after the first d draws of a call of n periods,
\* made in stage order from the state r0: uniform draws in the trend and
\* volume models, normal draws in the other three
AfterDraws(r0, d, scen, n) ==
    LET t == StageDraws("trend", scen, n)
        s1 == Randoms(r0, Min2(d, t))
        s3 == Normals(s1, Min2(d - t, 2 * n))
        s4 == Randoms(s3, Min2(d - t - 2 * n, n))
    IN IF d <= t THEN s1
       ELSE IF d <= t + 2 * n THEN s3
       ELSE IF d <= t + 3 * n THEN s4
       ELSE Normals(s4, d - t - 3 * n)

\* the generator state of the k-th draw made after the reseeding (k >= 1)
StreamAt(k) ==
    AfterDraws(SeedState(seed_of(hashseed, args.timeframe)), k - 1, scenario,
               periods)

\* C19: within a call the generator is reseeded before the first draw, and
\* the draws are made in stage order: the trend model takes the first block
\* of the reseeded stream, then the volatility model, the price path, the
\* volume model and the OHLC synthesis each take the next block; no other
\* step of the call draws.
C19_DrawOrder ==
    /\ [](pc = "resolved" => draws = 0)
    /\ [](pc \in PastSeed =>
            /\ draws = DrawsAt(pc, scenario, periods)
            /\ rng = StreamAt(draws + 1))
    /\ [][draws' > draws =>
            <<pc, pc'>> \in {<<"seeded", "trend">>, <<"trend", "volatility">>,
                             <<"volatility", "prices">>, <<"clipped", "volumes">>,
                             <<"volumes", "ohlc">>}]_vars

\* a call has returned after draws of all five stages, from a generator
\* state other than the seed of the call
C19_Witness ==
    /\ pc = "returned"
    /\ periods > 1
    /\ scenario \in {"bull", "bear", "sideways"}
    /\ draws = 7 * periods - 1
    /\ SeedState(seed_of(hashseed, args.timeframe)) # SeedState(test_seed)

\* C20: the first candle opens at the first price-path value, so its open
\* equals its close, and the OHLC synthesis draws no gap shock for it
\* (3 * periods - 1 draws in all).
C20_FirstOpen ==
    (pc \in {"ohlc", "returned"} /\ periods > 0) =>
        /\ data.open[1] = prices[1]
        /\ data.open[1] = data.close[1]
        /\ pc = "returned" => table.open[1] = table.close[1]
        /\ draws = DrawsAt("volumes", scenario, periods) + 3 * periods - 1

\* a returned table whose second candle opens with a gap and whose first
\* candle has an intrabar range
C20_Witness ==
    /\ pc = "returned"
    /\ Len(table.index) > 1
    /\ table.open[1] = table.close[1]
    /\ table.high[1] > table.open[1]
    /\ table.low[1] < table.open[1]
    /\ table.open[2] # table.close[1]

\* the array made at a place of the call, <<>> while there is none
Obj(site) ==
    LET ks == {k \in 1 .. Len(heap) : heap[k].site = site}
    IN IF ks = {} THEN <<>> ELSE heap[CHOOSE k \in ks : TRUE].val

\* C21: for every period the close recorded by the OHLC synthesis before
\* its final clip equals the price path integrator's output for that
\* period, and for i > 0 the open is previous_close * (1 + gap_shock) with
\* previous_close the integrator's output for period i - 1.
C21_CloseIsPricePath ==
    pc \in {"ohlc", "returned"} =>
        \A i \in 1 .. periods :
            /\ Obj("closes")[i] = Obj("prices")[i]
            /\ i > 1 =>
                 LET previous_close == Obj("prices")[i - 1]
                     gap_shock ==
                         Normal(Load(StreamAt(DrawsAt("volumes", scenario, periods)
                                              + 3 * (i - 1))),
                                (volatility_cycles[i] * 2) \div 10)
                 IN Obj("opens")[i] =
                        previous_close + MulDiv(previous_close, gap_shock, 10000)

\* C21 as amended: the close recorded before the final clip equals the
\* price path the orchestrator hands to the synthesis, which is the
\* integrator's output clipped to [1, 1000000]; for i > 0 the open is
\* previous_close * (1 + gap_shock) with previous_close that clipped value
\* for period i - 1.
C21_CloseIsClippedPath ==
    pc \in {"ohlc", "returned"} =>
        \A i \in 1 .. periods :
            /\ Obj("closes")[i] = Clip(Obj("prices")[i], 1, 1000000)
            /\ i > 1 =>
                 LET previous_close == Clip(Obj("prices")[i - 1], 1, 1000000)
                     gap_shock ==
                         Normal(Load(StreamAt(DrawsAt("volumes", scenario, periods)
                                              + 3 * (i - 1))),
                                (volatility_cycles[i] * 2) \div 10)
                 IN Obj("opens")[i] =
                        previous_close + MulDiv(previous_close, gap_shock, 10000)

\* the synthesis has run on a path of several periods that the integrator
\* left outside the clip range, and has drawn a gap for that period
C21_Witness ==
    /\ pc = "ohlc"
    /\ periods > 2
    /\ \E i \in 2 .. periods :
          /\ Obj("prices")[i] # Clip(Obj("prices")[i], 1, 1000000)
          /\ Obj("closes")[i] # Obj("prices")[i]
          /\ Obj("opens")[i] # Obj("closes")[i - 1]

\* the ordering of the candle made of o, h, l, c
Ordered(o, h, l, c) == h >= o /\ h >= c /\ h >= l /\ l <= o /\ l <= c

\* C22: for any prices, volatilities and shocks given to generate_ohlc_data
\* every candle computed before clipping has high >= open, high >= close,
\* high >= low, low <= open, low <= close, and open, high, low, close > 0.
C22_CandleInvariants ==
    pc = "ohlc" =>
        \A i \in 1 .. periods :
            /\ Ordered(Obj("opens")[i], Obj("highs")[i], Obj("lows")[i],
                       Obj("closes")[i])
            /\ Obj("opens")[i] > 0
            /\ Obj("highs")[i] > 0
            /\ Obj("lows")[i] > 0
            /\ Obj("closes")[i] > 0

\* C22 as amended: every candle computed before clipping has the five
\* ordering relations; open, high, low, close > 0 hold of the values
\* returned after the clip, which keeps the ordering.
C22_OrderedThenPositive ==
    pc = "ohlc" =>
        \A i \in 1 .. periods :
            /\ Ordered(Obj("opens")[i], Obj("highs")[i], Obj("lows")[i],
                       Obj("closes")[i])
            /\ Ordered(data.open[i], data.high[i], data.low[i], data.close[i])
            /\ \A c \in PriceColumns : data[c][i] > 0

\* a candle between positive open and close whose low, before clipping, is
\* not positive, and a candle of a negative price
C22_Witness ==
    /\ pc = "ohlc"
    /\ periods > 1
    /\ \E i \in 1 .. periods : /\ Obj("opens")[i] > 0
                               /\ Obj("closes")[i] > 0
                               /\ Obj("lows")[i] <= 0
    /\ \E i \in 1 .. periods : /\ Obj("closes")[i] < 0
                               /\ Obj("highs")[i] > Obj("closes")[i]

\* C23: the volume model never divides by zero: every price it is given as
\* a divisor (the price of a period before the last) is >= 1, whatever the
\* integrator's output was, and for period 0 its price-change factor is 1,
\* so that the first volume is the one of a single-period call and does not
\* depend on the price.
C23_NoZeroDivisor ==
    /\ pc \in {"clipped", "volumes"} =>
          /\ prices = Obj("clipped")
          /\ \A i \in 1 .. periods - 1 : prices[i] >= 1
    /\ pc = "volumes" =>
          /\ Len(volumes) = periods
          /\ periods > 0 =>
                volumes[1] =
                    generate_realistic_volume(
                        1, <<1>>, <<volatility_cycles[1]>>,
                        StreamAt(DrawsAt("clipped", scenario, periods) + 1)
                    ).out[1]

\* the volume model has run on a path whose integrator output was zero or
\* below at a period that serves as divisor
C23_Witness ==
    /\ pc = "volumes"
    /\ periods > 1
    /\ \E i \in 1 .. periods - 1 : /\ Obj("prices")[i] <= 0
                                   /\ prices[i] = 1
                                   /\ volumes[i + 1] > 0
    /\ Len(volumes) = periods

\* the tags generate_market_trend has a branch for
TrendScenarios == {"bull", "bear", "sideways"}

\* C24: for a scenario tag outside bull, bear, sideways the trend signal
\* has the length of the call and is 0 throughout, also for "auto" handed
\* to generate_market_trend unresolved, and no error is raised:
\* generate_mock_data accepts the tag.
C24_UnknownScenarioZeros ==
    /\ (pc \in PastSeed \ {"seeded"} /\ scenario \notin TrendScenarios) =>
          /\ trend_multipliers = [i \in 1 .. periods |-> 0]
          /\ error = ""
    /\ pc \in PastSeed =>
          generate_market_trend("auto", periods, rng).out
              = [i \in 1 .. periods |-> 0]
    /\ (pc # "idle" /\ args.scenario \notin TrendScenarios \cup {"auto"}) =>
          /\ (pc = "raised") <=> Rejected(args)
          /\ pc \in PastSeed => scenario = args.scenario

\* a table of several rows returned for the tag "crash" from a zero trend
C24_Witness ==
    /\ pc = "returned"
    /\ args.scenario = "crash"
    /\ periods > 1
    /\ Len(table.index) = periods
    /\ trend_multipliers = [i \in 1 .. periods |-> 0]

\* the arrays a position of the call got from the stage that led to it
StageResults ==
    [p \in {"trend", "volatility", "prices", "clipped", "volumes", "ohlc"} |->
        CASE p = "trend" -> {"trend"}
          [] p = "volatility" -> {"volatility"}
          [] p = "prices" -> {"prices"}
          [] p = "clipped" -> {"clipped"}
          [] p = "volumes" -> {"volumes", "volumes_int"}
          [] p = "ohlc" -> {"opens", "highs", "lows", "closes",
                            "open", "high", "low", "close", "volume"}]

\* C25: no stage changes an array that exists when it starts, so the
\* sequences a stage received hold the same values after it returned, and
\* the result of each stage is an array that did not exist before.
C25_NoMutation ==
    /\ [][heap' # <<>> =>
            /\ Len(heap') >= Len(heap)
            /\ \A k \in 1 .. Len(heap) : heap'[k] = heap[k]]_vars
    /\ [][(pc' # pc /\ pc' \in DOMAIN StageResults) =>
            /\ \A site \in StageResults[pc'] :
                  /\ \A k \in 1 .. Len(heap) : heap[k].site # site
                  /\ \E k \in Len(heap) + 1 .. Len(heap') : heap'[k].site = site
            /\ Len(heap') = Len(heap) + Cardinality(StageResults[pc'])]_vars
    /\ [](pc \in PastSeed \ {"seeded"} => trend_multipliers = Obj("trend"))
    /\ [](pc \in PastSeed \ {"seeded", "trend"} =>
            volatility_cycles = Obj("volatility"))
    /\ [](pc = "prices" => prices = Obj("prices"))
    /\ [](pc \in {"clipped", "volumes", "ohlc", "returned"} =>
            prices = Obj("clipped"))
    /\ [](pc \in {"volumes", "ohlc", "returned"} => volumes = Obj("volumes_int"))
    /\ [](pc \in {"ohlc", "returned"} => data.volume = Obj("volume"))

\* a call has returned with all its arrays in place, the integrator's
\* output still as it was before the clip replaced it
C25_Witness ==
    /\ pc = "returned"
    /\ periods > 1
    /\ Len(heap) = 15
    /\ Obj("prices") # Obj("clipped")
    /\ Obj("prices") # prices

\* C26: for every accepted input the period count the call resolves, which
\* is the number of rows it returns, is at most 10000, and at most 2000
\* when the timeframe is shorter than 60 minutes and no limit below 2000
\* was requested.
C26_GlobalCap ==
    pc = "resolved" =>
        /\ periods <= 10000
        /\ (/\ timeframe_mins < 60
            /\ (IsNone(args.limit) \/ Val(args.limit) >= 2000))
           => periods <= 2000

\* C27: with scenario bull, bear or sideways a call returns the table of
\* any earlier call that differs from it in symbol only.
C27_SymbolIgnored ==
    (/\ pc = "returned"
     /\ args.scenario \in TrendScenarios
     /\ kept # <<>>
     /\ [kept[1].args EXCEPT !.symbol = args.symbol] = args)
    => table = kept[1].table

\* a table of several rows returned for one symbol with the table of the
\* same call for another symbol kept
C27_Witness ==
    /\ pc = "returned"
    /\ args.scenario \in TrendScenarios
    /\ kept # <<>>
    /\ kept[1].args.symbol # args.symbol
    /\ [kept[1].args EXCEPT !.symbol = args.symbol] = args
    /\ Len(table.index) > 1

\* exactly one of start_date and end_date is supplied
OneDate(a) == IsNone(a.start_date) # IsNone(a.end_date)

\* C28: a call with exactly one of start_date and end_date raises only the
\* errors of the days validation, takes its period count from days, and
\* starts its timestamps at 2024-01-01 minus days, whatever date was given.
C28_OneDateIgnored ==
    (pc # "idle" /\ OneDate(args)) =>
        /\ error # "start_date must be before end_date"
        /\ (pc = "raised") = (args.days <= 0 \/ args.days > 365)
        /\ pc # "raised" =>
              /\ periods =
                    apply_performance_caps(
                        calculate_periods_from_days(args.days, timeframe_mins),
                        timeframe_mins, args.limit)
              /\ actual_start_date = 0 - args.days * 86400
        /\ (pc = "returned" /\ Len(table.index) > 0) =>
              table.index[1] = 0 - args.days * 86400

\* a table of several rows returned for a call given a start_date and no
\* end_date, its first timestamp not the start_date
C28_Witness ==
    /\ pc = "returned"
    /\ ~IsNone(args.start_date)
    /\ IsNone(args.end_date)
    /\ Len(table.index) > 1
    /\ table.index[1] # Val(args.start_date)
    /\ table.index[1] = 0 - args.days * 86400

\* C29: in the volatility recurrence current_vol is at least the base
\* volatility before and after every period, and every period sets it to
\* min(base + 0.1 * shock^2 + 0.8 * (current_vol - base), 3 * base): the
\* floor at 0.3 * base never changes the value.
C29_FloorNeverBinds ==
    /\ [](pc = "in_volatility" =>
            current_vol >= base_volatility(args.timeframe))
    /\ [][pc = "in_volatility" =>
            LET base == base_volatility(args.timeframe)
                shock == Normal(Load(rng), 3000)
            IN current_vol' =
                 Min2(base + (shock * shock) \div 100000
                           + (8 * (current_vol - base)) \div 10,
                      3 * base)]_vars

\* after several periods current_vol lies strictly between the base
\* volatility and the ceiling, decaying from a larger value
C29_Witness ==
    /\ pc = "in_volatility"
    /\ Len(volatility_cycles) > 2
    /\ current_vol > base_volatility(args.timeframe)
    /\ current_vol < 3 * base_volatility(args.timeframe)
    /\ volatility_cycles[Len(volatility_cycles)] # current_vol

\* C30: in a call with n >= 1 periods the trend model makes n draws for
\* bull, bear and sideways and none for any other scenario; the volatility
\* model, the price path and the volume model then make n draws each and
\* the OHLC synthesis 3n - 1, so a call makes 7n - 1 draws, or 6n - 1 with
\* the later stages reading the reseeded stream n draws earlier.
C30_DrawCount ==
    (pc \in PastSeed /\ periods >= 1) =>
        LET n == periods
            t == IF scenario \in TrendScenarios THEN n ELSE 0
        IN /\ pc = "seeded" => draws = 0
           /\ pc = "trend" => draws = t
           /\ pc = "volatility" => draws = t + n
           /\ pc \in {"prices", "clipped"} => draws = t + 2 * n
           /\ pc = "volumes" => draws = t + 3 * n
           /\ pc \in {"ohlc", "returned"} =>
                 /\ draws = t + 6 * n - 1
                 /\ scenario \in TrendScenarios => draws = 7 * n - 1
           /\ rng = StreamAt(draws + 1)

\* a call of several periods with a scenario outside bull, bear and
\* sideways has returned after 6n - 1 draws
C30_Witness ==
    /\ pc = "returned"
    /\ periods > 1
    /\ scenario \notin TrendScenarios
    /\ draws = 6 * periods - 1
    /\ rng = StreamAt(6 * periods)
====
